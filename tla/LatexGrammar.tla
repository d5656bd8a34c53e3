---------------------------- MODULE LatexGrammar ----------------------------
(* The LaTeX parser, src/syntax/latex/parser.rs: one rule per function, in  *)
(* the order of the source, and the tokens its lexer hands out.  Token and  *)
(* node kinds are the SyntaxKinds of the source, as strings.                *)
EXTENDS SyntaxRules, TLC

-----------------------------------------------------------------------------
(* Tokens                                                                   *)

White == {"LINE_BREAK", "WHITESPACE"}
Comments == White \union {"COMMENT"}

\* tokenize_command_name: the kind of a command and the function that
\* content() calls for it.
CommandRule ==
  [ BEGIN_EQUATION_NAME |-> "equation", PART_NAME |-> "part",
    CHAPTER_NAME |-> "chapter", SECTION_NAME |-> "section",
    SUBSECTION_NAME |-> "subsection", SUBSUBSECTION_NAME |-> "subsubsection",
    PARAGRAPH_NAME |-> "paragraph", SUBPARAGRAPH_NAME |-> "subparagraph",
    ENUM_ITEM_NAME |-> "enum_item", CAPTION_NAME |-> "caption",
    CITATION_NAME |-> "citation", PACKAGE_INCLUDE_NAME |-> "package_include",
    CLASS_INCLUDE_NAME |-> "class_include",
    LATEX_INCLUDE_NAME |-> "latex_include",
    BIBLATEX_INCLUDE_NAME |-> "biblatex_include",
    BIBTEX_INCLUDE_NAME |-> "bibtex_include",
    GRAPHICS_INCLUDE_NAME |-> "graphics_include",
    SVG_INCLUDE_NAME |-> "svg_include",
    INKSCAPE_INCLUDE_NAME |-> "inkscape_include",
    VERBATIM_INCLUDE_NAME |-> "verbatim_include", IMPORT_NAME |-> "import",
    LABEL_DEFINITION_NAME |-> "label_definition",
    LABEL_REFERENCE_NAME |-> "label_reference",
    LABEL_REFERENCE_RANGE_NAME |-> "label_reference_range",
    LABEL_NUMBER_NAME |-> "label_number",
    COMMAND_DEFINITION_NAME |-> "command_definition",
    MATH_OPERATOR_NAME |-> "math_operator",
    GLOSSARY_ENTRY_DEFINITION_NAME |-> "glossary_entry_definition",
    GLOSSARY_ENTRY_REFERENCE_NAME |-> "glossary_entry_reference",
    ACRONYM_DEFINITION_NAME |-> "acronym_definition",
    ACRONYM_DECLARATION_NAME |-> "acronym_declaration",
    ACRONYM_REFERENCE_NAME |-> "acronym_reference",
    THEOREM_DEFINITION_NAME |-> "theorem_definition",
    COLOR_REFERENCE_NAME |-> "color_reference",
    COLOR_DEFINITION_NAME |-> "color_definition",
    COLOR_SET_DEFINITION_NAME |-> "color_set_definition",
    TIKZ_LIBRARY_IMPORT_NAME |-> "tikz_library_import",
    ENVIRONMENT_DEFINITION_NAME |-> "environment_definition",
    BEGIN_BLOCK_COMMENT_NAME |-> "block_comment",
    GRAPHICS_PATH_NAME |-> "graphics_path" ]

\* Commands content() has no function of its own for.
PlainCommands ==
  { "GENERIC_COMMAND_NAME", "BEGIN_ENVIRONMENT_NAME", "END_ENVIRONMENT_NAME",
    "END_EQUATION_NAME", "END_BLOCK_COMMENT_NAME" }

\* SyntaxKind::is_command_name, which leaves four kinds out.
CommandNames ==
  (DOMAIN CommandRule \union PlainCommands)
    \ { "ENVIRONMENT_DEFINITION_NAME", "BEGIN_BLOCK_COMMENT_NAME",
        "END_BLOCK_COMMENT_NAME", "GRAPHICS_PATH_NAME" }

Delimiters ==
  { "L_CURLY", "R_CURLY", "L_BRACK", "R_BRACK", "L_PAREN", "R_PAREN" }

\* Every kind the lexer pushes.
Tokens ==
  DOMAIN CommandRule \union PlainCommands \union Delimiters \union Comments
    \union { "COMMA", "EQUALITY_SIGN", "WORD", "DOLLAR", "VERBATIM" }

\* The tokens that may follow a token of kind k: the patterns of the lexer
\* take as many characters as they can, and a block comment is one token up
\* to the \fi.  VERBATIM after the \begin of a verbatim environment is left
\* out: content() eats it wherever it stands.
CanFollow(k) ==
  CASE k = "BEGIN_BLOCK_COMMENT_NAME" ->
         {"VERBATIM", "END_BLOCK_COMMENT_NAME", EOF}
    [] k = "VERBATIM" -> {"END_BLOCK_COMMENT_NAME", EOF}
    [] k = "COMMENT"  -> White \union {EOF}
    [] k \in White    -> ((Tokens \ White) \ {"VERBATIM"}) \union {EOF}
    [] k = "WORD"     -> (Tokens \ {"WORD", "VERBATIM"}) \union {EOF}
    [] OTHER          -> (Tokens \ {"VERBATIM"}) \union {EOF}

-----------------------------------------------------------------------------
(* Building blocks                                                          *)

trivia == <<While(Comments, <<Eat>>)>>

\* expect and expect2
expect(ks) == <<If(ks, <<Eat>> \o trivia, <<Missing>>)>>

\* content() under the three ParserContexts the code uses.
content                     == Dispatch("content")
content_without_environment == Dispatch("content_without_environment")
content_without_comma       == Dispatch("content_without_comma")

\* The forms every command is made of: a node that begins with the command's
\* name, an argument that must be there and an option that may be.
Command(k, arguments) == Node(k, <<Eat>> \o trivia \o arguments)
Argument(r) == <<If({"L_CURLY"}, <<Call(r)>>, <<Missing>>)>>
Option(r)   == <<If({"L_BRACK"}, <<Call(r)>>, << >>)>>

\* What an unclosed option stops at; \subsubsection is not in the list.
Divisions ==
  { "PART_NAME", "CHAPTER_NAME", "SECTION_NAME", "SUBSECTION_NAME",
    "PARAGRAPH_NAME", "SUBPARAGRAPH_NAME", "ENUM_ITEM_NAME" }

-----------------------------------------------------------------------------
(* Groups                                                                   *)

text(commas) ==
  Node("TEXT", <<Eat, While(Comments \union {"WORD"} \union commas, <<Eat>>)>>)

curly_group ==
  Node("CURLY_GROUP",
    <<Eat, Until({"R_CURLY", "END_ENVIRONMENT_NAME"}, <<content>>)>>
      \o expect({"R_CURLY"}))

curly_group_impl ==
  Node("CURLY_GROUP",
    <<Eat, Until({"R_CURLY"},
       <<If({"BEGIN_ENVIRONMENT_NAME"}, <<Call("begin")>>,
          <<If({"END_ENVIRONMENT_NAME"}, <<Call("end")>>, <<content>>)>>)>>)>>
      \o expect({"R_CURLY"}))

curly_group_without_environments ==
  Node("CURLY_GROUP",
    <<Eat, Until({"R_CURLY"}, <<content_without_environment>>)>>
      \o expect({"R_CURLY"}))

curly_group_word ==
  Node("CURLY_GROUP_WORD",
    <<Eat>> \o trivia
      \o <<If({"WORD"}, <<Call("key")>>,
            <<If(CommandNames, <<content>>, <<Missing>>)>>)>>
      \o expect({"R_CURLY"}))

curly_group_word_list ==
  Node("CURLY_GROUP_WORD_LIST",
    <<Eat, While(Comments \union {"WORD", "COMMA"},
             <<If({"WORD"}, <<Call("key")>>, <<Eat>>)>>)>>
      \o expect({"R_CURLY"}))

curly_group_command ==
  Node("CURLY_GROUP_COMMAND",
    <<Eat>> \o trivia \o <<If(CommandNames, <<Eat>> \o trivia, <<Missing>>)>>
      \o expect({"R_CURLY"}))

brack_group ==
  Node("BRACK_GROUP",
    <<Eat, Until({"R_CURLY", "R_BRACK", "END_ENVIRONMENT_NAME"}
                   \union Divisions, <<content>>)>>
      \o expect({"R_BRACK"}))

brack_group_word ==
  Node("BRACK_GROUP_WORD",
    <<Eat>> \o trivia \o <<If({"WORD"}, <<Call("key")>>, <<Missing>>)>>
      \o expect({"R_BRACK"}))

mixed_group ==
  Node("MIXED_GROUP",
    <<Eat>> \o trivia
      \o <<Until({"R_CURLY", "R_BRACK", "R_PAREN", "END_ENVIRONMENT_NAME"}
                   \union Divisions, <<content>>)>>
      \o expect({"R_BRACK", "R_PAREN"}))

key ==
  Node("KEY",
    <<Eat, While({"WHITESPACE", "COMMENT", "WORD"}, <<Eat>>)>> \o trivia)

value ==
  Node("VALUE",
    <<Until({"COMMA", "R_BRACK", "R_CURLY"}, <<content_without_comma>>)>>)

key_value_pair ==
  Node("KEY_VALUE_PAIR",
    <<Call("key"),
      If({"EQUALITY_SIGN"},
         <<Eat>> \o trivia
           \o <<If({"END_ENVIRONMENT_NAME", "R_CURLY", "R_BRACK", "R_PAREN",
                    "COMMA", EOF}, <<Missing>>, <<Call("value")>>)>>,
         << >>)>>)

key_value_body ==
  Node("KEY_VALUE_BODY",
    <<While(Comments \union {"WORD"},
        <<If({"WORD"},
             <<Call("key_value_pair"), If({"COMMA"}, <<Eat>>, <<Break>>)>>,
             <<Eat>>)>>)>>)

group_key_value(k, right) ==
  Node(k, <<Eat>> \o trivia \o <<Call("key_value_body")>> \o expect({right}))

curly_group_key_value == group_key_value("CURLY_GROUP_KEY_VALUE", "R_CURLY")

brack_group_key_value == group_key_value("BRACK_GROUP_KEY_VALUE", "R_BRACK")

\* Mutant of formula: an unclosed formula goes on past the group it is in.
FormulaPassesCurly ==
  Node("FORMULA",
    <<Eat>> \o trivia
      \o <<Until({"END_ENVIRONMENT_NAME", "DOLLAR"}, <<content>>)>>
      \o expect({"DOLLAR"}))

formula ==
  Node("FORMULA",
    <<Eat>> \o trivia
      \o <<Until({"R_CURLY", "END_ENVIRONMENT_NAME", "DOLLAR"}, <<content>>)>>
      \o expect({"DOLLAR"}))

\* Mutant of generic_command: white space before an argument is seen, not eaten.
GenericCommandSpins ==
  Node("GENERIC_COMMAND",
    <<Eat, While(Comments \union {"L_CURLY", "L_BRACK", "L_PAREN"},
       <<If({"L_CURLY"}, <<Call("curly_group")>>,
          <<If({"L_BRACK", "L_PAREN"}, <<Call("mixed_group")>>, << >>)>>)>>)>>)

generic_command ==
  Node("GENERIC_COMMAND",
    <<Eat, While(Comments \union {"L_CURLY", "L_BRACK", "L_PAREN"},
       <<If(Comments, <<Eat>>,
          <<If({"L_CURLY"}, <<Call("curly_group")>>,
                            <<Call("mixed_group")>>)>>)>>)>>)

equation ==
  Node("EQUATION",
    <<Eat, Until({"END_ENVIRONMENT_NAME", "R_CURLY", "END_EQUATION_NAME"},
                 <<content>>)>>
      \o expect({"END_EQUATION_NAME"}))

-----------------------------------------------------------------------------
(* Environments and the structure of the document                           *)

begin ==
  Command("BEGIN", Argument("curly_group_word") \o Option("brack_group"))

end == Command("END", Argument("curly_group_word"))

\* Mutant of environment: its \end is taken for granted.
EnvironmentAlwaysEnds ==
  Node("ENVIRONMENT",
    <<Call("begin"), Until({"END_ENVIRONMENT_NAME"}, <<content>>), Call("end")>>)

environment ==
  Node("ENVIRONMENT",
    <<Call("begin"), Until({"END_ENVIRONMENT_NAME"}, <<content>>),
      If({"END_ENVIRONMENT_NAME"}, <<Call("end")>>, <<Missing>>)>>)

preamble == Node("PREAMBLE", <<Until({"END_ENVIRONMENT_NAME"}, <<content>>)>>)

\* parse: the whole document.
parse == Node("ROOT", <<Call("preamble"), Until({}, <<content>>)>>)

\* A division: its title, then everything up to one that it cannot contain.
Division(k, ks) ==
  Command(k, Argument("curly_group")
    \o <<Until({"END_ENVIRONMENT_NAME", "R_CURLY"} \union ks, <<content>>)>>)

part == Division("PART", {"PART_NAME"})

chapter == Division("CHAPTER", {"PART_NAME", "CHAPTER_NAME"})

section == Division("SECTION", {"PART_NAME", "CHAPTER_NAME", "SECTION_NAME"})

subsection ==
  Division("SUBSECTION",
    {"PART_NAME", "CHAPTER_NAME", "SECTION_NAME", "SUBSECTION_NAME"})

subsubsection ==
  Division("SUBSUBSECTION",
    {"PART_NAME", "CHAPTER_NAME", "SECTION_NAME", "SUBSECTION_NAME",
     "SUBSUBSECTION_NAME"})

paragraph ==
  Division("PARAGRAPH",
    {"PART_NAME", "CHAPTER_NAME", "SECTION_NAME", "SUBSECTION_NAME",
     "SUBSUBSECTION_NAME", "PARAGRAPH_NAME"})

subparagraph ==
  Division("SUBPARAGRAPH",
    {"PART_NAME", "CHAPTER_NAME", "SECTION_NAME", "SUBSECTION_NAME",
     "SUBSUBSECTION_NAME", "PARAGRAPH_NAME", "SUBPARAGRAPH_NAME"})

\* Mutant of enum_item: an item goes on past the group it is in.
EnumItemPassesCurly ==
  Command("ENUM_ITEM", Option("brack_group")
    \o <<Until({"END_ENVIRONMENT_NAME", "SUBSUBSECTION_NAME"}
                 \union Divisions, <<content>>)>>)

enum_item ==
  Command("ENUM_ITEM", Option("brack_group")
    \o <<Until({"END_ENVIRONMENT_NAME", "R_CURLY", "SUBSUBSECTION_NAME"}
                 \union Divisions, <<content>>)>>)

block_comment ==
  Node("BLOCK_COMMENT",
    <<Eat, If({"VERBATIM"}, <<Eat>>, << >>),
      If({"END_BLOCK_COMMENT_NAME"}, <<Eat>>, <<Missing>>)>>)

-----------------------------------------------------------------------------
(* Commands                                                                 *)

caption == Command("CAPTION", Option("brack_group") \o Argument("curly_group"))

\* Mutant of citation: its keys are taken for granted.
CitationAlwaysHasKeys ==
  Command("CITATION", Option("brack_group") \o Option("brack_group")
                        \o <<Call("curly_group_word_list")>>)

citation ==
  Command("CITATION", Option("brack_group") \o Option("brack_group")
                        \o Argument("curly_group_word_list"))

generic_include(k, options) ==
  Command(k, (IF options THEN Option("brack_group_key_value") ELSE << >>)
               \o Argument("curly_group_path_list"))

curly_group_path ==
  Node("CURLY_GROUP_WORD",
    <<Eat, While({"WORD"}, <<Call("path")>>)>> \o expect({"R_CURLY"}))

curly_group_path_list ==
  Node("CURLY_GROUP_WORD_LIST",
    <<Eat, While(Comments \union {"WORD", "COMMA", "EQUALITY_SIGN"},
             <<If({"WORD"}, <<Call("path")>>, <<Eat>>)>>)>>
      \o expect({"R_CURLY"}))

path ==
  Node("KEY",
    <<Eat, While({"WHITESPACE", "COMMENT", "WORD", "EQUALITY_SIGN"}, <<Eat>>)>>
      \o trivia)

import ==
  Command("IMPORT",
    Argument("curly_group_word") \o Argument("curly_group_word"))

label_definition == Command("LABEL_DEFINITION", Argument("curly_group_word"))

label_reference == Command("LABEL_REFERENCE", Argument("curly_group_word_list"))

label_reference_range ==
  Command("LABEL_REFERENCE_RANGE",
    Argument("curly_group_word") \o Argument("curly_group_word"))

\* The MISSING of the second argument stands where the argument is there.
label_number ==
  Command("LABEL_NUMBER", Argument("curly_group_word")
    \o <<If({"L_CURLY"}, <<Call("curly_group"), Missing>>, << >>)>>)

command_definition ==
  Command("COMMAND_DEFINITION", Argument("curly_group_command")
    \o <<If({"L_BRACK"}, <<Call("brack_group_word")>> \o Option("brack_group"),
                         << >>)>>
    \o Argument("curly_group_impl"))

math_operator ==
  Command("MATH_OPERATOR",
    Argument("curly_group_command") \o Argument("curly_group_impl"))

glossary_entry_definition ==
  Command("GLOSSARY_ENTRY_DEFINITION",
    Argument("curly_group_word") \o Argument("curly_group_key_value"))

glossary_entry_reference ==
  Command("GLOSSARY_ENTRY_REFERENCE",
    Option("brack_group_key_value") \o Argument("curly_group_word"))

acronym_definition ==
  Command("ACRONYM_DEFINITION",
    Option("brack_group_key_value") \o Argument("curly_group_word")
      \o Argument("curly_group") \o Argument("curly_group"))

acronym_declaration ==
  Command("ACRONYM_DECLARATION",
    Argument("curly_group_word") \o Argument("curly_group_key_value"))

acronym_reference ==
  Command("ACRONYM_REFERENCE",
    Option("brack_group_key_value") \o Argument("curly_group_word"))

theorem_definition ==
  Command("THEOREM_DEFINITION",
    Argument("curly_group_word") \o Option("brack_group_word")
      \o Argument("curly_group") \o Option("brack_group_word"))

color_reference == Command("COLOR_REFERENCE", Argument("curly_group_word"))

color_definition ==
  Command("COLOR_DEFINITION",
    Argument("curly_group_word") \o Argument("curly_group_word")
      \o Argument("curly_group"))

color_set_definition ==
  Command("COLOR_SET_DEFINITION",
    Option("brack_group_word") \o Argument("curly_group_word_list")
      \o Argument("curly_group_word") \o Argument("curly_group_word")
      \o Argument("curly_group_word"))

tikz_library_import ==
  Command("TIKZ_LIBRARY_IMPORT", Argument("curly_group_word_list"))

environment_definition ==
  Command("ENVIRONMENT_DEFINITION", Argument("curly_group_word")
    \o <<If({"L_BRACK"}, <<Call("brack_group_word")>> \o Option("brack_group"),
                         << >>)>>
    \o Argument("curly_group_without_environments")
    \o Argument("curly_group_without_environments"))

graphics_path ==
  Command("GRAPHICS_PATH",
    <<If({"L_CURLY"},
         <<Eat>> \o trivia \o <<While({"L_CURLY"}, <<Call("curly_group_path")>>)>>,
         <<Missing>>)>> \o expect({"R_CURLY"}))

-----------------------------------------------------------------------------
(* The functions by name                                                    *)

Rules ==
  [ parse |-> parse, preamble |-> preamble, begin |-> begin, end |-> end,
    environment |-> environment, curly_group |-> curly_group,
    curly_group_impl |-> curly_group_impl,
    curly_group_without_environments |-> curly_group_without_environments,
    curly_group_word |-> curly_group_word,
    curly_group_word_list |-> curly_group_word_list,
    curly_group_command |-> curly_group_command,
    curly_group_path |-> curly_group_path,
    curly_group_path_list |-> curly_group_path_list, path |-> path,
    brack_group |-> brack_group, brack_group_word |-> brack_group_word,
    mixed_group |-> mixed_group, key |-> key, value |-> value,
    key_value_pair |-> key_value_pair, key_value_body |-> key_value_body,
    curly_group_key_value |-> curly_group_key_value,
    brack_group_key_value |-> brack_group_key_value, formula |-> formula,
    generic_command |-> generic_command, equation |-> equation, part |-> part,
    chapter |-> chapter, section |-> section, subsection |-> subsection,
    subsubsection |-> subsubsection, paragraph |-> paragraph,
    subparagraph |-> subparagraph, enum_item |-> enum_item,
    block_comment |-> block_comment, caption |-> caption,
    citation |-> citation,
    package_include |-> generic_include("PACKAGE_INCLUDE", TRUE),
    class_include |-> generic_include("CLASS_INCLUDE", TRUE),
    latex_include |-> generic_include("LATEX_INCLUDE", FALSE),
    biblatex_include |-> generic_include("BIBLATEX_INCLUDE", TRUE),
    bibtex_include |-> generic_include("BIBTEX_INCLUDE", FALSE),
    graphics_include |-> generic_include("GRAPHICS_INCLUDE", TRUE),
    svg_include |-> generic_include("SVG_INCLUDE", TRUE),
    inkscape_include |-> generic_include("INKSCAPE_INCLUDE", TRUE),
    verbatim_include |-> generic_include("VERBATIM_INCLUDE", FALSE),
    import |-> import, label_definition |-> label_definition,
    label_reference |-> label_reference,
    label_reference_range |-> label_reference_range,
    label_number |-> label_number, command_definition |-> command_definition,
    math_operator |-> math_operator,
    glossary_entry_definition |-> glossary_entry_definition,
    glossary_entry_reference |-> glossary_entry_reference,
    acronym_definition |-> acronym_definition,
    acronym_declaration |-> acronym_declaration,
    acronym_reference |-> acronym_reference,
    theorem_definition |-> theorem_definition,
    color_reference |-> color_reference, color_definition |-> color_definition,
    color_set_definition |-> color_set_definition,
    tikz_library_import |-> tikz_library_import,
    environment_definition |-> environment_definition,
    graphics_path |-> graphics_path ]

\* The match of content(): what it does with a token of each kind.
Content(allow_environment, allow_comma) ==
  LET Words == text(IF allow_comma THEN {"COMMA"} ELSE {})
      Curly == IF allow_environment THEN "curly_group"
                                    ELSE "curly_group_without_environments"
      Begin == IF allow_environment THEN "environment" ELSE "generic_command"
  IN  [k \in Comments \union {"VERBATIM", "EQUALITY_SIGN"} |-> <<Eat>>]
      @@ [k \in {"R_CURLY", "R_BRACK", "R_PAREN"} |-> Node("ERROR", <<Eat>>)]
      @@ [k \in {"WORD", "COMMA"} |-> Words]
      @@ [k \in {"L_BRACK", "L_PAREN"} |-> <<Call("mixed_group")>>]
      @@ [k \in DOMAIN CommandRule |-> <<Call(CommandRule[k])>>]
      @@ [ L_CURLY |-> <<Call(Curly)>>, DOLLAR |-> <<Call("formula")>>,
           BEGIN_ENVIRONMENT_NAME |-> <<Call(Begin)>> ]
      @@ [k \in PlainCommands |-> <<Call("generic_command")>>]

Arms ==
  [ content |-> Content(TRUE, TRUE),
    content_without_environment |-> Content(FALSE, TRUE),
    content_without_comma |-> Content(TRUE, FALSE) ]
=============================================================================
