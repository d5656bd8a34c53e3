----------------------------- MODULE FeaturesMC -----------------------------
(* A project for the run of Features: main.tex includes two.tex and has the *)
(* bibliography refs.bib, and pieces of text that interact: names that are  *)
(* defined, used and cited, constructs that nest, characters of two and of  *)
(* four bytes, and what is left open.                                       *)
EXTENDS Features, FunctionTypes, WellFormedPlaces

TheFiles ==
  << [uri |-> "main", language |-> "latex", ext |-> "tex"],
     [uri |-> "two", language |-> "latex", ext |-> "tex"],
     [uri |-> "refs", language |-> "bibtex", ext |-> "bib"] >>

TheTargets(kind, stem) == IF stem = << >> THEN << >> ELSE stem

-----------------------------------------------------------------------------

Br == Tok("LINE_BREAK", "", <<Newline>>)
L  == Tok("L_CURLY", "{", <<1>>)
R  == Tok("R_CURLY", "}", <<1>>)
LB == Tok("L_BRACK", "[", <<1>>)
RB == Tok("R_BRACK", "]", <<1>>)
Comma  == Tok("COMMA", ",", <<1>>)
Equals == Tok("EQUALITY_SIGN", "=", <<1>>)
Space  == Tok("WHITESPACE", "", <<1>>)
Quote  == Tok("QUOTE", "", <<1>>)
End    == Tok("WHITESPACE", "", <<Newline>>)

\* The names k and t are not ASCII.
W(name) == Tok("WORD", name, CASE name = "k" -> <<2, 1>> [] name = "t" -> <<4>>
                               [] OTHER -> <<1>>)
C(kind) == Tok(kind, kind, <<1, 1, 1>>)
Arg(name) == <<L, W(name), R>>
Opt(name) == <<LB, W(name), RB>>

In(name, body) ==
  <<C("BEGIN_ENVIRONMENT_NAME")>> \o Arg(name) \o body
    \o <<C("END_ENVIRONMENT_NAME")>> \o Arg(name)
Label(name)   == <<C("LABEL_DEFINITION_NAME")>> \o Arg(name)
Section(name) == <<C("SECTION_NAME")>> \o Arg(name)
Caption(name) == <<C("CAPTION_NAME")>> \o Arg(name)
Include(name) == <<C("LATEX_INCLUDE_NAME")>> \o Arg(name)
Bibliography  == <<C("BIBTEX_INCLUDE_NAME")>> \o Arg("refs")
Own == Tok("GENERIC_COMMAND_NAME", "own", <<1, 2>>)

\* Definitions no feature asks about but that have accessors.
Others ==
  <<C("COLOR_DEFINITION_NAME")>> \o Arg("a") \o Arg("b") \o Arg("t")
    \o <<C("COLOR_SET_DEFINITION_NAME")>> \o Arg("a") \o Arg("b") \o Arg("b") \o Arg("b")
    \o <<C("COLOR_REFERENCE_NAME")>> \o Arg("a")
    \o <<C("GLOSSARY_ENTRY_REFERENCE_NAME")>> \o Arg("a")
    \o <<C("ACRONYM_DEFINITION_NAME")>> \o Arg("a") \o Arg("b") \o Arg("b")
    \o <<C("IMPORT_NAME")>> \o Arg("b") \o Arg("b")
    \o <<C("TIKZ_LIBRARY_IMPORT_NAME")>> \o Arg("b")
    \o <<C("PACKAGE_INCLUDE_NAME"), LB, W("b"), Equals, W("a"), RB>> \o Arg("b")

LatexPieces ==
  { Section("t"), Section("t") \o Label("b"),
    In("figure", Caption("t") \o Label("b")),
    In("figure", Label("b")),
    In("equation", Label("b")),
    <<C("BEGIN_EQUATION_NAME")>> \o Label("b") \o <<C("END_EQUATION_NAME")>>,
    In("enumerate", Label("b") \o <<C("ENUM_ITEM_NAME")>> \o Opt("t") \o Label("a")
                      \o <<C("ENUM_ITEM_NAME"), Space>> \o Label("c")),
    In("thm", Opt("t") \o Label("b")),
    <<C("LABEL_NUMBER_NAME")>> \o Arg("b") \o <<L>> \o Arg("1") \o <<R>>,
    <<C("LABEL_REFERENCE_NAME"), L, W("c"), Space, W("a"), Comma, W("b"), R>>,
    <<C("LABEL_REFERENCE_RANGE_NAME")>> \o Arg("a") \o Arg("b"),
    <<C("CITATION_NAME")>> \o Opt("a") \o Opt("b") \o <<L, W("k"), Comma, W("j"), R>>,
    <<C("COMMAND_DEFINITION_NAME"), L, Own, R, L, Own, R>>,
    Include("two"), Bibliography, Others,
    <<L>>, <<R>>, <<LB>>, <<C("SECTION_NAME"), L>>, <<C("LABEL_REFERENCE_NAME"), L, W("b"), Space, W("c")>>,
    <<C("BEGIN_ENVIRONMENT_NAME")>> \o Arg("figure"),
    <<C("END_ENVIRONMENT_NAME")>> \o Arg("figure") }

Ty(k) == Tok(k, k, <<1, 1>>)
TheLowered == [ENTRY_TYPE |-> "@book", STRING_TYPE |-> "@string", PREAMBLE_TYPE |-> "@preamble"]
Entry(key, fields) == <<Ty("ENTRY_TYPE"), L, W(key), Comma>> \o fields \o <<R>>

BibtexPieces ==
  { Entry("k", <<W("f"), Space, Equals, L, W("a"), End, W("b"), Space, W("t"), L, W("a"), R, R,
                 Comma, W("g"), Equals, W("b")>>),
    <<Ty("ENTRY_TYPE"), L, W("j"), Space, W("k"), Comma, W("f"), Equals, W("a"), Space>>,
    <<Ty("PREAMBLE_TYPE"), Tok("L_PAREN", "", <<1>>), Quote, W("a"), End, W("b"), Quote>>,
    <<Ty("PREAMBLE_TYPE"), L, R>>,
    <<Ty("STRING_TYPE"), L, W("s"), Equals, Quote, W("t"), Quote, R>>,
    Entry("k", <<W("f"), Equals, W("s"), Tok("HASH", "", <<1>>), W("s")>>),
    Entry("j", <<W("f")>>), Entry("j", <<W("f"), Equals, Comma>>),
    <<Ty("ENTRY_TYPE"), L, R>>, <<Ty("ENTRY_TYPE"), L, W("j")>>, <<Ty("ENTRY_TYPE"), Space, W("j")>>,
    <<Ty("ENTRY_TYPE")>>, <<Ty("STRING_TYPE"), L>> }

ThePieces == [latex |-> {<<Br>> \o p : p \in LatexPieces},
              bibtex |-> {<<End>> \o p : p \in BibtexPieces}]

Theorems == <<C("THEOREM_DEFINITION_NAME")>> \o Arg("thm") \o Arg("t")
Number(name) == <<C("LABEL_NUMBER_NAME")>> \o Arg(name) \o <<L>> \o Arg("1") \o <<R>>

TheBeginnings ==
  { << Theorems \o Number("a") \o Include("two") \o Section("t") \o Label("a"),
       Section("t") \o <<Own>>, Entry("k", <<W("f"), Equals, W("s")>>) >>,
    << Bibliography \o <<C("BEGIN_ENVIRONMENT_NAME")>> \o Arg("enumerate")
         \o <<C("ENUM_ITEM_NAME")>>,
       Theorems \o Label("b"), Entry("k", << >>) >> }

-----------------------------------------------------------------------------

TheLanguages ==
  [ entry_types |-> << <<"article">>, <<"book">> >>, fields |-> << <<"f">>, <<"g">> >>,
    colors |-> << <<"a">>, <<"red">> >>, models |-> << <<"rgb">> >>,
    pgf_libraries |-> << <<"b">> >>, tikz_libraries |-> << <<"b">>, <<"c">> >> ]

\* The kernel, and a package that is included and the one it builds on.
TheComponents ==
  << [ files |-> << >>, references |-> << >>, environments |-> << <<"figure">>, <<"table">> >>,
       commands |-> << [name |-> "own", parameters |-> << << <<"a">> >> >>] >> ],
     [ files |-> << <<"package", <<"b">> >> >>, references |-> << <<"package", <<"c">> >> >>,
       commands |-> << >>, environments |-> << >> ],
     [ files |-> << <<"package", <<"c">> >>, <<"class", <<"c">> >> >>, references |-> << >>,
       commands |-> << [name |-> "new", parameters |-> << >>] >>,
       environments |-> << <<"equation">> >> ] >>

TheInstalled == << <<"package", <<"b">> >>, <<"class", <<"j">> >> >>
=============================================================================
