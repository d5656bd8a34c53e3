---------------------------- MODULE BibtexGrammar ----------------------------
(* The BibTeX parser, src/syntax/bibtex/parser.rs: one rule per function,   *)
(* and the tokens its lexer hands out.                                      *)
EXTENDS SyntaxRules, TLC

\* SyntaxKind::is_type: the tokens an entry of the file begins with.
Types == {"PREAMBLE_TYPE", "STRING_TYPE", "COMMENT_TYPE", "ENTRY_TYPE"}

\* Every kind the lexer pushes.
Tokens ==
  Types \union
  { "WHITESPACE", "WORD", "L_CURLY", "R_CURLY", "L_PAREN", "R_PAREN", "COMMA",
    "HASH", "QUOTE", "EQUALITY_SIGN", "COMMAND_NAME" }

\* The tokens that may follow one of kind k: each is the longest the text has
\* at its place, and the characters of a word are those of a type, too.
CanFollow(k) ==
  LET longer == IF k \in Types \union {"WORD"} THEN Types \union {"WORD"}
                                              ELSE {k} \intersect {"WHITESPACE"}
  IN  (Tokens \ longer) \union {EOF}

-----------------------------------------------------------------------------

trivia == <<While({"WHITESPACE"}, <<Eat>>)>>

\* expect, and the two functions that take either delimiter.
expect(ks) == <<If(ks, <<Eat>> \o trivia, <<Missing>>)>>

left_delimiter_or_missing == expect({"L_CURLY", "L_PAREN"})

right_delimiter_or_missing == expect({"R_CURLY", "R_PAREN"})

value_or_missing ==
  <<If({"L_CURLY", "QUOTE", "WORD"}, <<Call("value")>>, <<Missing>>)>>

\* parse: the whole file; the match on the type of what comes next.
parse == Node("ROOT", <<Until({}, <<Dispatch("item")>>)>>)

item ==
  [ PREAMBLE_TYPE |-> <<Call("preamble")>>, STRING_TYPE |-> <<Call("string")>>,
    COMMENT_TYPE |-> <<Call("comment")>>, ENTRY_TYPE |-> <<Call("entry")>> ]
  @@ [k \in Tokens \ Types |-> <<Call("junk")>>]

junk == Node("JUNK", <<Until(Types, <<Eat>>)>>)

preamble ==
  Node("PREAMBLE", <<Eat>> \o trivia \o left_delimiter_or_missing
                     \o value_or_missing \o right_delimiter_or_missing)

\* A @string without a name returns early.
string ==
  <<Open("STRING"), Eat>> \o trivia \o left_delimiter_or_missing
    \o <<If({"WORD"},
          <<Eat>> \o trivia \o expect({"EQUALITY_SIGN"}) \o value_or_missing
            \o right_delimiter_or_missing \o <<Close>>,
          <<Missing, Close>>)>>

comment == Node("COMMENT", <<Eat>>)

\* So does an entry without a key.
entry ==
  <<Open("ENTRY"), Eat>> \o trivia \o left_delimiter_or_missing
    \o <<If({"WORD"},
          <<Call("key"),
            While({"WHITESPACE", "WORD", "COMMA"},
                  <<If({"WORD"}, <<Call("field")>>, <<Eat>>)>>)>>
            \o right_delimiter_or_missing \o <<Close>>,
          <<Missing, Close>>)>>

key == Node("KEY", <<While({"WORD", "WHITESPACE"}, <<Eat>>)>>)

field ==
  Node("FIELD", <<Eat>> \o trivia \o expect({"EQUALITY_SIGN"})
                  \o value_or_missing)

value ==
  Node("VALUE",
    <<Call("token"),
      While({"WHITESPACE", "L_CURLY", "QUOTE", "WORD", "HASH"},
            <<If({"WHITESPACE", "HASH"}, <<Eat>>, <<Call("token")>>)>>)>>)

token == Node("TOKEN", <<Dispatch("token_body")>>)

token_body ==
  [ L_CURLY |-> <<Call("brace_group")>>, QUOTE |-> <<Call("quote_group")>>,
    WORD |-> <<Eat>> ]

brace_group ==
  Node("BRACE_GROUP",
    <<Eat, Until(Types \union {"R_CURLY"},
             <<If({"L_CURLY"}, <<Call("brace_group")>>, <<Eat>>)>>)>>
      \o expect({"R_CURLY"}))

\* Mutant of quote_group: an unclosed quote goes on past the next entry's type.
QuoteGroupPassesEntry ==
  Node("QUOTE_GROUP",
    <<Eat, Until({"R_CURLY", "QUOTE"},
             <<If({"L_CURLY"}, <<Call("brace_group")>>, <<Eat>>)>>)>>
      \o expect({"QUOTE"}))

quote_group ==
  Node("QUOTE_GROUP",
    <<Eat, Until(Types \union {"R_CURLY", "QUOTE"},
             <<If({"L_CURLY"}, <<Call("brace_group")>>, <<Eat>>)>>)>>
      \o expect({"QUOTE"}))

-----------------------------------------------------------------------------

Rules ==
  [ parse |-> parse, junk |-> junk, preamble |-> preamble, string |-> string,
    comment |-> comment, entry |-> entry, key |-> key, field |-> field,
    value |-> value, token |-> token, brace_group |-> brace_group,
    quote_group |-> quote_group ]

Arms == [ item |-> item, token_body |-> token_body ]
=============================================================================
