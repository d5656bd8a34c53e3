------------------------------- MODULE Parser -------------------------------
(* A run of one of texlab's two parsers over the tokens of a document, as   *)
(* it happens on every change of a document's text (Document::parse).  The  *)
(* call stack of the recursive descent is `todo`, the steps still to take;  *)
(* the stack of the tree builder is `open`, the nodes started and not       *)
(* finished.  The document is not chosen beforehand: the lexer reveals its  *)
(* next token when the previous one is eaten, which is all a parser with    *)
(* one token of lookahead can see of it.                                    *)
EXTENDS WellFormed

\* The families of documents: a language, the kinds of tokens used, the most
\* tokens, and whether only tokens of a well-formed document are revealed.
CONSTANT Documents

ASSUME DocumentsAssumption ==
  \A d \in Documents :
    /\ d.length \in Nat
    /\ d.wellFormed \in BOOLEAN
    /\ d.language \in {"latex", "bibtex"}
    /\ d.tokens \subseteq TokensOf(d.language)
    /\ d.wellFormed => d.language = "latex"

VARIABLES
  doc,      \* the family the document is of
  look,     \* the token peek() returns, or EOF
  eaten,    \* the number of tokens moved to the tree
  todo,     \* the steps to take, the next one first
  open,     \* the kinds of the open nodes, the root first
  fresh,    \* nothing has been put into the innermost open node yet
  clean,    \* no MISSING and no ERROR in the tree so far
  panicked, \* an unwrap() of None, or an unreachable!() reached
  owed      \* what a well-formed document still has to say

vars == <<doc, look, eaten, todo, open, fresh, clean, panicked, owed>>

-----------------------------------------------------------------------------

rules == RulesOf(doc.language)
arms  == ArmsOf(doc.language)

\* The next token is t, and with it what the document then owes.
Reveal(t, o) ==
  /\ look' = t
  /\ owed' = IF doc.wellFormed THEN Owed(o, t) ELSE NotWellFormed

\* The tokens the lexer may hand out after one of kind k, n of them eaten.  A
\* document may end anywhere, a well-formed one where it has said everything;
\* if the bound leaves it no way to go on it ends before.
Readable(k, n, o) ==
  LET follow == FollowOf(doc.language, k)
      more   == (IF n < doc.length THEN follow \intersect doc.tokens ELSE {})
                  \union {EOF}
      fit    == { t \in more : doc.wellFormed => Owed(o, t) # NotWellFormed }
  IN  IF fit = {} THEN {EOF} ELSE fit

Init ==
  /\ doc \in Documents
  /\ \E t \in Readable("none", 0, WholeDocument) :
       /\ look = t
       /\ owed = IF doc.wellFormed THEN Owed(WholeDocument, t) ELSE NotWellFormed
  /\ eaten = 0
  /\ todo = <<Call("parse")>>
  /\ open = << >>
  /\ fresh = FALSE
  /\ clean = TRUE
  /\ panicked = FALSE

-----------------------------------------------------------------------------
(* One action per kind of step.                                             *)

Doing(op) == todo # << >> /\ Head(todo).op = op

\* Go on with s in place of the first step.
Continue(s) == todo' = s \o Tail(todo)

\* The thread unwinds.
Panic ==
  /\ panicked' = TRUE
  /\ todo' = << >>
  /\ UNCHANGED <<doc, look, eaten, open, fresh, clean, owed>>

\* builder.start_node
StartNode ==
  /\ Doing("open")
  /\ open' = Append(open, Head(todo).kind)
  /\ fresh' = TRUE
  /\ clean' = (clean /\ Head(todo).kind # "ERROR")
  /\ Continue(<< >>)
  /\ UNCHANGED <<doc, look, eaten, panicked, owed>>

\* builder.finish_node, which unwraps the innermost open node.
FinishNode ==
  /\ Doing("close")
  /\ IF open = << >>
       THEN Panic
       ELSE /\ open' = SubSeq(open, 1, Len(open) - 1)
            /\ fresh' = FALSE
            /\ Continue(<< >>)
            /\ UNCHANGED <<doc, look, eaten, clean, panicked, owed>>

\* eat: the token goes to the tree, and the lexer has a next one.
EatToken ==
  /\ Doing("eat")
  /\ IF look = EOF
       THEN Panic
       ELSE /\ eaten' = eaten + 1
            /\ \E t \in Readable(look, eaten + 1, owed) : Reveal(t, owed)
            /\ fresh' = FALSE
            /\ Continue(<< >>)
            /\ UNCHANGED <<doc, open, clean, panicked>>

\* builder.token(MISSING, "")
ReportMissing ==
  /\ Doing("missing")
  /\ clean' = FALSE
  /\ fresh' = FALSE
  /\ Continue(<< >>)
  /\ UNCHANGED <<doc, look, eaten, open, panicked, owed>>

\* A call of a parser function.
CallRule ==
  /\ Doing("call")
  /\ Continue(rules[Head(todo).rule])
  /\ UNCHANGED <<doc, look, eaten, open, fresh, clean, panicked, owed>>

\* A match on the next token: no arm for it is an unreachable!(), and no next
\* token an unwrap() of None.
MatchToken ==
  /\ Doing("dispatch")
  /\ LET arm == arms[Head(todo).rule] IN
       IF look \in DOMAIN arm
         THEN /\ Continue(arm[look])
              /\ UNCHANGED <<doc, look, eaten, open, fresh, clean, panicked,
                              owed>>
         ELSE Panic

\* An if.
Choose ==
  /\ Doing("if")
  /\ LET s == Head(todo) IN
       Continue(IF look \in s.kinds THEN s.yes ELSE s.no)
  /\ UNCHANGED <<doc, look, eaten, open, fresh, clean, panicked, owed>>

\* The head of a loop.
Loop ==
  /\ \/ Doing("while")
     \/ Doing("until")
  /\ LET s == Head(todo)
         enter == IF s.op = "while" THEN look \in s.kinds
                                    ELSE look \notin s.kinds \union {EOF}
     IN  Continue(IF enter THEN s.body \o <<s>> ELSE << >>)
  /\ UNCHANGED <<doc, look, eaten, open, fresh, clean, panicked, owed>>

\* A break: nothing up to the head of the innermost loop is done.
BreakLoop ==
  /\ Doing("break")
  /\ LET heads == { i \in DOMAIN todo : todo[i].op \in {"while", "until"} }
         head  == CHOOSE i \in heads : \A j \in heads : i <= j
     IN  todo' = SubSeq(todo, head + 1, Len(todo))
  /\ UNCHANGED <<doc, look, eaten, open, fresh, clean, panicked, owed>>

Next ==
  \/ StartNode
  \/ FinishNode
  \/ EatToken
  \/ ReportMissing
  \/ CallRule
  \/ MatchToken
  \/ Choose
  \/ Loop
  \/ BreakLoop

\* The parser is a function that runs on a thread of its own: it is always
\* scheduled again.
Spec == Init /\ [][Next]_vars /\ WF_vars(Next)

-----------------------------------------------------------------------------
(* Properties                                                               *)

Starting(k) == Doing("open") /\ Head(todo).kind = k

\* Every document gets a tree. No function panics: each is called only where
\* the token it eats without looking is there, and every token has an arm; the
\* tree builder gets as many finish_node as start_node calls, on the early
\* returns of the BibTeX parser too; and the depth of the tree, hence of the
\* recursion, is bounded by the number of tokens: no function calls itself,
\* directly or through others, without eating something in between.
TreeIsBuilt ==
  /\ ~panicked
  /\ todo = << >> => open = << >>
  /\ Len(open) <= 2 * eaten + 4

\* A node that several functions start is started only at its own first token.
NodesStartRight ==
  Doing("open") /\ Head(todo).kind \in DOMAIN NodeBegins
    => look \in NodeBegins[Head(todo).kind]

\* What is left unclosed (a bracket, a formula, a division) does not swallow
\* what an enclosing node waits for. A } is an error, "Unexpected }"
\* to the user, only where no group is open since the last \begin; an \end is
\* an ordinary command only outside of all environments, as the value of a key,
\* as the only word of a group and in the halves of a \newenvironment. And
\* divisions nest by level: a \section right inside a \subsection or an item
\* would spoil the symbols and the numbers of labels.
StructureIsNotLost ==
  /\ Starting("ERROR") /\ look = "R_CURLY" =>
       Shielded(open, CurlyKinds, {"ENVIRONMENT"})
  /\ Starting("GENERIC_COMMAND") /\ look = "END_ENVIRONMENT_NAME" =>
       Shielded(open, {"ENVIRONMENT"}, EndsNothing)
  /\ \A i \in 1 .. Len(open) - 1 : Fits(open[i], open[i + 1])

\* A well-formed document has a tree without MISSING and without ERROR.
WellFormedIsClean == owed # NotWellFormed => clean

\* The type of a BibTeX entry (@article, @string, ...) always begins an entry:
\* no unfinished entry, group or quote before it swallows it.
EntriesSurvive ==
  Doing("eat") /\ look \in BibtexParser!Types =>
    fresh /\ Len(open) = 2

\* Every document is parsed in the end: no loop goes round without eating.
\* (CHANGELOG: "a parsing error that caused texlab to take 100% CPU usage".)
ParserReturns == <>(todo = << >>)
=============================================================================
