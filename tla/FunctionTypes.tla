---------------------------- MODULE FunctionTypes ----------------------------
(* What each function of the two parsers takes for granted when it is       *)
(* called, and what follows from it for every place in its body: which      *)
(* tokens can be next there, which nodes are open, what has been eaten.     *)
(* The places are finitely many, whatever the documents: a function is      *)
(* followed through its body, over the calls it makes and not into them.    *)
EXTENDS Grammars

Anywhere == -1

\* A place in a function:
\*   steps  what the function still does,
\*   look   the tokens that can be next,
\*   own    the nodes that the function has started and not finished,
\*   over   the open nodes are at most 2 * (tokens eaten) + over,
\*   due    the tokens (0 or 1) it still has to eat before it returns,
\*   base   the number of nodes open when it was called, or Anywhere,
\*   loose  tokens that no node open when it was called waits for,
\*   fresh  nothing has been put into the innermost node (where it is known).
Place(s, look, over, due, base, loose) ==
  [steps |-> s, look |-> look, own |-> << >>, over |-> over, due |-> due,
   base |-> base, loose |-> loose, fresh |-> FALSE]

-----------------------------------------------------------------------------
(* Tokens that an open node waits for.                                      *)

\* The division that a token begins.
DivisionOf ==
  [ PART_NAME |-> "PART", CHAPTER_NAME |-> "CHAPTER", SECTION_NAME |-> "SECTION",
    SUBSECTION_NAME |-> "SUBSECTION", SUBSUBSECTION_NAME |-> "SUBSUBSECTION",
    PARAGRAPH_NAME |-> "PARAGRAPH", SUBPARAGRAPH_NAME |-> "SUBPARAGRAPH",
    ENUM_ITEM_NAME |-> "ENUM_ITEM" ]

Guarded == {"R_CURLY", "END_ENVIRONMENT_NAME"} \union DOMAIN DivisionOf

\* No node of the stack waits for the token t.
IsLoose(t, nodes) ==
  CASE t = "R_CURLY" -> Shielded(nodes, CurlyKinds, {"ENVIRONMENT"})
    [] t = "END_ENVIRONMENT_NAME" -> Shielded(nodes, {"ENVIRONMENT"}, EndsNothing)
    [] OTHER -> nodes # << >> => Fits(nodes[Len(nodes)], DivisionOf[t])

\* With one of these nodes in it, nothing below in the stack waits for t.
Hides(t, nodes) ==
  LET kinds == { nodes[i] : i \in DOMAIN nodes }
  IN  CASE t = "R_CURLY" -> "ENVIRONMENT" \in kinds
        [] t = "END_ENVIRONMENT_NAME" -> EndsNothing \intersect kinds # {}
        [] OTHER -> nodes # << >>

\* The tokens known to be loose at the place x.
LooseAt(x) == { t \in Guarded : IsLoose(t, x.own) /\ (t \in x.loose \/ Hides(t, x.own)) }

-----------------------------------------------------------------------------
(* The contracts of the functions.                                          *)

\* Functions that may be called whatever comes next, and may eat nothing.
Unconditional(language) ==
  IF language = "latex" THEN {"parse", "preamble", "key_value_body", "value"}
                        ELSE {"parse", "junk"}

\* The first token of the function.
FirstOf(language, r) ==
  IF r \in Unconditional(language) THEN Looks(language)
  ELSE IF language = "bibtex"
  THEN CASE r = "preamble" -> {"PREAMBLE_TYPE"}
         [] r = "string"   -> {"STRING_TYPE"}
         [] r = "comment"  -> {"COMMENT_TYPE"}
         [] r = "entry"    -> {"ENTRY_TYPE"}
         [] r \in {"key", "field"} -> {"WORD"}
         [] r \in {"value", "token", "token_body"} -> {"L_CURLY", "QUOTE", "WORD"}
         [] r = "brace_group" -> {"L_CURLY"}
         [] r = "quote_group" -> {"QUOTE"}
         [] r = "item" -> TokensOf(language)
  ELSE CASE r \in {"begin", "environment"} -> {"BEGIN_ENVIRONMENT_NAME"}
         [] r = "end" -> {"END_ENVIRONMENT_NAME"}
         [] r \in {"key", "path", "key_value_pair"} -> {"WORD"}
         [] r = "formula" -> {"DOLLAR"}
         [] r = "generic_command" -> LatexParser!PlainCommands
         [] r \in {"brack_group", "brack_group_word", "brack_group_key_value"} ->
              {"L_BRACK"}
         [] r = "mixed_group" -> {"L_BRACK", "L_PAREN"}
         [] r \in DOMAIN LatexParser!Arms -> TokensOf(language)
         [] OTHER ->
              LET names == { k \in DOMAIN LatexParser!CommandRule :
                               LatexParser!CommandRule[k] = r }
              IN  IF names = {} THEN {"L_CURLY"} ELSE names

\* How many open nodes it may find, beyond two for each token.
OverOf(language, r) ==
  IF language = "latex"
  THEN CASE r = "parse" -> 0
         [] r \in {"preamble", "key_value_body", "value"} -> 1
         [] r \in {"begin", "key"} -> 3
         [] OTHER -> 2
  ELSE CASE r = "parse" -> 0
         [] r = "token" -> 2
         [] r \in {"token_body", "brace_group", "quote_group"} -> 3
         [] OTHER -> 1

\* How much it eats at least.  (The loop of BibTeX's key eats a word, but that
\* is not told from the head of the loop.)
DueOf(language, r) ==
  IF r \in Unconditional(language) \/ (language = "bibtex" /\ r \in {"item", "key"})
    THEN 0 ELSE 1

\* In BibTeX what comes in a file is parsed right under the root.
BaseOf(language, r) ==
  IF r = "parse" THEN 0
  ELSE IF language = "bibtex"
          /\ r \in {"item", "junk", "preamble", "string", "comment", "entry"}
       THEN 1 ELSE Anywhere

\* Functions that begin with a token no open node waits for.
Strict ==
  DOMAIN LatexParser!Arms \union {"generic_command"}
    \union { LatexParser!CommandRule[t] : t \in DOMAIN DivisionOf }

\* What has to be loose whatever comes next, for the loops of the function run
\* over it,
AlwaysLoose(language, r) ==
  CASE r = "parse" -> Guarded
    [] language = "latex" /\ r = "preamble" -> {"R_CURLY"}
    [] r \in {"curly_group_without_environments", "content_without_environment"} ->
         {"END_ENVIRONMENT_NAME"}
    [] OTHER -> {}

\* and what besides when r is called with one of ks next.
LooseOf(language, r, ks) ==
  AlwaysLoose(language, r)
    \union (IF r \in Strict THEN ks \intersect Guarded ELSE {})

EnteredWith(language, r, s, ks) ==
  Place(s, ks, OverOf(language, r), DueOf(language, r), BaseOf(language, r),
        LooseOf(language, r, ks))

\* The first tokens that a function is entered with, one by one where it makes
\* a difference.
Cases(language, r) ==
  IF r \in Strict THEN { {t} : t \in FirstOf(language, r) } ELSE {FirstOf(language, r)}

\* The call the parser's run begins with.
Outset(language) == Place(<<Call("parse")>>, Looks(language), 0, 0, 0, Guarded)

\* The places where a function begins.
RuleEntries(language) ==
  UNION { { EnteredWith(language, r, RulesOf(language)[r], ks) : ks \in Cases(language, r) } :
            r \in DOMAIN RulesOf(language) }

\* The arms of a match on the next token.
ArmEntries(language) ==
  UNION { { EnteredWith(language, r, ArmsOf(language)[r][t], {t}) :
              t \in DOMAIN ArmsOf(language)[r] } :
            r \in DOMAIN ArmsOf(language) }

Entries(language) ==
  {Outset(language)} \union RuleEntries(language) \union ArmEntries(language)

\* A function is called or dispatched to as its contract says.
Meets(language, x, r) ==
  /\ x.look \subseteq FirstOf(language, r)
  /\ \A ks \in Cases(language, r) :
       x.look \intersect ks # {} => LooseOf(language, r, ks) \subseteq LooseAt(x)
  /\ x.over <= OverOf(language, r)
  /\ BaseOf(language, r) # Anywhere =>
       x.base # Anywhere /\ BaseOf(language, r) = x.base + Len(x.own)

-----------------------------------------------------------------------------
(* The places of a function.                                                *)

\* Whatever was known of the next token at the head of a loop, it is not known
\* any more when the loop comes back to it.
Widened(language, x) ==
  IF x.steps # << >> /\ IsLoop(Head(x.steps))
    THEN [x EXCEPT !.look = Looks(language), !.fresh = FALSE] ELSE x

\* Go on at s when a token has been eaten that the function owed, if n is 1.
Onward(language, x, s, n) ==
  [x EXCEPT !.steps = s, !.look = Looks(language), !.over = @ - 2 * n,
            !.due = @ - n, !.fresh = FALSE]

\* Go on at s with the nodes own open; b tells whether the innermost is empty.
Stepped(x, s, own, b) ==
  [x EXCEPT !.steps = s, !.own = own, !.over = @ + (Len(own) - Len(x.own)),
            !.fresh = b]

\* The nodes left when the innermost is finished.
Without(nodes) == SubSeq(nodes, 1, Len(nodes) - 1)

\* Go on at s where one of ks is next.
Where(x, s, ks) ==
  IF x.look \intersect ks = {} THEN {}
  ELSE {[x EXCEPT !.steps = s, !.look = @ \intersect ks]}

\* The places the function can be at after the first step.
After(language, x) ==
  LET step == Head(x.steps)
      rest == Tail(x.steps)
      all  == Looks(language)
  IN  CASE step.op = "open"    -> {Stepped(x, rest, Append(x.own, step.kind), TRUE)}
        [] step.op = "close"   -> {Stepped(x, rest, Without(x.own), FALSE)}
        [] step.op = "missing" -> {Stepped(x, rest, x.own, FALSE)}
        [] step.op = "eat"     -> {Onward(language, x, rest, x.due)}
        [] step.op \in {"call", "dispatch"} ->
             {Onward(language, x, rest,
                    IF DueOf(language, step.rule) = 1 THEN x.due ELSE 0)}
        [] step.op = "if"    -> Where(x, step.yes \o rest, step.kinds)
                                  \union Where(x, step.no \o rest, all \ step.kinds)
        [] step.op = "while" -> Where(x, step.body \o x.steps, step.kinds)
                                  \union Where(x, rest, all \ step.kinds)
        [] step.op = "until" -> Where(x, step.body \o x.steps,
                                      (all \ step.kinds) \ {EOF})
                                  \union Where(x, rest, step.kinds \union {EOF})
        [] step.op = "break" ->
             { [x EXCEPT !.steps = SubSeq(x.steps, h + 1, Len(x.steps))] :
                 h \in { i \in LoopHeads(x.steps) :
                           \A j \in LoopHeads(x.steps) : i <= j } }

Following(language, x) ==
  IF x.steps = << >> THEN {}
  ELSE { Widened(language, y) : y \in After(language, x) }

\* The places reached by n steps from the entries, and those reached by the
\* last of them.
Reached(language) ==
  LET first == { Widened(language, x) : x \in Entries(language) }
      f[n \in Nat] ==
        IF n = 0 THEN [all |-> first, new |-> first]
        ELSE LET last == f[n - 1]
                 new  == UNION { Following(language, x) : x \in last.new } \ last.all
             IN  [all |-> last.all \union new, new |-> new]
  IN  f

\* No function has more steps than this from its start to its end.
Longest == 30

LatexPlaces  == Reached("latex")[Longest].all
BibtexPlaces == Reached("bibtex")[Longest].all

PlacesOf(language) == IF language = "latex" THEN LatexPlaces ELSE BibtexPlaces

LatexSteps  == UNION { { x.steps[i] : i \in DOMAIN x.steps } : x \in LatexPlaces }
BibtexSteps == UNION { { x.steps[i] : i \in DOMAIN x.steps } : x \in BibtexPlaces }

StepsOf(language) == IF language = "latex" THEN LatexSteps ELSE BibtexSteps

KindsIn(steps) == { step.kind : step \in { s \in steps : s.op = "open" } }

LatexKinds  == KindsIn(LatexSteps)
BibtexKinds == KindsIn(BibtexSteps)

Kinds(language) == IF language = "latex" THEN LatexKinds ELSE BibtexKinds

-----------------------------------------------------------------------------
(* The check.                                                               *)

\* A node of kind k may be started at this place.
MayStart(x, k) ==
  /\ k \in DOMAIN NodeBegins => x.look \subseteq NodeBegins[k]
  /\ k = "ERROR" => {"R_CURLY"} \intersect x.look \subseteq LooseAt(x)
  /\ k = "GENERIC_COMMAND" => {"END_ENVIRONMENT_NAME"} \intersect x.look \subseteq LooseAt(x)
  /\ k \in DOMAIN Level => \E t \in DOMAIN DivisionOf \intersect LooseAt(x) : DivisionOf[t] = k

\* The first step is one the function may take at this place.
MayGoOn(language, x) ==
  LET step == Head(x.steps)
      all  == Looks(language)
      Some(ks) == x.look \intersect ks # {}
      IsBody(s) == s \in Seq(StepsOf(language))
  IN  CASE step.op = "open"  -> MayStart(x, step.kind)
        [] step.op = "close" -> x.own # << >>
        [] step.op = "eat"   ->
             /\ EOF \notin x.look
             /\ Some(BibtexParser!Types) => x.fresh /\ x.base = 1 /\ Len(x.own) = 1
        [] step.op = "missing" -> TRUE
        [] step.op = "call"  ->
             /\ step.rule \in DOMAIN RulesOf(language)
             /\ RulesOf(language)[step.rule] \in Seq(StepsOf(language))
             /\ Meets(language, x, step.rule)
        [] step.op = "dispatch" ->
             /\ step.rule \in DOMAIN ArmsOf(language)
             /\ x.look \subseteq DOMAIN ArmsOf(language)[step.rule]
             /\ \A t \in x.look : IsBody(ArmsOf(language)[step.rule][t])
             /\ Meets(language, x, step.rule)
        [] step.op = "if" ->
             /\ Some(step.kinds) => IsBody(step.yes)
             /\ Some(all \ step.kinds) => IsBody(step.no)
        [] step.op = "while" -> Some(step.kinds) => IsBody(step.body)
        [] step.op = "until" -> Some((all \ step.kinds) \ {EOF}) => IsBody(step.body)
        [] step.op = "break" ->
             \E h \in LoopHeads(x.steps) : \A j \in LoopHeads(x.steps) : h <= j
        [] OTHER -> FALSE

PlaceSet(language) ==
  [steps : Seq(StepsOf(language)), look : SUBSET Looks(language),
   own : Seq(Kinds(language)), over : Int, due : {0, 1},
   base : Nat \union {Anywhere}, loose : SUBSET Guarded, fresh : BOOLEAN]

IsSafe(language, x) ==
  /\ x \in PlaceSet(language)
  /\ x.over <= 4
  /\ IF x.steps = << >> THEN x.own = << >> /\ x.due = 0 ELSE MayGoOn(language, x)

ASSUME FunctionsAreSafe ==
  \A language \in {"latex", "bibtex"} :
    /\ \A x \in Entries(language) :
         x.steps # << >> /\ Widened(language, x) \in PlacesOf(language)
    /\ \A x \in PlacesOf(language) :
         /\ IsSafe(language, x)
         /\ Following(language, x) \subseteq PlacesOf(language)
=============================================================================
