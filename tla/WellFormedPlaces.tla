-------------------------- MODULE WellFormedPlaces --------------------------
(* What a well-formed LaTeX document owes at every place in the functions   *)
(* of the parser that can be reached in one.  A function is called with the *)
(* first items of what is owed, `in`, and returns with `out` in their       *)
(* place; the items below are its callers' and it knows only which of them  *)
(* can be the first.  So the places are finitely many, however deep groups  *)
(* and environments nest.                                                   *)
EXTENDS WellFormed

LatexLooks == Looks("latex")

EndOwed   == Later("END_ENVIRONMENT_NAME")
BraceOwed == Later("R_CURLY")

\* Every item that a document can owe.
OwedItems ==
  {Later(EOF)} \union
    UNION { { Obligation(t)[i] : i \in DOMAIN Obligation(t) } : t \in LatexLooks }

\* A place in a function:
\*   steps   what the function still does,
\*   look    the tokens that can be next,
\*   owe     what was owed before the next token came, as far as the function
\*           is to deal with it,
\*   halved  below that are the \end's of environments that have been begun in
\*           a group, any number of them, and the end of the group,
\*   tops    the items that can be the first of what was there before the call,
\*   out     what is owed in front of them when the function returns.
Moved(x, s, look, owe, halved) ==
  [steps |-> s, look |-> look, owe |-> owe, halved |-> halved,
   tops |-> x.tops, out |-> x.out]

-----------------------------------------------------------------------------
(* What can come at a place.                                                *)

\* The items that can be the first of what the function does not deal with,
FirstBelow(x) == IF x.halved THEN {EndOwed, BraceOwed} ELSE x.tops

\* and of all that is owed.
Firsts(x) == IF x.owe = << >> THEN FirstBelow(x) ELSE {Head(x.owe)}

\* The tokens that can be next in a well-formed document.
Fitting(x) == { t \in x.look : \E i \in Firsts(x) : Allowed(i, t) }

\* Where environments come in halves the next token tells what is owed.
Exposed(x, t) ==
  CASE x.owe = << >> /\ x.halved /\ t = EndOwed.kind ->
         Moved(x, x.steps, {t}, <<EndOwed>>, TRUE)
    [] x.owe = << >> /\ x.halved /\ t = BraceOwed.kind ->
         Moved(x, x.steps, {t}, <<BraceOwed>>, FALSE)
    [] OTHER -> Moved(x, x.steps, {t}, x.owe, x.halved)

AtLoop(x) == x.steps # << >> /\ IsLoop(Head(x.steps))

\* The loop of a group that may have halves of environments in it: the two of
\* a \newenvironment, and what a \newcommand stands for.
HasHalves(x) ==
  AtLoop(x) /\ Head(x.steps).op = "until" /\ Head(x.steps).kinds = {"R_CURLY"}

\* At the head of a loop any token can be next.
Relaxed(x) ==
  CASE ~AtLoop(x) -> x
    [] HasHalves(x) /\ ~x.halved /\ x.owe = <<BraceOwed>> ->
         Moved(x, x.steps, LatexLooks, << >>, TRUE)
    [] HasHalves(x) /\ x.halved /\ x.owe = <<EndOwed>> ->
         Moved(x, x.steps, LatexLooks, << >>, TRUE)
    [] OTHER -> Moved(x, x.steps, LatexLooks, x.owe, x.halved)

-----------------------------------------------------------------------------
(* The contracts of the functions.                                          *)

KeyValueFunctions == {"key_value_body", "key_value_pair", "key", "value", "path"}

\* What the function r may deal with for its caller.
Payments(r) ==
  CASE r \in {"key_value_body", "key_value_pair"} ->
         {<<Now("WORD"), Now("EQUALITY_SIGN"), Now("WORD")>>}
    [] r \in {"key", "path", "value"} -> {<<Now("WORD")>>}
    [] r \in DOMAIN LatexParser!Arms -> {<<Now("WORD")>>, <<EndOwed>>}
    [] r \in {"end", "generic_command"} -> {<<EndOwed>>}
    [] r = "brack_group_word" -> {Counter}
    [] OTHER -> {Name, NewCommand, Group, KeyValues}

\* What it deals with if t is next and owe is owed.
Paid(r, t, owe) ==
  LET part == { p \in Payments(r) : Head(p).kind = t /\ Len(p) <= Len(owe)
                                     /\ p = SubSeq(owe, 1, Len(p)) }
  IN  IF part = {} THEN << >> ELSE CHOOSE p \in part : TRUE

\* What it leaves to its caller.
Out(r, t) ==
  IF /\ t = "BEGIN_ENVIRONMENT_NAME"
     /\ r \in {"begin", "generic_command", "content_without_environment"}
    THEN <<EndOwed>> ELSE << >>

\* What can be owed first besides.  A function that deals with nothing for its
\* caller is called where t begins something new.
Tops(r, t, in) ==
  CASE in = << >> /\ r \in {"parse", "preamble"} -> {Later(EOF)}
    [] in = << >> /\ r \in KeyValueFunctions -> {BraceOwed, Later("R_BRACK")}
    [] in = << >> /\ r \notin {"parse", "preamble"} \union KeyValueFunctions ->
         { i \in OwedItems : ~i.now /\ t # i.kind /\ Allowed(i, t) }
    [] in = <<EndOwed>> -> { i \in OwedItems : ~i.now }
    [] in \notin {<< >>, <<EndOwed>>} /\ r \in KeyValueFunctions \ {"key", "path"} ->
         {Now("R_CURLY")}
    [] OTHER -> { i \in OwedItems : i.kind # "WORD"
                                 /\ (i = Now("EQUALITY_SIGN") => r = "key") }

EnteredOwing(r, s, t, in) ==
  [steps |-> s, look |-> {t}, owe |-> in, halved |-> FALSE,
   tops |-> Tops(r, t, in), out |-> Out(r, t)]

-----------------------------------------------------------------------------
(* The places of a function and of those it calls.                          *)

\* The token t is eaten at x.
Ate(x, t) ==
  LET y == Exposed(x, t)
  IN  Moved(y, Tail(x.steps), LatexParser!CanFollow(t) \union {EOF},
            IF y.owe = << >> THEN Obligation(t) ELSE Owed(y.owe, t), y.halved)

\* The steps that are taken when step calls a function and t is next.
BodyOf(step, t) ==
  IF step.op = "call" THEN LatexParser!Rules[step.rule]
                      ELSE LatexParser!Arms[step.rule][t]

\* What the caller has to deal with itself.
Unpaid(owe, in) == SubSeq(owe, Len(in) + 1, Len(owe))

\* The function that is called with t next at x,
Called(x, t) ==
  LET step == Head(x.steps)
  IN  EnteredOwing(step.rule, BodyOf(step, t), t, Paid(step.rule, t, Exposed(x, t).owe))

\* and the caller when it has returned.
Resumed(x, t) ==
  LET r == Head(x.steps).rule
      y == Exposed(x, t)
  IN  Moved(y, Tail(x.steps), LatexLooks, Out(r, t) \o Unpaid(y.owe, Paid(r, t, y.owe)),
            y.halved)

\* Go on at s where one of ks is next.
Turned(x, s, ks) ==
  LET fit == Fitting(x) \intersect ks
  IN  IF fit = {} THEN {} ELSE {Moved(x, s, fit, x.owe, x.halved)}

\* The places that the first step leads to.
Reaches(x) ==
  LET step == Head(x.steps)
      rest == Tail(x.steps)
  IN  CASE step.op \in {"open", "close"} -> {Moved(x, rest, x.look, x.owe, x.halved)}
        [] step.op = "missing" -> {}
        [] step.op = "eat"     -> { Ate(x, t) : t \in Fitting(x) \ {EOF} }
        [] step.op = "call" \/ step.op = "dispatch" ->
             { Called(x, t) : t \in Fitting(x) } \union { Resumed(x, t) : t \in Fitting(x) }
        [] step.op = "if"    -> Turned(x, step.yes \o rest, step.kinds)
                                  \union Turned(x, step.no \o rest, LatexLooks \ step.kinds)
        [] step.op = "while" -> Turned(x, step.body \o x.steps, step.kinds)
                                  \union Turned(x, rest, LatexLooks \ step.kinds)
        [] step.op = "until" -> Turned(x, step.body \o x.steps,
                                       (LatexLooks \ step.kinds) \ {EOF})
                                  \union Turned(x, rest, step.kinds \union {EOF})
        [] step.op = "break" ->
             { Moved(x, SubSeq(x.steps, h + 1, Len(x.steps)), x.look, x.owe, x.halved) :
                 h \in { i \in LoopHeads(x.steps) :
                           \A j \in LoopHeads(x.steps) : i <= j } }

ReachedFrom(x) == IF x.steps = << >> THEN {} ELSE { Relaxed(y) : y \in Reaches(x) }

\* The call the parser's run begins with.
FirstPoint ==
  [steps |-> <<Call("parse")>>, look |-> LatexLooks, owe |-> << >>, halved |-> FALSE,
   tops |-> {Later(EOF)}, out |-> << >>]

\* The places reached by n steps from the first, and those the last one leads
\* to.
PointsAfter ==
  LET f[n \in Nat] ==
        IF n = 0 THEN [all |-> {FirstPoint}, new |-> {FirstPoint}]
        ELSE LET last == f[n - 1]
                 new  == UNION { ReachedFrom(x) : x \in last.new } \ last.all
             IN  [all |-> last.all \union new, new |-> new]
  IN  f

\* No place is further away from the first.
Furthest == 40

Points == PointsAfter[Furthest].all

PointSteps == UNION { { x.steps[i] : i \in DOMAIN x.steps } : x \in Points }

-----------------------------------------------------------------------------
(* The check.                                                               *)

\* With t next at x the contract of the function called there is met; S are the
\* steps that functions take.
Keeps(x, t, S) ==
  LET r  == Head(x.steps).rule
      y  == Exposed(x, t)
      in == Paid(r, t, y.owe)
      kept == Unpaid(y.owe, in)
  IN  /\ Head(x.steps).op = "dispatch" => t \in DOMAIN LatexParser!Arms[r]
      /\ BodyOf(Head(x.steps), t) \in Seq(S) \ {<< >>}
      /\ y.owe = in \o kept /\ in \in Seq(OwedItems) /\ kept \in Seq(OwedItems)
      /\ Out(r, t) \in Seq(OwedItems)
      /\ { i \in Firsts(Moved(y, y.steps, y.look, kept, y.halved)) :
             in = << >> => Allowed(i, t) } \subseteq Tops(r, t, in)

\* The first step is one the function may take in a well-formed document.
IsClean(x, S) ==
  LET step == Head(x.steps)
      IsBody(s) == s \in Seq(S)
      Some(ks)  == Fitting(x) \intersect ks # {}
  IN  CASE step.op = "open"    -> step.kind = "ERROR" => Fitting(x) = {}
        [] step.op = "close"   -> TRUE
        [] step.op = "missing" -> Fitting(x) = {}
        [] step.op = "eat" ->
             \A t \in Fitting(x) \ {EOF} :
               LET y == Exposed(x, t)
               IN  y.owe = << >> => \A i \in FirstBelow(y) : Allowed(i, t) => i.kind # t
        [] step.op = "call" \/ step.op = "dispatch" -> \A t \in Fitting(x) : Keeps(x, t, S)
        [] step.op = "if" ->
             /\ Some(step.kinds) => IsBody(step.yes)
             /\ Some(LatexLooks \ step.kinds) => IsBody(step.no)
        [] step.op = "while" -> Some(step.kinds) => IsBody(step.body)
        [] step.op = "until" ->
             Some((LatexLooks \ step.kinds) \ {EOF}) => IsBody(step.body)
        [] step.op = "break" ->
             \E h \in LoopHeads(x.steps) : \A j \in LoopHeads(x.steps) : h <= j
        [] OTHER -> FALSE

PointSet(S) ==
  [steps : Seq(S), look : SUBSET LatexLooks, owe : Seq(OwedItems), halved : BOOLEAN,
   tops : SUBSET OwedItems, out : Seq(OwedItems)]

ASSUME ItemsAreKnown ==
  /\ "none" \notin LatexLooks
  /\ {Later(EOF), EndOwed, BraceOwed} \subseteq OwedItems
  /\ Name \in Seq(OwedItems) /\ \A t \in LatexLooks : Obligation(t) \in Seq(OwedItems)

ASSUME ObligationsAreMet ==
  LET all == Points
      S   == PointSteps
  IN  /\ FirstPoint \in all
      /\ \A x \in all :
           /\ x \in PointSet(S)
           /\ IF x.steps = << >> THEN x.owe = x.out /\ ~x.halved ELSE IsClean(x, S)
           /\ ReachedFrom(x) \subseteq all
=============================================================================
