----------------------------- MODULE SyntaxRules -----------------------------
(* The vocabulary of the two recursive descent parsers of texlab           *)
(* (src/syntax/latex/parser.rs and src/syntax/bibtex/parser.rs).  A parser  *)
(* function is a rule: the sequence of the steps its body takes.  A step    *)
(* builds the tree (Open, Close, Missing), moves a token from the lexer to  *)
(* the tree (Eat), calls another function (Call, Dispatch) or branches on   *)
(* the next token (If, While, Until, Break).  Parser.tla executes rules.    *)
EXTENDS Sequences

\* The next token when the lexer has none left (peek() is None).
EOF == "EOF"

\* builder.start_node(k), builder.finish_node(), builder.token(MISSING, "")
Open(k) == [op |-> "open", kind |-> k]
Close   == [op |-> "close"]
Missing == [op |-> "missing"]

\* builder.token(lexer.eat().unwrap())
Eat == [op |-> "eat"]

\* A function without a choice of its own, and one that is a match on peek().
Call(r)     == [op |-> "call", rule |-> r]
Dispatch(r) == [op |-> "dispatch", rule |-> r]

\* if peek() is one of ks { yes } else { no }
If(ks, yes, no) == [op |-> "if", kinds |-> ks, yes |-> yes, no |-> no]

\* while peek() is one of ks { body };  while peek() is a token but none of
\* ks { body };  break, which leaves the innermost loop.
While(ks, body) == [op |-> "while", kinds |-> ks, body |-> body]
Until(ks, body) == [op |-> "until", kinds |-> ks, body |-> body]
Break           == [op |-> "break"]

IsLoop(step) == step.op \in {"while", "until"}

\* Where the loops of a sequence of steps are.
LoopHeads(s) == { i \in DOMAIN s : IsLoop(s[i]) }

\* A body between the start and the end of a node of kind k.
Node(k, body) == <<Open(k)>> \o body \o <<Close>>
=============================================================================
