------------------------------- MODULE Symbols -------------------------------
(* The outline of a document and the symbols of the workspace,              *)
(* src/features/symbol.  A symbol has its kind, its label, the number and   *)
(* the text its name is made of, two ranges, and its children.              *)
EXTENDS Labels

Main1(docs) == docs[1]

\* find_label_by_parent: the first label definition right below a node.
LabelBelow(T, n) ==
  LET label == Nth(Children(T, n, {"LABEL_DEFINITION"}), 1)
      key == IF label = None THEN None ELSE Via(T, label, <<"name", "key">>)
  IN  IF key = None THEN {} ELSE {[name |-> WordsOf(T, key), node |-> label]}

\* What the visit_ functions have in common: the selection is the label, and
\* without one it is the whole construct.
Symbol(docs, n, kind, text) ==
  LET T == Main1(docs).tree
      label == LabelBelow(T, n)
      Selection == {LatexRange(T, l.node) : l \in label}
  IN  { [ kind |-> kind, text |-> text, label |-> {l.name : l \in label},
          number |-> UNION {LabelNumber(docs, l.name) : l \in label},
          full |-> LatexRange(T, n),
          selection |-> IF label = {} THEN LatexRange(T, n)
                        ELSE CHOOSE r \in Selection : TRUE,
          children |-> << >> ] }

VisitSection(docs, n) ==
  LET T == Main1(docs).tree
      title == CurlyText(T, Get(T, n, "name"))
  IN  IF title = {} THEN {} ELSE Symbol(docs, n, "Section", title)

\* An item outside of the known environments is none.
VisitEnumItem(docs, n) ==
  LET T == Main1(docs).tree
      Known == \E a \in Range(Ancestors(T, n)) : EnvironmentName(T, a) \in EnumEnvironments
  IN  IF ~Known THEN {}
      ELSE Symbol(docs, n, "EnumerationItem", BrackText(T, Get(T, n, "label")))

VisitFloat(docs, n) ==
  LET T == Main1(docs).tree
  IN  IF CaptionOf(T, n) = {} THEN {}
      ELSE Symbol(docs, n, FloatKind[EnvironmentName(T, n)], CaptionOf(T, n))

VisitTheorem(docs, n) ==
  LET T == Main1(docs).tree
      theorem == Theorem(docs, EnvironmentName(T, n))
  IN  IF theorem = {} THEN {}
      ELSE Symbol(docs, n, "Theorem",
                  theorem \union BrackText(T, Via(T, n, <<"begin", "options">>)))

VisitEnvironment(docs, n) ==
  LET name == EnvironmentName(Main1(docs).tree, n)
  IN  CASE name = << >> -> {}
        [] name \in MathEnvironments -> Symbol(docs, n, "Equation", {})
        [] name \in EnumEnvironments -> Symbol(docs, n, "Enumeration", {name})
        [] name \in DOMAIN FloatKind -> VisitFloat(docs, n)
        [] OTHER -> VisitTheorem(docs, n)

\* The match of visit on the kind of a node.
Visited(docs, n) ==
  LET kind == Main1(docs).tree[n].kind
  IN  CASE kind \in Sections     -> VisitSection(docs, n)
        [] kind = "ENUM_ITEM"    -> VisitEnumItem(docs, n)
        [] kind = "EQUATION"     -> Symbol(docs, n, "Equation", {})
        [] kind = "ENVIRONMENT"  -> VisitEnvironment(docs, n)
        [] OTHER                 -> {}

Above(symbol, inner) ==
  IF symbol = {} THEN inner
  ELSE <<[(CHOOSE s \in symbol : TRUE) EXCEPT !.children = inner]>>

RECURSIVE Visit(_, _)
\* The children of a node that is no symbol take its place.
Visit(docs, n) ==
  LET T == Main1(docs).tree
      below == SelectSeq(Descendants(T, n), LAMBDA i : T[i].up = n /\ ~T[i].leaf)
  IN  Above(Visited(docs, n), FlattenSeq([i \in DOMAIN below |-> Visit(docs, below[i])]))

\* find_latex_symbols
LatexSymbols(docs) ==
  IF IsLatex(Main1(docs)) /\ Main1(docs).ext = "tex" THEN Visit(docs, 1) ELSE << >>

-----------------------------------------------------------------------------

Plain(T, n, kind, text, selection, children) ==
  [ kind |-> kind, text |-> {text}, label |-> {}, number |-> {},
    full |-> BibtexRange(T, n), selection |-> selection, children |-> children ]

FieldSymbols(T, entry) ==
  LET named == SelectSeq(Fields(T, entry), LAMBDA f : Get(T, f, "name") # None)
      Of(f) == Plain(T, f, "Field", <<T[Get(T, f, "name")].text>>,
                     TextRange(T, Get(T, f, "name")), << >>)
  IN  [i \in DOMAIN named |-> Of(named[i])]

\* find_bibtex_symbols: strings with a name and entries with a key.
BibtexSymbols(docs) ==
  LET T == Main1(docs).tree
      Name(n) == Get(T, n, IF T[n].kind = "STRING" THEN "name" ELSE "key")
      named == SelectSeq(Children(T, 1, {"STRING", "ENTRY"}), LAMBDA n : Name(n) # None)
      Of(n) == IF T[n].kind = "STRING"
               THEN Plain(T, n, "String", <<T[Name(n)].text>>, TextRange(T, Name(n)), << >>)
               ELSE Plain(T, n, "Entry", WordsOf(T, Name(n)),
                          BibtexRange(T, Name(n)), FieldSymbols(T, n))
  IN  IF ~IsBibtex(Main1(docs)) THEN << >> ELSE [i \in DOMAIN named |-> Of(named[i])]

\* The nested answer of find_document_symbols.
DocumentSymbols(docs) == LatexSymbols(docs) \o BibtexSymbols(docs)

RECURSIVE Flatten(_)
\* InternalSymbol::flatten: the children first, and no fields.
Flatten(symbols) ==
  FlattenSeq([i \in DOMAIN symbols |->
    IF symbols[i].kind = "Field" THEN << >>
    ELSE Append(Flatten(symbols[i].children), symbols[i])])

KindText(s) ==
  CASE s.kind = "Section" -> {"latex", "section"}
    [] s.kind \in {"Figure", "Algorithm", "Table", "Listing"} -> {"latex", "float", s.kind}
    [] s.kind = "Enumeration" -> {"latex", "enumeration"}
    [] s.kind = "EnumerationItem" -> {"latex", "enumeration", "item"}
    [] s.kind = "Theorem" -> {"latex", "math"}
    [] s.kind = "Equation" -> {"latex", "math", "equation"}
    [] OTHER -> {"bibtex", s.kind}

SearchText(s) == KindText(s) \union s.number \union UNION {Range(t) : t \in s.text}

-----------------------------------------------------------------------------
(* ProjectOrdering: the documents in the order TeX reads them               *)

\* The first target of a link that is one of the documents.
TargetOf(link, uris) == FirstIn(SelectSeq(link.targets, LAMBDA u : u \in uris))

Targets(doc, uris) == UNION {TargetOf(l, uris) : l \in Range(doc.links)}

Document(docs, uri) == CHOOSE doc \in Range(docs) : doc.uri = uri

\* Storage::subset: what is connected with a document, itself first.
Related(docs, uri) ==
  LET uris == {doc.uri : doc \in Range(docs)}
      reached[n \in 0..Len(docs)] ==
        IF n = 0 THEN {uri}
        ELSE reached[n - 1] \union
             {doc.uri : doc \in {d \in Range(docs) :
                \E u \in reached[n - 1] :
                  \/ u \in Targets(d, uris)
                  \/ d.uri \in Targets(Document(docs, u), uris)}}
  IN  <<Document(docs, uri)>>
        \o SelectSeq(docs, LAMBDA d : d.uri # uri /\ d.uri \in reached[Len(docs)])

RECURSIVE Components(_, _, _)
\* connected_components, in the order of the documents of the workspace.
Components(docs, rest, visited) ==
  IF rest = << >> THEN << >>
  ELSE IF Head(rest).uri \in visited THEN Components(docs, Tail(rest), visited)
  ELSE LET comp == Related(docs, Head(rest).uri)
       IN  <<comp>> \o Components(docs, Tail(rest),
                                  visited \union {d.uri : d \in Range(comp)})

\* tarjan_scc puts a component that no other one includes first, and of its
\* documents any may be the first.
Roots(comp) ==
  LET uris == {d.uri : d \in Range(comp)}
      reach[n \in 0..Len(comp), d \in Range(comp)] ==
        IF n = 0 THEN {d.uri}
        ELSE reach[n - 1, d] \union
             UNION {Targets(Document(comp, u), uris) : u \in reach[n - 1, d]}
      To(d) == reach[Len(comp), d]
  IN  {d.uri : d \in {c \in Range(comp) :
         \A e \in Range(comp) : c.uri \in To(e) => e.uri \in To(c)}}

\* Mutant of Pushed: the links in their order, so that the last is on top.
PushedInOrder(doc, uris) ==
  FlattenSeq([i \in DOMAIN doc.links |->
                SelectSeq(doc.links[i].targets, LAMBDA u : u \in uris)])

\* What a document pushes: its links from the last to the first, and every
\* target of a link that is a document.
Pushed(doc, uris) ==
  FlattenSeq([i \in DOMAIN doc.links |->
                SelectSeq(Reverse(doc.links)[i].targets, LAMBDA u : u \in uris)])

RECURSIVE Traversal(_, _, _)
\* The loop over the stack, whose top is the end of the sequence.
Traversal(docs, stack, visited) ==
  IF stack = << >> THEN << >>
  ELSE LET uri == stack[Len(stack)]
           rest == SubSeq(stack, 1, Len(stack) - 1)
       IN  IF uri \in visited THEN Traversal(docs, rest, visited)
           ELSE <<uri>> \o Traversal(docs,
                  rest \o Pushed(Document(docs, uri), {d.uri : d \in Range(docs)}),
                  visited \union {uri})

Ordering(docs) ==
  LET comps == Components(docs, docs, {})
  IN  FlattenSeq([i \in DOMAIN comps |->
        Traversal(docs, <<CHOOSE u \in Roots(comps[i]) : TRUE>>, {})])

\* ProjectOrdering::get; a document that is not ordered is behind all others.
OrderOf(ordering, uri) ==
  LET at == {i \in DOMAIN ordering : ordering[i] = uri}
  IN  IF at = {} THEN Len(ordering) + 1 ELSE CHOOSE i \in at : \A j \in at : i <= j

-----------------------------------------------------------------------------
(* find_workspace_symbols and the flat answer of find_document_symbols      *)

Info(doc, s) == [uri |-> doc.uri, kind |-> s.kind, text |-> s.text, full |-> s.full]

Before(ordering, a, b) ==
  LET Key(i) == <<OrderOf(ordering, i.uri), i.full.from, 0 - i.full.to>>
      j == CHOOSE k \in 1..3 : /\ \A m \in 1..(k - 1) : Key(a)[m] = Key(b)[m]
                               /\ Key(a)[k] # Key(b)[k] \/ k = 3
  IN  Key(a)[j] < Key(b)[j]

SortSymbols(docs, infos) ==
  LET ordering == Ordering(docs)
  IN  SortSeq(infos, LAMBDA a, b : Before(ordering, a, b))

FlatSymbols(docs, doc) == Flatten(DocumentSymbols(Related(docs, doc.uri)))

Infos(doc, symbols) == [i \in DOMAIN symbols |-> Info(doc, symbols[i])]

WorkspaceSymbols(docs, query) ==
  LET Found(doc) == SelectSeq(FlatSymbols(docs, doc),
                              LAMBDA s : query \subseteq SearchText(s))
  IN  SortSymbols(docs, FlattenSeq([i \in DOMAIN docs |-> Infos(docs[i], Found(docs[i]))]))
=============================================================================
