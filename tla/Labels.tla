------------------------------- MODULE Labels -------------------------------
(* What a label stands for: src/label.rs, with the label numbers and the    *)
(* theorem environments that src/syntax/latex/analysis collects.            *)
EXTENDS Navigation

\* LANGUAGE_DATA, the environments the documents of the models use.
MathEnvironments == {<<"equation">>, <<"align">>}
EnumEnvironments == {<<"enumerate">>, <<"itemize">>}

\* LabelledFloatKind::from_str
FloatKind ==
  <<"figure">> :> "Figure" @@ <<"subfigure">> :> "Figure"
  @@ <<"table">> :> "Table" @@ <<"subtable">> :> "Table"
  @@ <<"listing">> :> "Listing" @@ <<"lstlisting">> :> "Listing"
  @@ <<"algorithm">> :> "Algorithm"

EnvironmentName(T, n) ==
  IF T[n].kind # "ENVIRONMENT" THEN << >>
  ELSE WordsOf(T, Via(T, n, <<"begin", "name", "key">>))

\* The first document that has something, and what it has there.
InFirst(docs, Of(_)) ==
  LET having == SelectSeq(docs, LAMBDA doc : IsLatex(doc) /\ Of(doc) # {})
  IN  IF having = << >> THEN {} ELSE Of(Head(having))

LastOf(s)  == IF s = << >> THEN {} ELSE {s[Len(s)]}
FirstIn(s) == IF s = << >> THEN {} ELSE {s[1]}
Or(a, b)   == IF a # {} THEN a ELSE b

-----------------------------------------------------------------------------

\* analyze_label_number: \newlabel{name}{{number}...}; the last one counts.
LabelNumbers(T, name) ==
  LET texts(n) == Below(T, Get(T, n, "text"), {"TEXT", "MIXED_GROUP"})
      numbers == SelectSeq([n \in DOMAIN T |-> n], LAMBDA n :
        /\ T[n].kind = "LABEL_NUMBER"
        /\ Via(T, n, <<"name", "key">>) # None
        /\ WordsOf(T, Via(T, n, <<"name", "key">>)) = name
        /\ Get(T, n, "text") # None /\ texts(n) # << >>)
  IN  [i \in DOMAIN numbers |-> T[FirstToken(T, texts(numbers[i])[1])].text]

\* find_label_number
LabelNumber(docs, name) ==
  InFirst(docs, LAMBDA doc : LastOf(LabelNumbers(doc.tree, name)))

\* analyze_theorem_definition: \newtheorem{name}{description}
TheoremEnvironments(T, name) ==
  SelectSeq([n \in DOMAIN T |-> n], LAMBDA n :
    /\ T[n].kind = "THEOREM_DEFINITION"
    /\ Via(T, n, <<"name", "key">>) # None
    /\ WordsOf(T, Via(T, n, <<"name", "key">>)) = name
    /\ CurlyText(T, Get(T, n, "description")) # {})

Theorem(docs, name) ==
  InFirst(docs, LAMBDA doc :
    LET found == TheoremEnvironments(doc.tree, name)
    IN  IF found = << >> THEN {} ELSE CurlyText(doc.tree, Get(doc.tree, found[1], "description")))

\* find_caption_by_parent
CaptionOf(T, n) ==
  LET long == SelectSeq(Children(T, n, {"CAPTION"}), LAMBDA c : Get(T, c, "long") # None)
  IN  IF long = << >> THEN {} ELSE CurlyText(T, Get(T, long[1], "long"))

-----------------------------------------------------------------------------
(* render_label: the innermost construct around a label that has a number.  *)
(* A rendered label has a range, a number, a kind and a text.               *)

Object(T, n, kind, text) ==
  {[range |-> LatexRange(T, n), number |-> {}, kind |-> kind, text |-> text]}

\* The constructs that have none without their text.
WithText(T, n, kind, text) == IF text = {} THEN {} ELSE Object(T, n, kind, text)

RenderFloat(T, n, name) ==
  IF name \notin DOMAIN FloatKind THEN {}
  ELSE WithText(T, n, FloatKind[name], CaptionOf(T, n))

RenderSection(T, n) ==
  IF T[n].kind \notin Sections THEN {}
  ELSE WithText(T, n, "Section", CurlyText(T, Get(T, n, "name")))

\* An item's own label takes the place of its number.
RenderEnumItem(T, n) ==
  IF T[n].kind # "ENUM_ITEM" THEN {}
  ELSE {[o EXCEPT !.number = BrackText(T, Get(T, n, "label"))] : o \in Object(T, n, "EnumItem", {})}

RenderEquation(T, n, name) ==
  IF name \notin MathEnvironments THEN {} ELSE Object(T, n, "Equation", {})

RenderTheorem(docs, T, n, name) ==
  {[o EXCEPT !.text = @ \union BrackText(T, Via(T, n, <<"begin", "options">>))] :
     o \in WithText(T, n, "Theorem", IF name = << >> THEN {} ELSE Theorem(docs, name))}

RenderNamed(docs, T, n, name) ==
  Or(RenderFloat(T, n, name), Or(RenderSection(T, n), Or(RenderEnumItem(T, n),
  Or(RenderEquation(T, n, name), RenderTheorem(docs, T, n, name)))))

Rendered(docs, T, n) == RenderNamed(docs, T, n, EnvironmentName(T, n))

\* Numbered the way the label is, unless there is a number already.
Numbered(objects, number) == {[o EXCEPT !.number = Or(@, number)] : o \in objects}

\* Mutant of Innermost: the outermost construct.
Outermost(docs, T, above) ==
  UNION LastOf(SelectSeq([i \in DOMAIN above |-> Rendered(docs, T, above[i])],
                         LAMBDA o : o # {}))

Innermost(docs, T, above) ==
  UNION FirstIn(SelectSeq([i \in DOMAIN above |-> Rendered(docs, T, above[i])],
                          LAMBDA o : o # {}))

RenderAt(docs, doc, label) ==
  Numbered(Innermost(docs, doc.tree, Ancestors(doc.tree, label)),
    LabelNumber(docs, WordsOf(doc.tree, Via(doc.tree, label, <<"name", "key">>))))

\* The first document that defines a label, and where it does.
FirstDefinition(docs, name) ==
  FirstIn(FlattenSeq([i \in DOMAIN docs |->
    IF IsLatex(docs[i]) /\ LabelDefinition(docs[i].tree, name) # None
      THEN <<[doc |-> docs[i], label |-> LabelDefinition(docs[i].tree, name)]>>
      ELSE << >>]))

\* render_label for a name: its first definition in the documents.
RenderLabel(docs, name) ==
  UNION {RenderAt(docs, d.doc, d.label) : d \in FirstDefinition(docs, name)}

\* goto_label_definition: the target is what the label stands for.
LabelLink(origin, doc, name, objects) ==
  Link(origin, doc, IF objects = {} THEN name ELSE (CHOOSE o \in objects : TRUE).range, name)

LabelDefinitionFor(P, key) ==
  IF key = None THEN {}
  ELSE UNION {LabelLink(LatexRange(Main(P).tree, key), d.doc,
                        LatexRange(d.doc.tree, Via(d.doc.tree, d.label, <<"name", "key">>)),
                        RenderAt(P.docs, d.doc, d.label)) :
                d \in FirstDefinition(P.docs, WordsOf(Main(P).tree, key))}

LabelDefinitionOf(P) == LabelDefinitionFor(P, NamesAsked(P))

\* goto_definition: or_else over the five of them.
GotoDefinition(P) ==
  Or(CommandDefinitionOf(P), Or(DocumentDefinition(P), Or(EntryDefinition(P),
     Or(LabelDefinitionOf(P), StringDefinition(P)))))

-----------------------------------------------------------------------------
(* find_hover: the ranges of the name and of what it is shown for           *)

LabelHover(P) ==
  LET T == Main(P).tree
      key == NamesAsked(P)
  IN  IF key = None THEN {}
      ELSE {[range |-> LatexRange(T, key), contents |-> o] :
              o \in RenderLabel(P.docs, WordsOf(T, key))}

\* The citation is rendered from the first entry with the key.
CitationHover(P) ==
  LET T == Main(P).tree
      key == OrElse(FindCitationKeyWord(P),
                    OrElse(FindCitationKeyCommand(P), FindEntryKey(P)))
      entry == FirstNode(SelectSeq(P.docs, IsBibtex), LAMBDA U, n :
                 /\ U[n].kind = "ENTRY" /\ Get(U, n, "key") # None
                 /\ WordsOf(U, Get(U, n, "key")) = WordsOf(T, key))
  IN  IF key = None \/ entry = << >> THEN {}
      ELSE {[range |-> EntryRange(Main(P), key), contents |-> entry[2]]}

\* The database describes the packages and classes with a link of its own.
ComponentHover(P, documented) ==
  LET links == SelectSeq(Main(P).links, LAMBDA l :
                 l.kind \in {"package", "class"} /\ Touches(l.range, P.at))
  IN  IF links = << >> \/ Head(links).stem \notin documented THEN {}
      ELSE {[range |-> Head(links).range, contents |-> Head(links).stem]}

\* find_string_reference_hover, whose `?` gives up at a string without value.
StringHover(P) ==
  LET T == Main(P).tree
      word == AsBibtexWord(P)
      string == Nth(SelectSeq(Children(T, 1, {"STRING"}), LAMBDA n :
                      /\ Get(T, n, "name") # None
                      /\ T[Get(T, n, "name")].text = T[word].text), 1)
  IN  IF Kind(T, Up(T, word)) \notin {"TOKEN", "STRING"} \/ string = None THEN {}
      ELSE IF Get(T, string, "value") = None THEN {}
      ELSE {[range |-> TextRange(T, word), contents |-> Get(T, string, "value")]}

\* find_field_hover and find_entry_type_hover
WordHover(P, documented) ==
  LET T == Main(P).tree
      t == AsBibtex(P)
  IN  IF /\ \/ IsWord(T, t) /\ Kind(T, Up(T, t)) = "FIELD"
            \/ IsType(T, t)
         /\ T[t].text \in documented
        THEN {[range |-> TextRange(T, t), contents |-> T[t].text]} ELSE {}

FindHover(P, documented) ==
  Or(LabelHover(P), Or(CitationHover(P), Or(ComponentHover(P, documented),
     Or(StringHover(P), WordHover(P, documented)))))
=============================================================================
