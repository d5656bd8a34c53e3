----------------------------- MODULE Navigation -----------------------------
(* Going to definitions, references, highlights, links and foldings, and    *)
(* renaming: src/features/{definition, reference, highlight, rename}, and   *)
(* link.rs and folding.rs.  Locations are records of a uri and a range.     *)
EXTENDS Cursor

Location(doc, range) == [uri |-> doc.uri, range |-> range]

\* The keys in a sequence that are a name.
Named(T, keys, name) ==
  SelectSeq(keys, LAMBDA k : k # None /\ WordsOf(T, k) = name)

\* What f returns for the nodes of a tree, in the order of descendants().
Throughout(T, f(_)) == FlattenSeq([n \in DOMAIN T |-> f(n)])

Locations(doc, keys) ==
  {Location(doc, LatexRange(doc.tree, keys[i])) : i \in DOMAIN keys}

-----------------------------------------------------------------------------
(* Labels                                                                   *)

\* analyze_label_name: the keys of the names a node has for labels.
LabelNames(T, n) ==
  CASE T[n].kind = "LABEL_DEFINITION" -> <<Via(T, n, <<"name", "key">>)>>
    [] T[n].kind = "LABEL_REFERENCE" -> Keys(T, Get(T, n, "name_list"))
    [] T[n].kind = "LABEL_REFERENCE_RANGE" ->
         <<Via(T, n, <<"from", "key">>), Via(T, n, <<"to", "key">>)>>
    [] OTHER -> << >>

IsDefinition(T, key) == T[Up(T, Up(T, key))].kind = "LABEL_DEFINITION"

\* rename_label looks at the nodes itself, and reads `from` of a range twice.
RenamedNames(T, n) ==
  IF T[n].kind = "LABEL_REFERENCE_RANGE"
    THEN <<Via(T, n, <<"from", "key">>), Via(T, n, <<"from", "key">>)>>
    ELSE LabelNames(T, n)

NamesAsked(P) == OrElse(FindLabelNameKey(P), FindLabelNameCommand(P))

LabelReferences(P) ==
  LET name == WordsOf(Main(P).tree, NamesAsked(P))
      In(doc) == SelectSeq(Throughout(doc.tree, LAMBDA n : LabelNames(doc.tree, n)),
                   LAMBDA k : /\ k # None /\ WordsOf(doc.tree, k) = name
                              /\ P.declaration \/ ~IsDefinition(doc.tree, k))
  IN  IF NamesAsked(P) = None THEN {}
      ELSE UNION {Locations(doc, In(doc)) : doc \in Range(LatexDocs(P))}

\* Mutant of LabelHighlights: the end of a range is overlooked.
HighlightsOfRenamed(P) ==
  LET T == Main(P).tree
      key == FindLabelNameKey(P)
  IN  IF key = None THEN {}
      ELSE Locations(Main(P),
             Named(T, Throughout(T, LAMBDA n : RenamedNames(T, n)), WordsOf(T, key)))

LabelHighlights(P) ==
  LET T == Main(P).tree
      key == FindLabelNameKey(P)
  IN  IF key = None THEN {}
      ELSE Locations(Main(P),
             Named(T, Throughout(T, LAMBDA n : LabelNames(T, n)), WordsOf(T, key)))

\* find_label_definition
LabelDefinition(T, name) ==
  Nth(SelectSeq([n \in DOMAIN T |-> n],
        LAMBDA n : /\ T[n].kind = "LABEL_DEFINITION"
                   /\ Via(T, n, <<"name", "key">>) # None
                   /\ WordsOf(T, Via(T, n, <<"name", "key">>)) = name), 1)

-----------------------------------------------------------------------------
(* Bibliography                                                             *)

CitedKeys(T, n) ==
  IF T[n].kind = "CITATION" THEN Keys(T, Get(T, n, "key_list")) ELSE << >>

EntryKey(T, n) == IF T[n].kind = "ENTRY" THEN <<Get(T, n, "key")>> ELSE << >>

EntryNames(doc) ==
  Throughout(doc.tree, LAMBDA n : IF IsLatex(doc) THEN CitedKeys(doc.tree, n)
                                                  ELSE EntryKey(doc.tree, n))

EntryRange(doc, k) ==
  IF IsLatex(doc) THEN LatexRange(doc.tree, k) ELSE BibtexRange(doc.tree, k)

EntryLocations(doc, name) ==
  {Location(doc, EntryRange(doc, k)) : k \in Range(Named(doc.tree, EntryNames(doc), name))}

EntryReferences(P) ==
  LET key == OrElse(FindCitationKeyWord(P),
                    OrElse(FindCitationKeyCommand(P), FindEntryKey(P)))
  IN  IF key = None THEN {}
      ELSE UNION {EntryLocations(doc, WordsOf(Main(P).tree, key)) :
                    doc \in {d \in Range(P.docs) : IsLatex(d) \/ P.declaration}}

\* find_string_references: the names of @string and the words of values.
StringReferences(P) ==
  LET T == Main(P).tree
      word == AsBibtexWord(P)
      names == {Get(T, n, "name") : n \in {m \in DOMAIN T : P.declaration
                                                  /\ T[m].kind = "STRING"}}
      tokens == {FirstToken(T, n) : n \in {m \in DOMAIN T : T[m].kind = "TOKEN"}}
  IN  IF Kind(T, Up(T, word)) \notin {"TOKEN", "STRING"} THEN {}
      ELSE {Location(Main(P), TextRange(T, w)) :
              w \in {v \in (names \union tokens) \ {None} : T[v].text = T[word].text}}

FindAllReferences(P) ==
  LabelReferences(P) \union EntryReferences(P) \union StringReferences(P)

-----------------------------------------------------------------------------
(* Definitions: a link, of at most one; those of labels are in module Labels *)

Link(origin, doc, target, selection) ==
  { [ origin |-> origin, uri |-> doc.uri, target |-> target,
      selection |-> selection ] }

\* The first node of the documents that passes a test, with its document.
FirstNode(docs, Test(_, _)) ==
  LET In(doc) == SelectSeq([n \in DOMAIN doc.tree |-> n],
                           LAMBDA n : Test(doc.tree, n))
      having == SelectSeq(docs, LAMBDA doc : In(doc) # << >>)
  IN  IF having = << >> THEN << >> ELSE <<Head(having), Head(In(Head(having)))>>

\* A definition whose name is missing has the name None, as no command has.
CommandDefinitionOf(P) ==
  LET T == Main(P).tree
      t == AsLatex(P)
      found == FirstNode(LatexDocs(P), LAMBDA U, n :
                 /\ U[n].kind \in CommandDefinitions
                 /\ Via(U, n, <<"name", "command">>) # None
                 /\ U[Via(U, n, <<"name", "command">>)].text = T[t].text)
  IN  IF ~IsCommand(T, t) \/ found = << >> THEN {}
      ELSE LET U == found[1].tree
           IN  Link(TextRange(T, t), found[1], LatexRange(U, found[2]),
                    TextRange(U, Via(U, found[2], <<"name", "command">>)))

\* The first target of an include at the cursor that is a document.
DocumentDefinition(P) ==
  LET open == {doc.uri : doc \in Range(P.docs)}
      links == SelectSeq(Main(P).links, LAMBDA l :
                 Touches(l.range, P.at) /\ Range(l.targets) \intersect open # {})
  IN  IF links = << >> THEN {}
      ELSE { [ origin |-> Head(links).range,
               uri |-> Head(SelectSeq(Head(links).targets, LAMBDA u : u \in open)),
               target |-> Span(0, 0), selection |-> Span(0, 0) ] }

EntryDefinition(P) ==
  LET T == Main(P).tree
      key == KeyOf(T, AsLatexWord(P))
      found == FirstNode(SelectSeq(P.docs, IsBibtex), LAMBDA U, n :
                 /\ U[n].kind = "ENTRY" /\ U[n].up = 1
                 /\ Get(U, n, "key") # None
                 /\ WordsOf(U, Get(U, n, "key")) = WordsOf(T, key))
  IN  IF Kind(T, Up(T, Up(T, key))) # "CITATION" \/ found = << >> THEN {}
      ELSE LET U == found[1].tree
           IN  Link(LatexRange(T, key), found[1], BibtexRange(U, found[2]),
                    BibtexRange(U, Get(U, found[2], "key")))

StringDefinition(P) ==
  LET T == Main(P).tree
      word == AsBibtexWord(P)
      string == Nth(SelectSeq(Children(T, 1, {"STRING"}), LAMBDA n :
                      /\ Get(T, n, "name") # None
                      /\ T[Get(T, n, "name")].text = T[word].text), 1)
  IN  IF Kind(T, Up(T, word)) # "TOKEN" \/ string = None THEN {}
      ELSE Link(TextRange(T, word), Main(P), BibtexRange(T, string),
                TextRange(T, Get(T, string, "name")))

-----------------------------------------------------------------------------
(* Renaming: the edits of a document, as the sequence of their ranges       *)

PrepareEntryRename(P) == OrElse(FindCitationKeyWord(P), FindEntryKey(P))

EntryEdits(P, doc) ==
  LET keys == Named(doc.tree, EntryNames(doc),
                    WordsOf(Main(P).tree, PrepareEntryRename(P)))
  IN  [i \in DOMAIN keys |-> EntryRange(doc, keys[i])]

LabelEdits(P, doc) ==
  LET T == doc.tree
      keys == Named(T, Throughout(T, LAMBDA n : RenamedNames(T, n)),
                    WordsOf(Main(P).tree, FindLabelNameKey(P)))
  IN  IF ~IsLatex(doc) THEN << >>
      ELSE [i \in DOMAIN keys |-> LatexRange(T, keys[i])]

CommandEdits(P, doc) ==
  LET T == doc.tree
      tokens == SelectSeq([n \in DOMAIN T |-> n], LAMBDA n :
                  IsCommand(T, n) /\ T[n].text = Main(P).tree[AsLatex(P)].text)
  IN  IF ~IsLatex(doc) THEN << >>
      ELSE [i \in DOMAIN tokens |-> Span(T[tokens[i]].from + 1, T[tokens[i]].to)]

\* prepare_rename_all: the range the client shows, if the name can be renamed.
PrepareRenameAll(P) ==
  LET T == Main(P).tree
  IN  IF PrepareEntryRename(P) # None
        THEN {EntryRange(Main(P), PrepareEntryRename(P))}
      ELSE IF FindLabelNameKey(P) # None THEN {LatexRange(T, FindLabelNameKey(P))}
      ELSE CommandRange(P)

\* Mutant of RenameAll: a label is renamed in the document of the request.
RenameInMain(P) ==
  [i \in DOMAIN P.docs |->
     IF i > 1 THEN << >>
     ELSE IF PrepareEntryRename(P) # None THEN EntryEdits(P, P.docs[i])
     ELSE IF FindLabelNameKey(P) # None THEN LabelEdits(P, P.docs[i])
     ELSE IF CommandRange(P) # {} /\ AsLatex(P) # None THEN CommandEdits(P, P.docs[i])
     ELSE << >>]

\* rename_all: in BibTeX a command can be prepared, but as_latex is None.
RenameAll(P) ==
  [i \in DOMAIN P.docs |->
     IF PrepareEntryRename(P) # None THEN EntryEdits(P, P.docs[i])
     ELSE IF FindLabelNameKey(P) # None THEN LabelEdits(P, P.docs[i])
     ELSE IF CommandRange(P) # {} /\ AsLatex(P) # None THEN CommandEdits(P, P.docs[i])
     ELSE << >>]

-----------------------------------------------------------------------------
(* Links and foldings                                                       *)

FindDocumentLinks(P) ==
  LET open == {doc.uri : doc \in Range(P.docs)}
      links == SelectSeq(Main(P).links, LAMBDA l : Range(l.targets) \intersect open # {})
  IN  [i \in DOMAIN links |->
         [range |-> links[i].range,
          target |-> Head(SelectSeq(links[i].targets, LAMBDA u : u \in open))]]

FindFoldings(P) ==
  LET T == Main(P).tree
      kinds == IF IsLatex(Main(P)) THEN {"ENVIRONMENT", "ENUM_ITEM"} \union Sections
                                   ELSE {"PREAMBLE", "STRING", "ENTRY"}
      nodes == SelectSeq([n \in DOMAIN T |-> n], LAMBDA n : T[n].kind \in kinds)
  IN  [i \in DOMAIN nodes |->
         IF IsLatex(Main(P)) THEN LatexRange(T, nodes[i]) ELSE BibtexRange(T, nodes[i])]
=============================================================================
