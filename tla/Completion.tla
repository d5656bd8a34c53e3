----------------------------- MODULE Completion -----------------------------
(* What is offered at the cursor: src/features/completion and the database  *)
(* of components, src/component_db.rs.  An item has a kind, a label, and    *)
(* the range that the label takes the place of.                             *)
(*                                                                          *)
(* complete_includes, which lists the directories on disk, is left out: the *)
(* documents are not files, and for such it returns at once.                *)
EXTENDS Labels

CONSTANTS
  CompletionLimit,   \* COMPLETION_LIMIT, the length of an answer
  Languages,         \* LANGUAGE_DATA: the names it has, by kind of item
  ComponentDatabase, \* COMPONENT_DATABASE, the kernel first
  Installed          \* the packages and classes the resolver has found

ASSUME LimitAssumption == CompletionLimit \in Nat

Map(s, f(_)) == [i \in DOMAIN s |-> f(s[i])]

Collect(s, f(_)) == FlattenSeq(Map(s, f))

Offer(kind, labels, range) ==
  Map(labels, LAMBDA l : [kind |-> kind, label |-> l, range |-> range])

\* The items of a list of names at the group that was found, if any.
AtGroup(found, P, kind, labels) ==
  Collect(SetToSeq(found), LAMBDA f : Offer(kind, labels, GroupRange(P, f)))

\* The groups found whose node is of one of the kinds.
Within(P, found, kinds) ==
  {f \in found : Kind(Main(P).tree, Up(Main(P).tree, f.group)) \in kinds}

\* What is kept of a sequence: the first of those for which f is the same.
UniqueBy(s, f(_)) ==
  Map(SelectSeq([i \in DOMAIN s |-> i],
                LAMBDA i : \A j \in 1..(i - 1) : f(s[j]) # f(s[i])),
      LAMBDA i : s[i])

\* The names that some nodes have in a tree, and nodes of some kinds in the
\* LaTeX documents.
NamesAt(T, Test(_)) ==
  Map(SelectSeq([n \in DOMAIN T |-> n],
                LAMBDA n : Test(n) /\ Via(T, n, <<"name", "key">>) # None),
      LAMBDA n : WordsOf(T, Via(T, n, <<"name", "key">>)))

NamesOf(docs, kinds) ==
  Collect(SelectSeq(docs, IsLatex),
          LAMBDA doc : NamesAt(doc.tree, LAMBDA n : doc.tree[n].kind \in kinds))

-----------------------------------------------------------------------------
(* BibTeX                                                                   *)

EntryTypes(P) ==
  LET T == Main(P).tree
      t == AsBibtex(P)
  IN  IF IsType(T, t) /\ T[t].from # P.at
        THEN Offer("EntryType", Languages.entry_types, Span(T[t].from + 1, T[t].to))
        ELSE << >>

WordRange(P, t) ==
  LET T == Main(P).tree
  IN  IF IsWord(T, t) THEN TextRange(T, t) ELSE Span(P.at, P.at)

\* Anywhere in an entry but at its key.
FieldNames(P) ==
  LET T == Main(P).tree
      t == AsBibtex(P)
      node == Up(T, t)
      InEntry == /\ Kind(T, node) = "ENTRY" /\ Get(T, node, "key") # None
                 /\ BibtexRange(T, Get(T, node, "key")) # TextRange(T, t)
  IN  IF InEntry \/ Kind(T, node) = "FIELD"
        THEN Offer("Field", Languages.fields, WordRange(P, t)) ELSE << >>

-----------------------------------------------------------------------------
(* Components: [files, references, commands, environments], where a file is *)
(* <<kind, stem>> and a command has a name and the names each argument may  *)
(* be.                                                                      *)

FindComponent(file) ==
  LET found == SelectSeq(ComponentDatabase, LAMBDA c : file \in Range(c.files))
  IN  IF found = << >> THEN << >> ELSE <<Head(found)>>

FindComponents(files) == Collect(files, FindComponent)

\* as_component_name
ComponentsIncluded(doc) ==
  Map(SelectSeq(doc.links, LAMBDA l : l.kind \in {"package", "class"}),
      LAMBDA l : <<l.kind, l.stem>>)

LinkedComponents(docs) ==
  LET start == <<Head(ComponentDatabase)>> \o FindComponents(Collect(docs, ComponentsIncluded))
      With(c) == <<c>> \o FindComponents(c.references)
  IN  UniqueBy(Collect(start, With), LAMBDA c : c.files)

\* What f has of the linked components.
InComponents(P, f(_)) ==
  Collect(LinkedComponents(LatexDocs(P)), f)

\* The n-th argument of the command that a group is the n-th argument of.
Arguments(P) ==
  LET T == Main(P).tree
      t == AsLatex(P)
      group == IF Kind(T, Up(T, t)) = "CURLY_GROUP" THEN Up(T, t) ELSE Up(T, Up(T, t))
      command == Up(T, group)
      groups == Children(T, command, {"CURLY_GROUP"})
      index == CHOOSE i \in DOMAIN groups : groups[i] = group
      Takes(k) == k.name = T[Get(T, command, "name")].text /\ index \in DOMAIN k.parameters
      Names(c) == Collect(SelectSeq(c.commands, Takes), LAMBDA k : k.parameters[index])
  IN  IF /\ Kind(T, group) = "CURLY_GROUP" /\ InsideCurly(P, group)
         /\ Kind(T, command) = "GENERIC_COMMAND" /\ Get(T, command, "name") # None
        THEN Offer("Argument", InComponents(P, Names), WordRange(P, t)) ELSE << >>

IncludedKind == [PACKAGE_INCLUDE |-> "package", CLASS_INCLUDE |-> "class"]

\* The components the database knows, and then the others that are installed.
Imports(P) ==
  LET found == Within(P, FindCurlyGroupWordList(P), DOMAIN IncludedKind)
      kind == IncludedKind[Kind(Main(P).tree, Up(Main(P).tree, (CHOOSE f \in found : TRUE).group))]
      known == Collect(ComponentDatabase, LAMBDA c : c.files)
      files == SelectSeq(known \o SelectSeq(Installed, LAMBDA f : f \notin Range(known)),
                         LAMBDA f : f[1] = kind)
  IN  IF found = {} THEN << >>
      ELSE AtGroup(found, P, "Import", Map(files, LAMBDA f : f[2]))

-----------------------------------------------------------------------------
(* Names that are defined in the project                                    *)

\* check_citation and check_acronym
InCitation(P) ==
  LET T == Main(P).tree
      pair == Enclosing(T, AsLatex(P), {"KEY_VALUE_PAIR"})
  IN  \/ Within(P, FindCurlyGroupWordList(P), {"CITATION"}) # {}
      \/ /\ pair # None /\ WordsOf(T, Via(T, pair, <<"key">>)) = <<"cite">>
         /\ Kind(T, Up(T, Up(T, Up(T, pair)))) = "ACRONYM_DECLARATION"

\* Away from a word the key is added to what is there.
Citations(P) ==
  LET T == Main(P).tree
      t == AsLatex(P)
      range == IF IsWord(T, t) THEN LatexRange(T, Up(T, t)) ELSE Span(P.at, P.at)
      EntriesIn(doc) ==
        LET U == doc.tree
        IN  Map(SelectSeq(Children(U, 1, {"ENTRY"}), LAMBDA n : Get(U, n, "key") # None),
                LAMBDA n : WordsOf(U, Get(U, n, "key")))
  IN  IF /\ t # None /\ (IsWord(T, t) => Kind(T, Up(T, t)) \in {"KEY", "TEXT"})
         /\ InCitation(P)
        THEN Offer("Citation", Collect(SelectSeq(P.docs, IsBibtex), EntriesIn), range)
        ELSE << >>

Acronyms(P) ==
  AtGroup(Within(P, FindCurlyGroupWord(P), {"ACRONYM_REFERENCE"}), P, "Acronym",
          NamesOf(P.docs, {"ACRONYM_DEFINITION"}))

GlossaryEntries(P) ==
  AtGroup(Within(P, FindCurlyGroupWord(P), {"GLOSSARY_ENTRY_REFERENCE"}), P, "GlossaryEntry",
          NamesOf(P.docs, {"GLOSSARY_ENTRY_DEFINITION", "ACRONYM_DEFINITION"}))

\* find_reference, then find_reference_range.  An \eqref is for equations, and
\* for labels of which nothing is known.
LabelItems(P) ==
  LET T == Main(P).tree
      list == Within(P, FindCurlyGroupWordList(P), {"LABEL_REFERENCE"})
      found == Or(list, Within(P, FindCurlyGroupWord(P), {"LABEL_REFERENCE_RANGE"}))
      math == \E f \in list : T[FirstToken(T, Up(T, f.group))].text = "eqref"
      Offered(doc, n) == /\ doc.tree[n].kind = "LABEL_DEFINITION"
                         /\ math => \A o \in RenderAt(P.docs, doc, n) : o.kind = "Equation"
      LabelsIn(doc) == NamesAt(doc.tree, LAMBDA n : Offered(doc, n))
  IN  AtGroup(found, P, "Label", Collect(LatexDocs(P), LabelsIn))

-----------------------------------------------------------------------------
(* Lists of LANGUAGE_DATA                                                   *)

Colors(P) ==
  AtGroup(Within(P, FindCurlyGroupWord(P), {"COLOR_REFERENCE"}), P, "Color", Languages.colors)

\* check_color_definition and check_color_definition_set
ColorModels(P) ==
  LET T == Main(P).tree
      one == {f \in Within(P, FindCurlyGroupWord(P), {"COLOR_DEFINITION"}) :
                Get(T, Up(T, f.group), "model") = f.group}
      set == Within(P, FindCurlyGroupWordList(P), {"COLOR_SET_DEFINITION"})
  IN  AtGroup(Or(one, set), P, "ColorModel", Languages.models)

TikzLibraries(P) ==
  LET T == Main(P).tree
      found == Within(P, FindCurlyGroupWordList(P), {"TIKZ_LIBRARY_IMPORT"})
      pgf == \E f \in found : T[FirstToken(T, Up(T, f.group))].text = "usepgflibrary"
  IN  AtGroup(found, P, "Library",
              IF pgf THEN Languages.pgf_libraries ELSE Languages.tikz_libraries)

-----------------------------------------------------------------------------
(* Environments and commands                                                *)

ComponentEnvironments(P) ==
  AtGroup(FindEnvironmentName(P), P, "Environment",
          InComponents(P, LAMBDA c : c.environments))

TheoremNames(P) ==
  LET In(doc) ==
        LET T == doc.tree
        IN  NamesAt(T, LAMBDA n : /\ T[n].kind = "THEOREM_DEFINITION"
                                  /\ CurlyText(T, Get(T, n, "description")) # {})
  IN  AtGroup(FindEnvironmentName(P), P, "Environment", Collect(LatexDocs(P), In))

\* The names of a document are a set, which has no order of its own.
UserEnvironments(P) ==
  LET typed == {WordsOf(Main(P).tree, f.key) : f \in FindEnvironmentName(P)}
      In(doc) == SetToSeq(Range(NamesOf(<<doc>>, {"BEGIN"})) \ typed)
  IN  AtGroup(FindEnvironmentName(P), P, "Environment", Collect(LatexDocs(P), In))

AtCommand(P, kind, labels) ==
  Collect(SetToSeq(CommandRange(P)), LAMBDA r : Offer(kind, labels, r))

BeginCommand(P) == AtCommand(P, "BeginCommand", <<<<"begin">>>>)

ComponentCommands(P) ==
  AtCommand(P, "ComponentCommand",
    InComponents(P, LAMBDA c : Map(c.commands, LAMBDA k : <<k.name>>)))

\* analyze_command and analyze_command_definition: the commands that are used
\* or defined, but not the one at the cursor.
UserCommands(P) ==
  LET NameOf(U, n) ==
        CASE U[n].kind = "GENERIC_COMMAND" -> Get(U, n, "name")
          [] U[n].kind = "COMMAND_DEFINITION" -> Via(U, n, <<"name", "command">>)
          [] OTHER -> None
      Names(U) == {<<U[m].text>> : m \in {NameOf(U, n) : n \in DOMAIN U} \ {None}}
      typed == <<Main(P).tree[AsLatex(P)].text>>
      In(doc) == SetToSeq(Names(doc.tree) \ {typed})
  IN  IF AsLatex(P) = None THEN << >>
      ELSE AtCommand(P, "UserCommand", Collect(LatexDocs(P), In))

-----------------------------------------------------------------------------
(* complete                                                                 *)

Candidates(P) ==
  UniqueBy(
    EntryTypes(P) \o FieldNames(P) \o Arguments(P) \o Citations(P) \o Imports(P)
      \o Colors(P) \o ColorModels(P) \o Acronyms(P) \o GlossaryEntries(P)
      \o LabelItems(P) \o TikzLibraries(P) \o ComponentEnvironments(P)
      \o TheoremNames(P) \o UserEnvironments(P) \o BeginCommand(P)
      \o ComponentCommands(P) \o UserCommands(P),
    LAMBDA item : item.label)

\* preselect: the name of the \begin, at an \end without one.
Preselected(P) ==
  LET T == Main(P).tree
      group == Up(T, AsLatex(P))
      environment == Up(T, Up(T, group))
  IN  IF /\ Kind(T, group) = Word /\ Kind(T, Up(T, group)) = "END"
         /\ Kind(T, environment) = "ENVIRONMENT"
        THEN {WordsOf(T, Via(T, environment, <<"begin", "name", "key">>))} ELSE {}

\* The pattern of score, as a sequence of words; the backslash and the @ are
\* one of their own.  In a LaTeX name it ends with the word at the cursor.
Pattern(P) ==
  LET T == Main(P).tree
      l == AsLatex(P)
      b == AsBibtex(P)
      typed == SelectSeq(Children(T, Up(T, l), {"WORD"}), LAMBDA w : w <= l /\ T[w].from < P.at)
  IN  CASE IsCommand(T, l) /\ T[l].from + 1 = P.at -> <<"\\">>
        [] IsCommand(T, l) -> <<"\\", T[l].text>>
        [] IsWord(T, l) /\ KeyOf(T, l) # None -> Texts(T, typed)
        [] IsWord(T, l) /\ KeyOf(T, l) = None -> <<T[l].text>>
        [] IsType(T, b) -> <<"@", T[b].text>>
        [] IsWord(T, b) /\ KeyOf(T, b) # None -> WordsOf(T, KeyOf(T, b))
        [] IsWord(T, b) /\ KeyOf(T, b) = None -> <<T[b].text>>
        [] Kind(T, b) = "COMMAND_NAME" -> <<"\\", T[b].text>>
        [] OTHER -> << >>

\* The kinds of items that are compared with pattern[1..].
Prefixed == {"EntryType", "BeginCommand", "ComponentCommand", "UserCommand"}

\* SkimMatcherV2: a match has the words of the pattern in their order.
FuzzyMatch(label, pattern) ==
  CASE pattern = << >> -> {0}
    [] pattern = label -> {2}
    [] pattern # label /\ pattern \in AllSubSeqs(label) -> {1}
    [] OTHER -> {}

Score(item, pattern) ==
  FuzzyMatch(item.label, IF item.kind \in Prefixed THEN Tail(pattern) ELSE pattern)

\* sort_by_key is stable: preselected items first, then by score, and those
\* that do not match last.
Sorted(items, pattern, preselected) ==
  LET Rank(item) == IF item.label \in preselected THEN 0 ELSE 1
      Key(item) == <<Rank(item), CASE Score(item, pattern) = {} -> 3
                                   [] Score(item, pattern) = {0} -> 2
                                   [] Score(item, pattern) = {1} -> 1
                                   [] Score(item, pattern) = {2} -> 0>>
  IN  Collect(<< <<0, 0>>, <<0, 1>>, <<0, 2>>, <<0, 3>>, <<1, 0>>, <<1, 1>>, <<1, 2>>, <<1, 3>> >>,
              LAMBDA k : SelectSeq(items, LAMBDA item : Key(item) = k))

\* What is sorted is cut first; what does not match is taken out then.
Taken(sorted, pattern) ==
  LET cut == IF Len(sorted) < CompletionLimit THEN Len(sorted) ELSE CompletionLimit
  IN  SelectSeq(SubSeq(sorted, 1, cut), LAMBDA item : Score(item, pattern) # {})

\* Mutant of IsIncomplete: an answer as long as the limit is complete.
IncompleteBeyondLimit(client, items) ==
  client = "Visual Studio Code" \/ Len(items) > CompletionLimit

IsIncomplete(client, items) ==
  client = "Visual Studio Code" \/ Len(items) >= CompletionLimit

Answer(client, items) == [items |-> items, is_incomplete |-> IsIncomplete(client, items)]

AnswerOf(P, candidates, client) ==
  Answer(client, Taken(Sorted(candidates, Pattern(P), Preselected(P)), Pattern(P)))

Complete(P, client) == AnswerOf(P, Candidates(P), client)
=============================================================================
