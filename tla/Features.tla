------------------------------ MODULE Features ------------------------------
(* The requests of a client about its documents.  The client writes LaTeX   *)
(* and BibTeX documents piece by piece and renames what it finds in them;   *)
(* the server parses every text, and what its features say about the texts  *)
(* has to fit together: src/features, src/label.rs, src/diagnostics.        *)
EXTENDS Symbols, Lints, Formatting, Completion

CONSTANTS
  Files,        \* the documents, a sequence of [uri, language, ext]
  Fragments,    \* language -> the pieces of text that are written
  Beginnings,   \* the texts the documents may have at first, by file
  TargetsOf(_, _), \* what the kind and the stem of a link are resolved to
  NewName,      \* the name things are renamed to
  MaxWrites     \* bound on the pieces that are written

ASSUME BoundAssumption == MaxWrites \in Nat

VARIABLES
  docs,         \* the documents of the workspace, in the order of Files
  writes,       \* the number of pieces written so far
  asked         \* the request whose edits the client has applied, if any

vars == <<docs, writes, asked>>

-----------------------------------------------------------------------------
(* Document::parse                                                          *)

LinkKind ==
  [ LATEX_INCLUDE |-> "latex", BIBLATEX_INCLUDE |-> "bibtex",
    BIBTEX_INCLUDE |-> "bibtex", PACKAGE_INCLUDE |-> "package",
    CLASS_INCLUDE |-> "class" ]

\* analyze_include and analyze_import: a link for every path with a stem.
ExplicitLinks(T, n) ==
  LET Of(kind, key) == [kind |-> kind, stem |-> WordsOf(T, key),
                        range |-> LatexRange(T, key),
                        targets |-> TargetsOf(kind, WordsOf(T, key))]
      paths == Keys(T, Get(T, n, "path_list"))
      file == Via(T, n, <<"file", "key">>)
  IN  CASE T[n].kind \in DOMAIN LinkKind ->
             [i \in DOMAIN paths |-> Of(LinkKind[T[n].kind], paths[i])]
        [] T[n].kind = "IMPORT" -> IF file = None THEN << >> ELSE <<Of("latex", file)>>
        [] OTHER -> << >>

Parsed(file, tokens, T) ==
  file @@ [ tokens |-> tokens, tree |-> T,
            links |-> IF file.language # "latex" THEN << >>
                      ELSE Throughout(T, LAMBDA n : ExplicitLinks(T, n)) ]

Parse(file, tokens) == Parsed(file, tokens, ParseTree(file.language, tokens))

Chars(tokens) == FlattenSeq([i \in DOMAIN tokens |-> tokens[i].chars])

-----------------------------------------------------------------------------
(* Edits                                                                    *)

\* The tokens from one offset to another are replaced.
Replace(tokens, e) ==
  LET at == [i \in DOMAIN tokens |-> Bytes(Chars(SubSeq(tokens, 1, i)))]
      Part(Test(_)) == LET is == SelectSeq([i \in DOMAIN tokens |-> i], LAMBDA i : Test(at[i]))
                       IN  [j \in DOMAIN is |-> tokens[is[j]]]
  IN  Part(LAMBDA o : o <= e.from) \o e.new \o Part(LAMBDA o : o > e.to)

\* The edit of a renaming: the new name is that of a command or a word.
RenameEdit(T, r) ==
  LET command == \E n \in Leaves(T) : IsCommand(T, n) /\ T[n].from < r.from /\ T[n].to = r.to
  IN  r @@ [new |-> <<IF command THEN Tok("GENERIC_COMMAND_NAME", NewName, <<1, 1, 1>>)
                                 ELSE Tok("WORD", NewName, <<1, 1>>)>>]

RenameEdits(doc, ranges) ==
  [i \in DOMAIN ranges |-> RenameEdit(doc.tree, ranges[i])]

\* A client applies the edits of a document from the last to the first.
Apply(tokens, edits) ==
  LET ordered == SortSeq(edits, LAMBDA a, b : a.from > b.from)
      text[i \in 0..Len(edits)] ==
        IF i = 0 THEN tokens ELSE Replace(text[i - 1], ordered[i])
  IN  text[Len(edits)]

\* Edits a client may reject: the protocol forbids ranges that overlap.
Disjoint(edits) ==
  \A i, j \in DOMAIN edits : i # j => ~Overlap(edits[i], edits[j])

-----------------------------------------------------------------------------

File(i) == Files[i]

Init ==
  /\ \E texts \in Beginnings : docs = [i \in DOMAIN Files |-> Parse(File(i), texts[i])]
  /\ writes = 0
  /\ asked = [request |-> "none"]

Idle == asked.request = "none"

\* A piece of text is written at the end of a document.
Write(i) ==
  /\ writes < MaxWrites
  /\ Idle
  /\ \E piece \in Fragments[File(i).language] :
       docs' = [docs EXCEPT ![i] = Parse(File(i), @.tokens \o piece)]
  /\ writes' = writes + 1
  /\ UNCHANGED asked

Request(i, at) ==
  [docs |-> Related(docs, File(i).uri), at |-> at, declaration |-> TRUE]

\* The places of a document that have something to ask about: the start of a
\* name and the end of a command.
Places(T) ==
  {T[n].from : n \in {m \in DOMAIN T :
     \/ T[m].kind = "KEY"
     \/ IsWord(T, m) /\ Kind(T, T[m].up) \in {"TOKEN", "STRING"}}}
    \union {T[n].to : n \in {m \in DOMAIN T : IsCommand(T, m)}}

ClassOf(P) ==
  IF PrepareEntryRename(P) # None THEN "entry"
  ELSE IF FindLabelNameKey(P) # None THEN "label" ELSE "command"

OldName(P) ==
  LET T == Main(P).tree
  IN  CASE ClassOf(P) = "entry" -> WordsOf(T, PrepareEntryRename(P))
        [] ClassOf(P) = "label" -> WordsOf(T, FindLabelNameKey(P))
        [] OTHER -> <<T[AsLatex(P)].text>>

\* Nobody renames the commands of LaTeX itself, which the server would do.
OwnName(P) ==
  ClassOf(P) = "command" => Kind(Main(P).tree, AsLatex(P)) = "GENERIC_COMMAND_NAME"

\* The client renames what is at a place, if the server offers it and the
\* edits can be applied.
Rename(i, at) ==
  LET P == Request(i, at)
      uris == {doc.uri : doc \in Range(P.docs)}
      Place(uri) == CHOOSE k \in DOMAIN P.docs : P.docs[k].uri = uri
  IN  /\ Idle
      /\ PrepareRenameAll(P) # {}
      /\ OwnName(P)
      /\ \E edits \in {RenameAll(P)} :
           /\ \E j \in DOMAIN edits : edits[j] # << >>
           /\ \A j \in DOMAIN edits : Disjoint(edits[j])
           /\ docs' = [j \in DOMAIN docs |->
                         IF File(j).uri \notin uris THEN docs[j]
                         ELSE Parse(File(j), Apply(docs[j].tokens,
                                      RenameEdits(docs[j], edits[Place(File(j).uri)])))]
      /\ asked' = [request |-> "rename", class |-> ClassOf(P), old |-> OldName(P), uris |-> uris]
      /\ UNCHANGED writes

Formatted(doc) == Lexed(Apply(doc.tokens, FormatBibtexInternal(doc)))

\* A bibliography is formatted, and the client applies the edits.
Format(i) ==
  /\ Idle
  /\ IsBibtex(docs[i])
  /\ docs' = [docs EXCEPT ![i] = Parse(File(i), Formatted(@))]
  /\ asked' = [request |-> "format"]
  /\ UNCHANGED writes

\* The places of a document where one completes what is there: the end of a
\* word or a command, and the start of a list.
Cursors(T) ==
  {T[n].to : n \in {m \in Leaves(T) :
     \/ IsWord(T, m) \/ IsCommand(T, m) \/ IsType(T, m)
     \/ T[m].kind = "L_CURLY" /\ Kind(T, T[m].up) \in {Word, Words}}}

\* A name as it is written: its words, with a space in between.
Spelled(name) ==
  LET words == {t \in UNION {Range(doc.tokens) : doc \in Range(docs)} : t.kind = "WORD"}
      Token(w) == CHOOSE t \in words : t.text = w
  IN  FlattenSeq([i \in DOMAIN name |-> (IF i = 1 THEN << >> ELSE <<Spaces(1)>>) \o <<Token(name[i])>>])

\* The client completes at a place and takes a label or an entry.
Accept(i, at) ==
  /\ Idle
  /\ \E item \in Range(Complete(Request(i, at), "client").items) :
       /\ item.kind \in {"Label", "Citation"}
       /\ docs' = [docs EXCEPT ![i] = Parse(File(i),
                      Replace(@.tokens, item.range @@ [new |-> Spelled(item.label)]))]
       /\ asked' = [request |-> "complete", file |-> i, at |-> at, item |-> item]
  /\ UNCHANGED writes

Next ==
  \E i \in DOMAIN Files :
    \/ Write(i)
    \/ Format(i)
    \/ \E at \in Places(docs[i].tree) : Rename(i, at)
    \/ \E at \in Cursors(docs[i].tree) : Accept(i, at)

Spec == Init /\ [][Next]_vars

-----------------------------------------------------------------------------
(* Properties                                                               *)

(* Every position a request or an answer may have means the same place for  *)
(* the client, which counts lines and UTF-16 units, and for the trees of    *)
(* the server, which count bytes (line_index.rs).                           *)
PositionsAreShared == \A i \in DOMAIN docs : PositionsAgree(Chars(docs[i].tokens))

Options == {"prenote", "postnote", "options", "label", "short"}
Commands ==
  DOMAIN (StructureAccessors @@ CitationAccessors @@ IncludeAccessors
            @@ LabelAccessors @@ DefinitionAccessors)
    \union {"ENTRY", "STRING", "FIELD"}

(* The accessors of cst.rs are written apart from the parsers.  Still, no   *)
(* two of them take the same part of a command for theirs, and a command in *)
(* which the parser had to fill in nothing has every part that is not       *)
(* optional.                                                                *)
AccessorsFitGrammar ==
  \A i \in DOMAIN docs :
    LET T == docs[i].tree
        Whole(n) == \A m \in Leaves(T) : T[m].up = n => T[m].kind # "MISSING"
    IN  \A n \in Nodes(T) : T[n].kind \in Commands =>
          \A a \in DOMAIN Accessors[T[n].kind] :
            /\ Whole(n) /\ a \notin Options => Get(T, n, a) # None
            /\ \A b \in DOMAIN Accessors[T[n].kind] \ {a} :
                 Get(T, n, a) = Get(T, n, b) => Get(T, n, a) = None

(* Whatever occurrence of a name one asks at, the answer is the same: the   *)
(* references from any of the references, in whatever document, are these   *)
(* references, the definition is one of them, and the highlights of a label *)
(* are those in its document.                                               *)
ReferencesAgree ==
  \A i \in DOMAIN docs : \A at \in Places(docs[i].tree) :
    LET P == Request(i, at)
        found == FindAllReferences(P)
        Index(uri) == CHOOSE j \in DOMAIN Files : File(j).uri = uri
        definition == GotoDefinition(P)
    IN  found # {} =>
          /\ \A r \in found :
               FindAllReferences(Request(Index(r.uri), r.range.from)) = found
          /\ \A d \in definition : Location([uri |-> d.uri], d.selection) \in found
          /\ FindLabelNameKey(P) # None =>
               LabelHighlights(P) = {r \in found : r.uri = File(i).uri}

\* The names of a class in a document, in their order: keys or commands.
NamesIn(doc, class) ==
  CASE class = "entry" -> EntryNames(doc)
    [] class = "label" ->
         IF IsLatex(doc) THEN Throughout(doc.tree, LAMBDA n : LabelNames(doc.tree, n))
                         ELSE << >>
    [] class = "command" ->
         SelectSeq([n \in DOMAIN doc.tree |-> n], LAMBDA n : IsCommand(doc.tree, n))

NameAt(T, k) == IF k # None /\ T[k].leaf THEN <<T[k].text>> ELSE WordsOf(T, k)

\* The second label of \crefrange, which rename_label does not look at.
EndOfRange(T, k) ==
  LET n == Up(T, Up(T, k))
  IN  Kind(T, n) = "LABEL_REFERENCE_RANGE" /\ Via(T, n, <<"to", "key">>) = k

(* A renaming changes the name everywhere and nothing else: of the names of *)
(* labels, entries and commands in the project, those that were the old     *)
(* name are the new one, and the others are as they were.  The end of a     *)
(* range of labels is the exception: rename/label.rs reads its start twice. *)
RenameIsComplete ==
  [][asked'.request = "rename" =>
       \A i \in DOMAIN docs, class \in {"entry", "label", "command"} :
         LET T == docs[i].tree
             old == NamesIn(docs[i], class)
             Renamed(k) == /\ class = asked'.class /\ NameAt(T, k) = asked'.old
                           /\ File(i).uri \in asked'.uris /\ ~EndOfRange(T, k)
             new == NamesIn(docs'[i], class)
         IN  /\ Len(new) = Len(old)
             /\ \A j \in DOMAIN old :
                  NameAt(docs'[i].tree, new[j]) =
                    IF Renamed(old[j]) THEN <<NewName>> ELSE NameAt(T, old[j])]_vars

RECURSIVE Everything(_)
Everything(symbols) ==
  Range(symbols) \union UNION {Everything(s.children) : s \in Range(symbols)}

DefinedOnce(related, l) ==
  LET defining == UNION { {<<doc.uri, n>> : n \in {m \in DOMAIN doc.tree :
                             /\ doc.tree[m].kind = "LABEL_DEFINITION"
                             /\ WordsOf(doc.tree, Via(doc.tree, m, <<"name", "key">>)) = l}}
                          : doc \in Range(related) }
  IN  Cardinality(defining) = 1

(* The outline and what is shown for a label agree, although label.rs goes  *)
(* from a label up and symbol/latex.rs from a construct down: the symbol of *)
(* a label that is defined once is what the label is rendered as, with its  *)
(* number.  label.rs knows neither enumerations nor \[ \]: a label in one   *)
(* of these is rendered as a construct around it, if there is any.  And an  *)
(* item with a text of its own is shown with it instead of the number.      *)
OutlineAgreesWithLabels ==
  \A i \in DOMAIN docs :
    LET related == Related(docs, File(i).uri)
        T == docs[i].tree
        Unknown(s) == \/ s.kind = "Enumeration"
                      \/ \E n \in Nodes(T) : T[n].kind = "EQUATION" /\ LatexRange(T, n) = s.full
    IN  \A s \in Everything(DocumentSymbols(related)) : \A l \in s.label :
          LET rendered == RenderLabel(related, l)
          IN  DefinedOnce(related, l) =>
                IF Unknown(s) THEN \A o \in rendered : Covers(o.range, s.full)
                ELSE /\ rendered # {}
                     /\ \A o \in rendered :
                          /\ o.range = s.full
                          /\ \/ s.kind = "EnumerationItem" /\ s.text # {}
                             \/ s.number = o.number

RECURSIVE Expansion(_, _)
\* The documents TeX reads, from a document on: it and what it includes.
Expansion(uri, above) ==
  LET doc == Document(docs, uri)
      below == {d.uri : d \in Range(docs)} \ (above \union {uri})
      read == SelectSeq(doc.links, LAMBDA l : TargetOf(l, below) # {})
      Read(l) == CHOOSE u \in TargetOf(l, below) : TRUE
  IN  <<uri>> \o FlattenSeq([i \in DOMAIN read |-> Expansion(Read(read[i]), above \union {uri})])

InReadingOrder(read, listed) ==
  LET First(u) == CHOOSE j \in DOMAIN read : read[j] = u /\ \A k \in 1..(j - 1) : read[k] # u
  IN  \A j, k \in DOMAIN listed : j < k =>
        \/ First(listed[j].uri) < First(listed[k].uri)
        \/ /\ listed[j].uri = listed[k].uri
           /\ listed[j].full.from <= listed[k].full.from
           /\ Covers(listed[k].full, listed[j].full) => listed[j].full = listed[k].full

(* The symbols of a project are listed as TeX comes to them: when it is     *)
(* read from one document and none includes itself, those of a document are *)
(* where it is read for the first time, in their order, and what is within  *)
(* another symbol follows it.                                               *)
SymbolsInReadingOrder ==
  \A i \in DOMAIN docs :
    LET comp == Related(docs, File(i).uri)
        read == Expansion(File(i).uri, {})
    IN  Roots(comp) = {File(i).uri} /\ Range(read) = {d.uri : d \in Range(comp)} =>
          InReadingOrder(read, SelectSeq(WorkspaceSymbols(docs, {}),
                                         LAMBDA s : s.uri \in Range(read)))

(* The formatter changes how a bibliography looks and not what it says, and *)
(* what has been formatted stays as it is: when nothing is missing in it    *)
(* but braces at the end, the document has the same entries, keys, fields   *)
(* and values as before, and is formatted already.  In the texts the words  *)
(* stay what they are, except that a line that is full ends wherever a      *)
(* token does: {at{b}} may become {at and {b}}, two words.                  *)
FormattingKeepsMeaning ==
  [][\A i \in DOMAIN docs : Format(i) /\ Finished(docs[i].tree) =>
       /\ Meaning(docs'[i].tree) = Meaning(docs[i].tree)
       /\ WordsStay(docs[i], docs'[i])
       /\ Formatted(docs'[i]) = docs'[i].tokens]_vars

\* The words that stay when a name is completed at a word of it: those after
\* the word, in a list that is not closed.
Kept(T, found, word) ==
  IF T[T[found.group].end].kind # "MISSING" THEN << >>
  ELSE Texts(T, SelectSeq(Children(T, found.key, {"WORD"}), LAMBDA w : w > word))

(* An item of the completion is what its place needs: when a label or an    *)
(* entry is taken at a word of a list, or in an empty one, what the list    *)
(* then has there is its name, and the definition of the name is found.  A  *)
(* list that is not closed keeps the words after the cursor, which belong   *)
(* to the text.  That is so for labels (GroupRange) and not for entries,    *)
(* nor for labels of \crefrange: those take the words after the cursor, too.*)
AcceptedIsDefined ==
  [][asked'.request = "complete" =>
       LET T == docs[asked'.file].tree
           before == Request(asked'.file, asked'.at)
           found == CHOOSE f \in Or(FindCurlyGroupWordList(before), FindCurlyGroupWord(before)) : TRUE
           closed == T[T[found.group].end].kind # "MISSING"
           after == [docs |-> Related(docs', File(asked'.file).uri),
                     at |-> asked'.item.range.from, declaration |-> TRUE]
           key == KeyOf(Main(after).tree, AsLatexWord(after))
           kept == IF found.key = None THEN << >> ELSE Kept(T, found, AsLatex(before))
       IN  /\ found.key = None => Keys(T, found.group) = << >>
           /\ closed \/ (asked'.item.kind = "Label" /\ T[found.group].kind = Words)
         => /\ WordsOf(Main(after).tree, key) = asked'.item.label \o kept
            /\ kept = << >> => GotoDefinition(after) # {}]_vars

(* An answer that is called complete has everything that matches, although  *)
(* the items are cut before those that do not match are taken out; and      *)
(* none is compared with a pattern that has no first character to leave out.*)
CompletionIsComplete ==
  \A i \in DOMAIN docs : \A at \in Cursors(docs[i].tree) :
    LET P == Request(i, at)
        Whole(candidates, pattern) ==
          LET answer == AnswerOf(P, candidates, "client")
          IN  /\ \A item \in Range(candidates) : item.kind \in Prefixed => pattern # << >>
              /\ ~answer.is_incomplete =>
                   {item \in Range(candidates) : Score(item, pattern) # {}} = Range(answer.items)
    IN  Whole(Candidates(P), Pattern(P))

(* Errors of syntax do not get lost in the recovery of the parsers: braces  *)
(* that do not match and gaps in an entry have their diagnostic.            *)
ErrorsAreReported ==
  \A i \in DOMAIN docs :
    IF IsLatex(docs[i]) THEN BracesAreReported(docs[i].tokens, docs[i].tree)
                        ELSE GapsAreReported(docs[i].tree)
=============================================================================
