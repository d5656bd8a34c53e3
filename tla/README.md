# Verification of the TexLab language server

TexLab is a language server for LaTeX: an editor talks to it over stdin and
stdout, it keeps the documents of a project in memory, follows the files on
disk, builds documents with a TeX engine and reports diagnostics. This
directory holds TLA+ models of its concurrent parts, of its parsers and of the
features that read their trees, TLC configurations that check them on small
instances, and proofs, checked by TLAPS, of what matters most about the
message loop, the workspace, discovery, diagnostics, the build engine and the
parsers for every instance.

Source lines below are relative to the crate's `src/` (`server.rs:853` is
`src/src/server.rs`, line 853).

## 1. Inventory

| Component | Source | State | Operations | Model |
|---|---|---|---|---|
| Message loop and request queue | `server.rs`, `dispatch.rs`, `req_queue.rs`, `client.rs`, `capabilities.rs` | incoming requests with cancellation tokens, outgoing requests with reply channels, thread pool, connection | handlers of requests, notifications and responses; `send_request`; `run` | `ServerLoop`, `RequestContract` |
| Document workspace | `workspace/{api,storage,watch,document}.rs` | documents by URI, the set of opened URIs, open handlers, watched folders | `open`, `close`, `reload`, `load`, `subset`, `watch` | `DocumentSync`, `Links`, `Discovery` |
| Discovery of related files | `workspace/{children,parent}_expand.rs` | none of its own | load the targets of links, search parents in the folders above | `Links`, `Discovery` |
| Configuration | `config.rs`, `options.rs` | options behind an RwLock | register, pull, push | the requests: `ServerLoop`; overlapping pulls and the directories: `Discovery` |
| Diagnostics | `diagnostics/*.rs`, `server.rs:884-932` | two debouncers, a pool for each, results in a manager behind a mutex | analyse, lint with ChkTeX, publish | `Diagnostics`; what is found in a tree: `Lints` |
| Build engine | `features/build.rs` | a lock, a TeX process, its pipes, a progress token | `build` | `BuildEngine`, `BuildContract` |
| Forward search | `features/forward_search.rs` | none | run a viewer | no |
| Positions and edits | `line_index.rs`, `server.rs:329-353` | newline table, UTF-16 table | offset to position and back, splice | `LineIndex`; the splice without positions: `DocumentSync` |
| LaTeX syntax | `syntax/latex/{lexer,parser,kind,cst}.rs` | token queue, tree builder | one function for each construct; one accessor for each part of one | `LatexGrammar`, `Parser`, `WellFormed`; accessors: `Tree` |
| LaTeX analysis | `syntax/latex/analysis`, `label.rs` | extras of a document | links, labels, theorems, environments | `Links`, `Labels`, `Features` |
| BibTeX syntax | `syntax/bibtex/*.rs` | token queue, tree builder | one function for each construct | `BibtexGrammar`, `Parser`; accessors: `Tree` |
| Build log parser | `syntax/build_log.rs` | stack of files | parse errors | no |
| Symbols | `features/symbol/*.rs` | none | outline of a document, symbols of the workspace, project order | `Symbols` |
| Navigation | `features/{cursor,link,folding}.rs`, `features/{definition,reference,rename,highlight,hover}` | none | lookups in a subset of documents | `Cursor`, `Navigation`, `Labels` |
| Completion | `features/completion`, `component_db.rs` | none | collect, score, sort and cut items | `Completion` |
| Formatting | `features/formatting` | none | lay out a bibliography; run latexindent | `Formatting` |
| Citations | `citation` | none | render an entry | no |
| TeX distributions, entry | `distro`, `main.rs` | resolver | read file name databases, command line | no |

How they interact. The **main thread** takes messages off the connection; it
opens and changes documents itself and hands everything that takes long to a
**thread pool**: feature requests, builds, configuration pulls. Opening a
document runs the open handlers, on the thread that opens: they load linked
files and send a message to the **debouncers**. A **watcher thread** reloads
files that change on disk. Pool jobs may ask the client something and block
until the main thread delivers the reply. Diagnostics are published by tasks
of the debouncers, build output by the log thread of a build. What is shared:
the request queue (mutex), the two maps of the workspace (a mutex each, held
for one access), the options (RwLock), the diagnostics manager (mutex), the
build lock.

What is hard here, and what makes each component correct:

* *Message loop.* Registration and sending of a request are two steps while
  the client may answer at once; jobs block on replies only the main thread
  delivers; cancellation races the answer; shutdown may come at any time.
  Correct: one answer for each request, replies find their job, the loop
  never waits for a job, stopping drains what was accepted.
* *Workspace.* Four threads check, read, parse and insert without a lock
  around the whole. Correct: the text of an open document is the editor's, as
  incremental synchronisation needs; a file nobody has open is as on disk.
* *Diagnostics.* Delays, several workers, drops, one mutex that a panic
  poisons. Correct: results never go back to an older text, and what was
  accepted is shown.
* *Build engine.* A process with two pipes, three helper threads, early exits.
  Correct: builds exclude each other, their output arrives in order and within
  their progress, every call returns.
* *Parsers.* Some ninety mutually recursive functions, each with its own set
  of tokens to stop at. Correct: no panic and no endless loop on any text,
  what is left unclosed does not eat what encloses it, a well-formed document
  has no errors.
* *Discovery and configuration.* Options arrive while documents are parsed
  with the old ones; loading threads overlap, a search goes up the folders
  until somebody has loaded a root. Correct: when all is quiet the options are
  the client's, every link is one under these options, the project is loaded
  and its folders are watched.
* *Features.* Two dozen functions that go through the same trees in their own
  ways: up from a name, down from a construct, by accessor, by kind. They hold
  no state; what can go wrong is that they disagree. Correct: references,
  definition, highlights and renaming know the same occurrences; the outline
  and the label's rendering name the same number; the symbols are in the order
  in which TeX reads them; an edit (of a renaming, a formatting, a completion)
  leaves a text that is parsed to what was meant.
* *Positions.* Correct: a position means the same place to client and server.

`PROJECT.json` lists the hazards with their lines and the properties that
watch them.

## 2. Modules

### RequestContract, ServerLoop

`RequestContract` says what the client may rely on: a request is answered at
most once, after it was issued, and "cancelled" only if the client asked.

`ServerLoop` is the loop. `inbox` is the connection's channel, `main` the
program counter of the main thread (`loop`, `exiting` inside
`handle_shutdown`, `joining` in `pool.join`, and the three ways to end),
`incoming`/`signalled` the incoming half of the queue and the tokens,
`outgoing`/`delivered` the outgoing half and the reply channels,
`queue`/`step`/`todo` the pool, `lock` is `BuildEngine.lock`, `answers` the
responses sent. One action for each arm of `process_messages` (765-846), for
`run` (848-855), and for each step of a job between two points where others
can interfere: register (client.rs:45-50), send (51), receive (29-33), lock,
work, panic, answer (server.rs:441-450). A handler's result is not modelled;
whether its document exists is a choice (`HandleRequest`, `HandleSave`).
`lsp-server` (`handle_shutdown`, `ReqQueue`), `threadpool` and the client are
outside the repository and modelled from their use.

When the client is `gone` (`Hangup`), what the server sends may still be
taken by the transport's channel and be lost, or the send fails
(`Unreachable`), and then every sender has an arm of its own: the refusal of a
request ends the loop (`HandleRequest`, server.rs:453, 819), a request of the
server is given up and its registration stays (`SendAskFails`, client.rs:51),
the answer of a job is unwrapped and the job panics (`FinishFails`,
server.rs:444-448), and so does the log thread of a build, which poisons the
build lock (`PanicInBuild`, build.rs:246) for the builds after it
(`MeetPoison`). `Unbuilt` are the requests the default build registers and
then drops without an answer (`semantic_tokens_range`, server.rs:715-723).

### DocumentSync

A text is a number. `disk`, `buffer` (the editor's text) and `wire` are the
world; `docs` and `opened` are the two maps of `Storage`; `job` says for the
main thread, the watcher, a loader and `reparse_all` what they are about to
write. Each of them is split where the code releases the lock: check
(`WatchCheck`, `LoadCheck`, `ReparseStart`), read (`ReadDisk`,
`ReparseNext`, `Take...`), insert (`Store`), mark as opened (`Mark`). An edit
as a range applies to the base it was made on; on any other text it gives
`Garbled`. `tainted` is a history variable: the files to which a write has
gone that another write had overtaken. It is what `EditorInSync` excepts, and
the run `DocumentSyncEditor` shows that it cannot do without. A notification
carries one change (`content_changes` of one element).

`watched` are the folders under watch: only there a write has an event
(`Modify`). A thread that has inserted a document watches its folder in a step
of its own (`watching`, `WatchFolder`), which may fail, and documents loaded
as children are inserted without it. `missed` is a history variable: the files
written in a folder that is not watched while their text is read or in the
store. `LogsFollowDisk` excepts them (section 3).

### Diagnostics

A text is its version. A message becomes a task or is dropped (`Receive`); a
task is started by a worker, sleeps, notes the time (`Wake`), analyses under
the mutex what the workspace has *now* (`Analyse`) and publishes (`Publish`).
`age` is the time since the last task of a file woke, capped at the delay.
`LintPanic` is the `unwrap` of chktex.rs:77 and poisons the mutex.

### BuildContract, BuildEngine

`BuildContract` says what a client may rely on: builds take turns; each begins
its progress, shows lines and ends its progress, in this order and nothing
after it; the line of a stream that is shown is the one after those shown
before. `BuildEngine` implements it, the stages of a build being those of its
worker (`stages`).

The worker's path through `build` with its early exits (`Check`, `Create`,
`SpawnFails`), the TeX process as a program that writes lines to two pipes of
limited size, the trackers, and the log thread with the two branches of its
`select!`. `seen` is what the client has been sent. Errors of `wait` on a
child that exists, and of sends on a connection that is gone, are left out.

### Links, Discovery

`Links` computes what a document refers to under a version of the options:
the folder that relative paths start from, the targets of explicit and
implicit links, the followed ones (those that are no known component), the
subset of related documents and the test for a root. `Discovery` interleaves
the threads that use it. A document is the version of the options it was
parsed with; `call` says where the opener (main thread or job) is in
`Workspace::open`: insert, go up the folders; `loads` are the files that
loading threads work on, each checked and parsed (`LoadParse`) before it is
inserted (`LoadInsert`), which starts the loads of what it links to. A job
pulls the configuration (`Ask`, `Reply`, `Configure`), watches the aux folder
(`WatchAux`), collects the documents and opens them again (`Collect`,
`Reopen`). A version of the client's configuration that is not `Valid` gives
the default options when it is pulled (`Adopted`, config.rs:64-67) and changes
nothing when it is pushed (config.rs:84-86); a reply can be an error
(`Failed`) or have nothing in it (`Empty`), on which the job panics. A folder
that is `Fragile` may or may not be watched when that is tried (`Watch`);
`refused` are those for which it failed last. The other history variables hold
what the properties except: `failed`, a pull since the last change that did
not bring the configuration; `overtaken`, that the last reply written was
older than one before it; `late`, documents inserted with options that had
just changed; `astray`, files whose search for a root came upon one too early.
The documents are opened again in any
order. A document is connected with another if every set of documents that
links neither leave nor enter has both or none of them (`Connected`): what the
depth-first search of `subset` reaches. Files do not come and go while the project is
loaded.

### SyntaxRules, LatexGrammar, BibtexGrammar, Grammars, WellFormed, Parser

`SyntaxRules` is the vocabulary of a recursive descent parser: start and
finish a node, eat, call, branch, loop. In `LatexGrammar` and `BibtexGrammar`
every function of the two `parser.rs` is a definition of the same name, the
sequence of its steps; `Content` is the match of `content()` under each of the
three contexts the code passes, `CommandRule` the table of the lexer's command
kinds. `CanFollow` says which kinds the lexers' longest-match patterns can
hand out one after the other. `Grammars` puts the two grammars side by side,
by language. `Parser` executes the rules: `todo` is the call
stack as the steps still to take, `open` the stack of the tree builder,
`look` what `peek()` returns. The next token is chosen when the one before is
eaten, so that a run covers all documents of a family; `owed` is a history
variable that holds what a well-formed document still has to say (closing
delimiters, the arguments the accessors of `cst.rs` look for). `WellFormed`
says, from the tokens alone, what that is: `Obligation` is what a token adds
to it, `Allowed` which token may come, `Owed` what is left then.

A token is its kind. The characters are left out, and so is the tree below a
finished node: no function of the parsers looks back at either. `VERBATIM`
comes only after `\iffalse` (the environments the lexer takes as verbatim
give it a second place, where `content()` eats it alone).

### FunctionTypes

What each function of the parsers takes for granted when it is called, written
down as a contract: the tokens it may be called before (`FirstOf`), how many
nodes it may find open (`OverOf`), how much it eats at least (`DueOf`),
whether it is called only right under the root (`BaseOf`), and for which
closing tokens and divisions no node that is open may be waiting when it is
called (`LooseOf`). From the contracts
follow the *places* of a function: the steps it still has to take, the tokens
that can be next there, the nodes it has opened. A function is followed
through its body, over the calls and not into them, and at the head of a loop
it forgets what it knew of the next token. The places are finitely many,
whatever the document: 1077 for LaTeX, 206 for BibTeX. The assumption
`FunctionsAreSafe` says that no place lets the function go wrong: an `eat` has
a token, a `match` an arm, a `break` a loop in the same function, a call meets
the contract of what is called, `finish_node` a node of the function's own,
and a brace, an `\end` or a division is eaten only where nobody waits for it.
TLC evaluates it in `FeaturesRun`; `ParserProofs` uses it.

### WellFormedPlaces

The places of the LaTeX parser's functions once more, those only that a
well-formed document reaches, and with them what the document owes there. A
function is called with the first items of what is owed (`Paid`: a group, a
name, a pair of a key-value list, the `\end` of an environment) and hands it
back without them; what is below belongs to its callers, and it knows only
which items can be on top of that (`Tops`). So there are finitely many places,
678, although groups and environments nest without end. Only in the two halves
of a `\newenvironment`, and in what a `\newcommand` stands for, environments
are begun that the group may not end itself: there any number of `\end`s is
owed before the brace (`halved`), and the next token tells whether one is
next. `ItemsAreKnown` and `ObligationsAreMet` are assumptions without
constants: no place lets the function report a MISSING or start an ERROR on a
token that may come, every call finds what it is to deal with and leaves the
rest, and every function that ends has dealt with it. TLC evaluates them in
`FeaturesRun`; `WellFormedProofs` uses them.

### LineIndex, Tree

`LineIndex` is the newline table and the table of UTF-16 columns over a text
of characters of one to four bytes, with both conversions as they are written.
`Tree` runs the rules of the grammars over a given sequence of tokens and
builds what cstree holds: the elements in preorder, each with its parent, its
last descendant and its bytes. `Accessors` is `cst.rs`: for each construct and
each accessor, how the child is found (the first, the second, the last one of
some kinds). It also has `small_range`, `words` and the token at an offset.

### Cursor, Navigation, Labels, Symbols, Lints, Formatting, Completion

Pure functions from a request (documents of a subset, an offset) to an answer,
one definition for each function of the code, named after it. `Cursor` is what
a position points at. `Navigation` has references, highlights, links,
foldings, definitions and the edits of the three renamings; `Labels` the
rendering of a label and the hover; `Symbols` the outline and the project
order; `Lints` the two analyses of trees; `Formatting` the BibTeX formatter,
whose output is a sequence of tokens (`Lowered` says which texts
`str::to_lowercase` changes, and to what); `Completion` the items of all sources
but the file system, and how they are deduplicated, scored, sorted and cut.

A text is a sequence of tokens with their lengths in characters. Names are
sequences of words, as `to_string` of a key joins words with a space. What is
shown to a user (markdown, details of items, icons) is left out. The score of
the fuzzy matcher is reduced to: no pattern, equal, contained as a
subsequence of words, no match. `HashSet`s without an order are sequences in
some fixed order.

### Features

The state machine that puts them together: `docs` is the workspace. A piece of
text is written at the end of a document (`Write`), and then one request is
made whose edits the client applies: a renaming (`Rename`) of what is at a
place, the formatting of a bibliography (`Format`), a completion (`Accept`) of
which a label or an entry is taken. After each step the text is lexed and
parsed again, so that properties about edits read the tree of the new text.

### Proof modules

`QueueLemmas` (sequences without repetitions), and one module for each
component that is proved about: `ServerLoopProofs`, `DocumentSyncProofs`,
`DiagnosticsProofs`, `BuildEngineProofs`, `DiscoveryProofs`, `ParserProofs`
with `WellFormedProofs`. The inductive invariants (`IInv`) are stated in the
components' modules, so that the runs can check them; the parser's two are in
`ParserProofs` and `WellFormedProofs`.

## 3. Runs

| Run | Instance | Shows |
|---|---|---|
| `ServerLoopSafety` | a build, and with it a request that panics, one of a feature that is not built, a build on save, or a configuration change (`OneBesidesBuild`); 2 workers; 2 buffered messages | `IInv`, `ResponsesFindTheirJob`, `OneBuildAtATime`, `DrainedAtStop`, `ImplementsContract` hold |
| `ServerLoopLiveness` | a build, a build on save, the startup job; 2 workers | `RequestsAnswered`, `JoinEnds` hold |
| `ServerLoopExit` | a configuration change; 2 workers | `ExitStopsServer` is violated |
| `DocumentSyncSafety` | a .tex file and a log; 2 new texts; 1 notification on its way; 1 reparse | `TypeOK`, `EditorInSync`, `LogsFollowDisk` hold |
| `DocumentSyncEditor` | a .tex file | `EditorAlwaysInSync` is violated |
| `DocumentSyncAux` | an .aux file | `OthersFollowDisk` is violated |
| `DiagnosticsSafety` | one file; 2 messages; 4 tasks; 2 workers for each debouncer; a delay of one tick | `IInv`, `PublishedWhenFree`, `NeverOlder`, `AcceptedIsShown` hold |
| `DiagnosticsDebounce` | one file; 2 messages; 2 tasks | `EveryTextIsReported` is violated |
| `BuildEngineRun` | 2 builds; up to 2 lines each; pipes of 1 line | `BuildsInBlocks`, `LinesInOrder`, `ImplementsBuildContract`, `BuildsReturn` hold |
| `DiscoveryRun` | a root document, a subfile in a folder below that the client opens, a bibliography; 2 jobs; 2 versions of the options. Before the file is opened, 3 jobs; 3 versions, the last one not valid; 2 folders that may be refused (`FewChanges`) | `IInv`, `NewestOptions`, `LinksFollowOptions`, `ProjectIsLoaded`, `ParentIsFound`, `FoldersAreWatched` hold |
| `FeaturesRun` | two LaTeX documents and a bibliography with two beginnings; one of 36 pieces of text is written; one request | `PositionsAreShared`, `AccessorsFitGrammar`, `ReferencesAgree`, `OutlineAgreesWithLabels`, `SymbolsInReadingOrder`, `ErrorsAreReported`, `RenameIsComplete`, `FormattingKeepsMeaning`, `CompletionIsComplete`, `AcceptedIsDefined` hold; TLC evaluates `FunctionsAreSafe`, `ItemsAreKnown` and `ObligationsAreMet` |
| `ParserRun` | all documents of 4 tokens about each kind of token, of 5 to 7 that leave groups, environments or divisions open, of 6 to 14 that are well-formed; BibTeX files of 7 tokens | `TreeIsBuilt`, `NodesStartRight`, `StructureIsNotLost`, `WellFormedIsClean`, `EntriesSurvive`, `ParserReturns` hold |

`IInv` of each component contains its type invariant. In `DocumentSyncSafety`
`TypeOK` stands alone: TLC agrees with `IInv` there as well, but takes twice as
long for it as for the rest of the run. TLC agrees with `BuildEngine`'s `IInv`
on the instance of `BuildEngineRun`, too; the run leaves it to the proof.

The bounds. Every hazard above needs two actors and one or two rounds: two
workers and two builds give contention for the lock and for the pool (in
`ServerLoopLiveness` one build waits for the client with the lock, the other
for the lock, and the startup job for a worker); the constraint `OneBesidesBuild` takes one thing at a time beside
the build; two texts give an old and a new
one, and the third (the initial one) the one both overtake (the constraint
`SecondText` has the second new text come when the folder is watched, and not
while a loader and `reparse_all` are both under way; with one new text all four
threads race); two messages give
the task that is accepted and the one that is dropped or overtakes it; a pipe
of one line is full after the first. The families
of documents take a command with its delimiters, or the openers and closers
that interact: four tokens reach every branch of a command's first two
arguments, five an opener within an opener within an environment with the
closer of the outermost (seven where the innermost is the value of a key),
and a well-formed command gets as many as its
complete arguments need and one more (`Obligation`). In `DiscoveryRun` two
jobs and two versions give an old and a new configuration in either order, and
three files the three roles there are (opened, found below, found above). In
this project no search goes astray, so that `ParentIsFound` is checked without
its exception, and proved with it. What becomes of the client's configuration
depends on the documents only through the main thread, which opens them or
takes notifications: before a file is opened, three jobs and two changes are
what it takes for a reply to be overtaken and for a later pull to put it right.
Once the file is opened, the constraint `FewChanges` leaves out the second
change, pulls that fail, replies that are overtaken, and a change where its
folder could not be watched. In
`FeaturesRun` a piece is a construct with all its parts or an opener or closer
alone; two of them (the beginning and what is written) give two occurrences of
a name in one or in two documents, nesting and recovery; characters of one,
two and four bytes are among the names; `CompletionLimit` is 2 instead of 50
and `LineLength` 9 instead of 80, so that both are reached. `InboxSize`, `MaxText`, `MaxWire`,
`Reparses`, `MaxMessages`, `MaxTasks`, `MaxLines`, `MaxWrites` and the lengths of documents are bounds of the models
and do not exist in the code. Deadlock checking is off everywhere: the
environment stops when its bounds are used up, and the server may stop.

Fairness. Threads run (`WF` on the steps of each); a lock that is free is
obtained, which weak fairness gives because the jobs, tasks and builds are
finitely many; the 30 second timer of `handle_shutdown` fires; in
`ServerLoopLiveness` a living client answers what it is asked, as the protocol
demands; in `BuildEngineRun` it does, too, and a TeX process that is not
blocked goes on. In `ParserRun` the parser's thread runs. Nothing obliges the client to send anything else.

### Where the parser's properties have exceptions

Four places in the code differ from their neighbours; the properties name
them, and without the exception TLC finds a document.

* `value` (parser.rs:369-381) does not stop at an `\end`, although
  `key_value_pair` (391-401) does not start a value there: in
  `\includegraphics[k=v \end{a}` the value swallows the `\end`. So do
  `curly_group_word` (230-236) and the two halves of a `\newenvironment`,
  the latter on purpose (`StructureIsNotLost`).
* `label_number` (1008-1013) puts a MISSING after a second argument that is
  there, none where it is not; the snapshot of its test records it, and
  `WellFormedIsClean` leaves `\newlabel` out.
* `theorem_definition` (1189-1191) takes a `[` after its last argument for the
  counter, whatever is in it: `\newtheorem{a}{b}[` and a command gives a
  MISSING. A bracket that is ordinary text after a `\newtheorem` without a
  counter cannot be told from one, so that a well-formed `\newtheorem` has its
  counter (`Obligation`).
* `brack_group` and `mixed_group` stop at every division except
  `\subsubsection`; an unclosed bracket swallows that one. No property
  forbids it: `StructureIsNotLost` is about divisions directly in each other.

### Where the properties of the features have exceptions

* Renaming (`RenameIsComplete`): `rename_label` looks for the name at the
  start of a `\crefrange` twice and never at its end (rename/label.rs:65-87):
  the end keeps the old name, and the start gets two edits at one place. The
  client of the model does not apply edits that overlap, as the protocol
  allows it.
* Diagnostics (`ErrorsAreReported`): the test for the right brace of an entry
  asks for its key (diagnostics/bibtex.rs:77), so that a missing brace is never
  reported.
* Labels (`OutlineAgreesWithLabels`): label.rs knows neither enumerations nor
  `\[ \]`; the outline does.
* Completion (`AcceptedIsDefined`): in a list that is not closed the text that
  follows is read as part of the name. Labels replace the name up to the
  cursor (cursor.rs:270-277); entries, and everything that is completed in a
  group of one word, replace all of it. A key that is completed away from a
  word is inserted next to what is there.
* Workspace (`LogsFollowDisk`): `tainted` and `missed`, see section 2. A log
  that the TeX engine writes after it has been read (api.rs:62) and before its
  folder is watched (watch.rs:56-60) has no event; the document keeps the old
  log, and with it the old diagnostics, until the next build. Without `missed`
  TLC finds this: check, read, write, insert, watch.
* Message loop (`DrainedAtStop`): a server that has stopped may owe an answer
  to a request of a feature that is not built, to one whose handler panicked
  and, if the client had gone, to those whose answer could not be sent; then
  registrations may be left, too (`SendAskFails`).
* Formatting (`FormattingKeepsMeaning`): what is apart in a text (between
  braces or quotes) stays apart and what is not stays one word (`WordsStay`),
  except where the line is full: bibtex_internal.rs:193-199 breaks it before
  any token that does not fit, also within `{at{b}}`, which is then two words.
  Types are compared without regard to case. The formatter is checked for
  documents without gaps other than a missing last brace. A field without a
  value is written without the end of its line, and the next field becomes its
  value; `@string{a}` and `@preamble{}` lose their brace. Continuation lines
  are indented by one more than the value, and the comma is not counted: lines
  can be longer than `formatter_line_length`. In a `@preamble`, `align -
  tab_size` is negative for tabs wider than 10 (`FormatAssumption`).
* Completion, `CompletionIsComplete`: cutting before filtering does no harm
  because preselected items, which come first whatever their score, exist only
  where the pattern is empty and everything matches.
* Configuration (`NewestOptions`): of two jobs that pull it the one with the
  older reply may write last (config.rs:69-71), and the older configuration
  stays in force until the next change. `overtaken` excepts this and no other
  overlap; without it TLC finds two pulls whose replies are written in the
  wrong order. A pull that fails (`failed`) leaves the options as they are.
* Discovery: `late` and `refused`, see section 2, and `astray`. The search
  for a root (parent_expand.rs:46) stops at the first one, and nobody searches
  again when that turns out to be none. Let the root directory be unset at
  first and /p once the client has answered; /p/main.tex includes `ch/one`,
  /p/ch/draft.tex includes `./one`, and the client opens /p/ch/one.tex. The
  search finds draft.tex in the folder itself, whose link leads to one.tex
  under the first options, and does not come to /p. `reparse_all` opens the
  documents in any order (storage.rs keeps them in a hash map): if one.tex
  comes first, draft.tex still has its old link and the search stops there
  again; then draft.tex is parsed again, its link leads to /p/one.tex, which
  does not exist, and main.tex is never loaded. Before `astray` was there TLC
  found this in a project with these three files. `ParentIsFound` excepts a
  file whose last search ended, before all the folders were searched, at a
  root that does not remain connected with it (`FoundForGood`).

### What the violated properties say

* `ExitStopsServer`: after `shutdown` and `exit` the main thread waits in
  `pool.join` (server.rs:853) and reads no responses; a job waiting for
  `workspace/configuration` waits for ever (client.rs:30), and the process
  with it. The tests join the server's thread after exactly these messages.
* `EditorAlwaysInSync`: reload (api.rs:37) and `reparse_all`
  (server.rs:873-882) can undo an edit of an open document.
* `OthersFollowDisk`: `reparse_all` opens everything as the client does, so
  that changes of .aux files on disk are not seen any more.
* `EveryTextIsReported`: the debouncer drops the last message of a burst
  (debouncer.rs:49-53).

## 4. Proofs

Each table names the theorems of one module: invariants of the specification
(`Spec => []...`), one action property (`NeverOlder`) and two refinements
(`ImplementsContract`, `ImplementsBuildContract`).

### The message loop: `ServerLoopProofs`

For any finite or infinite sets of requests, saves and configuration changes,
any sizes of pool and inbox, from the assumptions `JobsAreDistinct`,
`FaultyArePlain` and `SizesPositive` of `ServerLoop`:

| Theorem | Statement |
|---|---|
| `IInvIsInvariant` | `Spec => []IInv` |
| `TypeCorrect` | `Spec => []TypeOK` |
| `ResponsesAreExpected` | `Spec => []ResponsesFindTheirJob` |
| `BuildsExcludeEachOther` | `Spec => []OneBuildAtATime` |
| `StoppedServerOwesNothing` | `Spec => []DrainedAtStop` |
| `ServerImplementsContract` | `Spec => ImplementsContract` |

None of the safety properties is inductive. `ResponsesFindTheirJob` fails
after a state in which a response lies in the inbox for an id that is not
registered, so the invariant says where an id can be: asked of the client, in
a response in the inbox, or delivered, and in each case its job waits
(`AsksHaveWaiters`, `MailIsFresh`). That a response is handled once needs that
nothing is in the inbox twice (`NoRepetition`), and that in turn that what the
client sends is new (`NothingFromNowhere`). `OneBuildAtATime` follows from
`LockHeldByBuilder`; `DrainedAtStop` and the refinement from
`AcceptedIsAnswered` (a request that was accepted has an answer or a job, not
both) and from `PanicsHaveReasons`: a job that panicked had a handler that
does, or the client had gone. The proof has one lemma for each actor (`ClientKeepsIInv`,
`MainKeepsIInv`, `WorkersKeepIInv`) with one step for each action. For
`ServerImplementsContract` the state is mapped by `issued <- sent \cap
Requests`; `SendRequest` is `Issue`, `SendCancel` is `Renounce`,
`HandleRequest` (refused) and `Finish` are `Answer`, the rest stutters.

### The workspace: `DocumentSyncProofs`

For any files, any number of edits, any number of notifications on their way
and of reparses, from `FileKindsDiffer`, `FilesHaveFolders`,
`BoundsAreNat` and `NoTextIsANumber` of `DocumentSync`:

| Theorem | Statement |
|---|---|
| `IInvIsInvariant` | `Spec => []IInv` |
| `TypeCorrect` | `Spec => []TypeOK` |
| `EditorStaysInSync` | `Spec => []EditorInSync` |
| `LogsFollow` | `Spec => []LogsFollowDisk` |

The argument for `EditorInSync` is a chain from the text in the store to the
editor's buffer: the main thread's next notification about a file was made on
the text that the server has or is about to store (`ServerInStep`), each
notification fits the one before it, and the last one leads to the buffer
(`WireFits`); what the client has open the server knows as open
(`KnownIsOpened`). The other threads keep out of this only as long as they
have not been overtaken, which `LateIsMarked` ties to the history variable:
a write that is not late still finds what its check found. For logs: one that
differs from the disk has an event, or the watcher is at it, or the write was
missed (`LogsHaveEvents`); that only files in watched folders are reloaded
(`EventsAreWatched`) is needed for a reload to find every later write.

### Diagnostics: `DiagnosticsProofs`

For any files and any numbers of workers, tasks and messages, from
`BoundsArePositive`, `NobodyIsNoSlot` and `FreeIsNoTask` of `Diagnostics`:

| Theorem | Statement |
|---|---|
| `IInvIsInvariant` | `Spec => []IInv` |
| `TypeCorrect` | `Spec => []TypeOK` |
| `AnalysesArePublished` | `Spec => []PublishedWhenFree` |
| `DiagnosticsNeverGoBack` | `Spec => NeverOlder` |

A task analyses the text the workspace has when it gets the mutex, not the one
it was started for: results never exceed the text (`NothingFromTheFuture`), so
the next analysis is at least as new. That what is shown never goes back needs
that only the holder of the mutex publishes, and that it has analysed
(`HolderHasAnalysed`).

### The build engine: `BuildEngineProofs`

For any number of builds, any output of the processes and pipes of any size,
from `SizesAreNat` and `NoBuildIsNone` of `BuildEngine`:

| Theorem | Statement |
|---|---|
| `IInvIsInvariant` | `Spec => []IInv` |
| `TypeCorrect` | `Spec => []TypeOK` |
| `BuildsStayInBlocks` | `Spec => []BuildsInBlocks` |
| `LinesStayInOrder` | `Spec => []LinesInOrder` |
| `BuildEngineImplementsContract` | `Spec => Contract!Spec` |

`BuildsInBlocks` needs that what the client has seen since the holder of the
lock began is the holder's (`LastBlock`), and what can exist of a build in
which phase of its worker (`Stages`). A line's way is followed through the
pipe (`PipesHoldLatest`), the tracker (`TrackedIsSentOn`) and the log channel
(`LogFollowsSeen`): at each place the lines continue those further on.
The refinement has one lemma for the worker (`WorkerRefines`: the contract's
step, or one the client does not see) and one for the log thread
(`ForwardLineRefines`), which needs that just the lines before the channel's
first one have been shown (`FirstLineFollowsShown`). That a progress which was
begun is ended before its build returns, on every path, is said by the
contract alone.

### Discovery and configuration: `DiscoveryProofs`

For any project, any options and any number of pool jobs, from
`VersionsFromZero`, `DefaultIsValid`, `AbsentIsNoVersion`, `FirstIsAJob`, `EditableExist`,
`NoFileIsNoPath` and `AboveStartsBelow` of `Discovery`:

| Theorem | Statement |
|---|---|
| `IInvIsInvariant` | `Spec => []IInv` |
| `TypeCorrect` | `Spec => []TypeOK` |
| `OptionsAreNewest` | `Spec => []NewestOptions` |
| `DocumentsFollowOptions` | `Spec => []LinksFollowOptions` |
| `TargetsAreThere` | `Spec => []ProjectIsLoaded` |
| `RootsAreFound` | `Spec => []ParentIsFound` |
| `FoldersAreAllWatched` | `Spec => []FoldersAreWatched` |

These properties are about states in which nothing is under way. The invariant
says of every other state that what is still to be done is known to somebody
who will do it: the newest options to a notification, a pull or its reply, unless a pull
failed, and the options in force are those of the newest reply that was
written, unless the last one was overtaken (`NewestComes`), a document that follows old options to a job
that opens it again (`OthersAreReparsed`), a target that is no document to a
loading thread (`TargetsAreLoaded`), a folder that is neither watched nor
refused to a job or the main thread (`FoldersGetWatched`). For a document the client has opened a
root is being sought or will be, or one was found for good, or the LaTeX files
of all the folders above are documents or being loaded (`ParentsAreSought`).
Then `RootsAreFound` takes any set of documents with the opened one that no
link leaves or enters: what a root that is not in it leads to is not in it
either (`RootThatLeadsIsConnected`). No induction over paths is needed, since
`Connected` and `LeadsTo` speak of sets that links do not leave.

### The parsers: `ParserProofs`

For documents of any length and any tokens of their language, from
`DocumentsAssumption` of `Parser` and `FunctionsAreSafe` of `FunctionTypes`,
which has no constants and which TLC evaluates:

| Theorem | Statement |
|---|---|
| `IInvIsInvariant` | `Spec => []IInv` |
| `TreeIsAlwaysBuilt` | `Spec => []TreeIsBuilt` |
| `NodesStartAtTheirTokens` | `Spec => []NodesStartRight` |
| `EntriesAlwaysSurvive` | `Spec => []EntriesSurvive` |
| `StructureIsKept` | `Spec => []StructureIsNotLost` |

`todo` is one flat sequence of steps. The invariant cuts it into frames, one
for each call: a frame has the place of its function, the nodes that were open
when it was called, and how much will have been eaten when it returns; the
frame on top is at a place that fits the state (`Works`), each other one will
be when the one above it returns (`Waits`). What is open is at most twice what
is eaten plus a number of the place, which the contract bounds at every call,
so that the depth of the recursion is bounded by what is eaten. A step moves
the top frame to a place that follows, a call puts a frame on top or, where
nothing is left to do for the caller, in its stead, and the end of a function
takes its frame away. There is one lemma for each kind of step. For
`StructureIsKept` the nodes open are those of the frame below and the
function's own, in this order; a place knows which tokens no node below waits
for (`loose`), and with its own nodes that gives what may be eaten there
(`LooseAt`): an \end is never loose above an environment, but a group inside
the environment hides the braces outside of it. This invariant
quantifies over stacks, and no run evaluates it; what it rests on is evaluated
(`FunctionsAreSafe`), and what follows from it `ParserRun` checks. The same
is true of the invariant below.

### Well-formed LaTeX: `WellFormedProofs`

From the same assumptions and those of `WellFormedPlaces`:

| Theorem | Statement |
|---|---|
| `WellFormedStaysClean` | `Spec => []WellFormedIsClean` |

Here a frame (`PendingCalls`) has the place of its function and `base`, what
was owed when it was called and is for the callers to deal with. What the
document owed before the token that is next is what the place says, on top of
`base` (`OwedAt`), and what a function leaves when it returns is what its
caller's place expects (`Expects`). So the token that is next is one of those
that can come at the place (`NextFits`), for which the table says that the
step is clean. The invariant `CleanInv` holds as long as the document is
well-formed and says nothing after it has ceased to be: `NotWellFormed` is
never left (`NotWellFormedStays`). It needs `IInv` for the kind of the next
token only. As stated at first, without the counter of `\newtheorem`, the
table showed the property to be false of documents longer than those of the
run.

### Only model-checked

* Every liveness property (`RequestsAnswered`, `JoinEnds`, `AcceptedIsShown`,
  `BuildsReturn`, `ParserReturns`): liveness under fairness and `ENABLED` are
  out of TLAPS's reach.
* The properties of `Features`. The trees and the outline are recursive data
  and `Tree` is defined by recursion: what holds of them for every document
  needs induction over the tree, which TLAPS cannot do.

`Parser` and `Features` have no type invariant that a run checks: what they
hold is written by their own constructors only, and it would restate them.

## 5. Not modelled

* The lexers: they are automata generated from longest-match patterns; what
  the models need of them is which token kinds can follow each other
  (`CanFollow`) and which neighbours join (`Lexed`).
* `complete_includes`, which lists directories on disk; the details of
  completion items and `completionItem/resolve`.
* Forward search, the choice of the document to build, the parser of build
  logs, ChkTeX's output, citations, latexindent, TeX distributions: processes
  and conversions of text without a state that other parts read.
* `reload` after a change of a file while its project is being loaded:
  `DocumentSync` has the changes, `Discovery` the loading.
* Semantic tokens, which are behind the feature `semantic`.

## 6. Plan

1. Proofs: lemmas on the tables of `LineIndex`.
2. The build log's stack of files and the lines that are joined again after 79
   characters, if it can be done on tokens of a log.
3. The detection of the distribution while documents are parsed
   (server.rs:172), which no property covers.
