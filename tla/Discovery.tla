------------------------------ MODULE Discovery ------------------------------
(***************************************************************************)
(* How the documents of a project come into the workspace, while the       *)
(* options that decide where their links lead arrive.  Opening a document  *)
(* goes through the layers of create_workspace_full: Storage parses and    *)
(* inserts it and loads what it links to (ChildrenExpander, which loads    *)
(* into the Storage itself), DocumentWatcher watches its folder, and       *)
(* ParentExpander loads the LaTeX files of the folders above until a root  *)
(* document is found.  The main thread opens what the client opens; pool   *)
(* jobs pull the configuration and open every document again.              *)
(***************************************************************************)
EXTENDS Links

CONSTANTS
  Editable,   \* files the client may open
  Jobs,       \* pool jobs that bring a configuration; the first is the one of initialize
  FirstJob,
  Fragile,    \* folders whose watching may fail: they may not exist yet
  Valid,      \* versions of the client's configuration that can be read as options
  NoFile

Newest == Cardinality(Versions) - 1

ASSUME VersionsFromZero == Newest \in Nat /\ Versions = 0..Newest
ASSUME DefaultIsValid == Valid \subseteq Versions /\ 0 \in Valid /\ Options[0].aux = None
ASSUME AbsentIsNoVersion == Absent \notin Versions
ASSUME FirstIsAJob == FirstJob \in Jobs
ASSUME EditableExist == Editable \subseteq Files
ASSUME NoFileIsNoPath == NoFile \notin Files
ASSUME AboveStartsBelow ==
  \A f \in Files :
    /\ Above[PathOf[f].folder] \in Seq(Folders) \ {<<>>}
    /\ Head(Above[PathOf[f].folder]) = PathOf[f].folder

Main == "main"
Openers == Jobs \cup {Main}
Failed == Newest + 1   \* a reply that is an error, or no reply as the client is gone
Empty == Newest + 2    \* a reply without a configuration

VARIABLES
  pulls,     \* whether the client supports workspace/configuration
  wanted,    \* the version of the client's configuration
  notices,   \* didChangeConfiguration notifications not yet handled: versions
  options,   \* ServerContext.options, as the version they are from; 0: Options::default()
  docs,      \* Storage.documents_by_uri: path -> version of the options it was parsed with
  watched,   \* DocumentWatcher.watched_paths
  toOpen,    \* files the client has not opened yet
  call,      \* opener -> where it is in Workspace::open
  loads,     \* files that are being loaded
  job,       \* job -> [step, answer, todo]
  refused,   \* (history) folders whose watching failed the last time
  applied,   \* (history) the newest version that a reply has brought
  failed,    \* (history) a pull failed since the client's configuration changed
  overtaken, \* (history) the last reply to be applied was older than one before
  late,      \* (history) documents last inserted with options no longer in force
  astray     \* (history) files whose last search ended at a root their links do not lead to for good

folderVars == <<watched, refused>>
pullVars == <<applied, failed, overtaken>>
vars ==
  <<pulls, wanted, notices, options, docs, folderVars, toOpen, call, loads, job, pullVars, late, astray>>
clientVars == <<pulls, wanted, notices, toOpen>>
configVars == <<options, job, pullVars>>

Idle == [step |-> "idle", file |-> NoFile, seen |-> 0, level |-> 0]

Load(o, by, target, watch) ==
  [opener |-> o, by |-> by, target |-> target, watch |-> watch, step |-> "check", seen |-> 0]

AuxFolder(version) == {Options[version].aux} \ {None}

Keys == {p \in DOMAIN docs : docs[p] # Absent}
LoadsOf(o) == {l \in loads : l.opener = o}

CallSet == [step : {"idle", "insert", "climb"}, file : Files \cup {NoFile}, seen : Versions, level : Nat]
LoadSet ==
  [opener : Openers, by : Files \cup {NoFile}, target : Files, watch : BOOLEAN,
   step : {"check", "insert"}, seen : Versions]
JobSet ==
  [step : {"none", "new", "asked", "replied", "configured", "watched", "reparse", "done"},
   answer : Versions \cup {Failed, Empty}, todo : SUBSET Files]

WatchedFolders == {PathOf[f].folder : f \in Files} \cup UNION {AuxFolder(v) : v \in Versions}

TypeOK ==
  /\ pulls \in BOOLEAN /\ failed \in BOOLEAN /\ overtaken \in BOOLEAN /\ applied \in Versions
  /\ wanted \in Versions /\ options \in Versions /\ notices \in Seq(Versions)
  /\ docs \in [Files -> Versions \cup {Absent}]
  /\ watched \subseteq WatchedFolders /\ refused \subseteq WatchedFolders
  /\ toOpen \subseteq Editable /\ late \subseteq Keys /\ astray \subseteq Editable
  /\ call \in [Openers -> CallSet]
  /\ \A o \in Openers : call[o].step # "idle" => call[o].file \in Files
  /\ loads \subseteq LoadSet
  /\ job \in [Jobs -> JobSet]

Init ==
  /\ pulls \in BOOLEAN
  /\ wanted = 0 /\ notices = <<>> /\ options = 0
  /\ docs = [p \in Files |-> Absent]
  /\ watched = {} /\ refused = {} /\ toOpen = Editable
  /\ call = [o \in Openers |-> Idle]
  /\ loads = {}
  /\ job = [j \in Jobs |-> [step |-> IF j = FirstJob THEN "new" ELSE "none", answer |-> 0, todo |-> {}]]
  /\ applied = 0 /\ failed = FALSE /\ overtaken = FALSE /\ late = {} /\ astray = {}

-----------------------------------------------------------------------------
(* DocumentWatcher::watch does nothing for a folder that is watched, and   *)
(* may fail for another, of which its callers at most log an error.        *)

Watch(folders) ==
  \E fails \in SUBSET ((folders \ watched) \cap Fragile) :
    /\ watched' = watched \cup (folders \ fails)
    /\ refused' = (refused \ folders) \cup fails

-----------------------------------------------------------------------------
(* Storage::open inserts the document and calls the handler of the         *)
(* ChildrenExpander, which loads the first target of each list that can be *)
(* read, all lists in parallel, into the Storage. (Files neither come nor  *)
(* go here, so that the search for that target is no step of its own.)     *)

IsLate(p, version) == Language(p) = "latex" /\ version # options

(* Mutant: what is loaded along the way is not followed further.           *)
InsertOpened(o, p, version, others) ==
  /\ docs' = [docs EXCEPT ![p] = version]
  /\ late' = IF IsLate(p, version) THEN late \cup {p} ELSE late \ {p}
  /\ loads' = others \cup {Load(o, p, q, FALSE) : q \in IF p = call[o].file THEN Children[p][version] ELSE {}}

Insert(o, p, version, others) ==
  /\ docs' = [docs EXCEPT ![p] = version]
  /\ late' = IF IsLate(p, version) THEN late \cup {p} ELSE late \ {p}
  /\ loads' = others \cup {Load(o, p, q, FALSE) : q \in Children[p][version]}

-----------------------------------------------------------------------------
(* A thread that loads a file: Workspace::load.                            *)

Replace(l, news) == loads' = (loads \ {l}) \cup news

(* A document that is there is taken as it is, and a file of no language   *)
(* is left alone. Document::parse reads the options for the base folder of *)
(* the explicit links, and again for the implicit ones; it is one step     *)
(* here, with the check: what lies between them and the insertion is late  *)
(* whichever of them it comes after.                                       *)
LoadParse(l) ==
  /\ l.step = "check"
  /\ Replace(l, IF docs[l.target] # Absent \/ Language(l.target) = "none" THEN {}
                ELSE {[l EXCEPT !.step = "insert", !.seen = options]})
  /\ UNCHANGED <<clientVars, configVars, docs, folderVars, call, late, astray>>

(* What ParentExpander loads goes through DocumentWatcher::open, which     *)
(* watches the folder in the end.                                          *)
LoadInsert(l) ==
  /\ l.step = "insert"
  /\ Insert(l.opener, l.target, l.seen, loads \ {l})
  /\ IF l.watch THEN Watch({PathOf[l.target].folder}) ELSE UNCHANGED folderVars
  /\ UNCHANGED <<clientVars, configVars, call, astray>>

Loader(l) == LoadParse(l) \/ LoadInsert(l)

-----------------------------------------------------------------------------
(* Workspace::open, called by opener o.                                    *)

At(o, step) == call[o].step = step

(* Document::parse reads the options.                                      *)
StartOpen(p) == [Idle EXCEPT !.step = "insert", !.file = p, !.seen = options]

OpenInsert(o) ==
  /\ At(o, "insert")
  /\ Insert(o, call[o].file, call[o].seen, loads)
  /\ call' = [call EXCEPT ![o].step = "climb", ![o].seen = 0]
  /\ UNCHANGED <<clientVars, configVars, folderVars, astray>>

(* for_each returns when every list is dealt with, and with it what the    *)
(* loaded files link to. Then DocumentWatcher watches the folder, and      *)
(* ParentExpander goes up the folders: unless the document is connected    *)
(* with a root now, it loads the LaTeX files of the next one. (It leaves   *)
(* out those it has listed before the loop, which have a document still.)  *)
FilesIn(folder) == {f \in Files : PathOf[f].folder = folder /\ Language(f) = "latex" /\ docs[f] = Absent}

(* (History) The search for a root of p ends, early if it came upon one.   *)
(* It may be connected with it by links that will lead elsewhere, of a     *)
(* document that is to be parsed again: nobody searches for another then.  *)
LastingLinks == UNION {{f} \X (Destinations[f][options] \cap Keys) : f \in Keys}

FoundForGood(p) == \E g \in Connected(Keys, LastingLinks, p) : IsRoot(g)

EndSearch(p, early) ==
  astray' = IF early /\ ~FoundForGood(p) THEN astray \cup ({p} \cap Editable) ELSE astray \ {p}

(* Mutant: only the folder of the document is searched.                    *)
ClimbOnce(o) ==
  LET c == call[o]
      above == Above[PathOf[c.file].folder]
  IN  /\ c.step = "climb" /\ LoadsOf(o) = {}
      /\ IF c.level = 0 THEN Watch({Head(above)}) ELSE UNCHANGED folderVars
      /\ IF c.level = 1 \/ HasParent(docs, Keys, c.file)
           THEN call' = [call EXCEPT ![o] = Idle] /\ UNCHANGED loads /\ EndSearch(c.file, FALSE)
           ELSE /\ call' = [call EXCEPT ![o].level = @ + 1]
                /\ loads' = {Load(o, NoFile, f, TRUE) : f \in FilesIn(above[c.level + 1])} \cup loads
                /\ UNCHANGED astray
      /\ UNCHANGED <<clientVars, configVars, docs, late>>

Climb(o) ==
  LET c == call[o]
      above == Above[PathOf[c.file].folder]
  IN  /\ c.step = "climb" /\ LoadsOf(o) = {}
      /\ IF c.level = 0 THEN Watch({Head(above)}) ELSE UNCHANGED folderVars
      /\ IF c.level = Len(above) \/ HasParent(docs, Keys, c.file)
           THEN call' = [call EXCEPT ![o] = Idle] /\ UNCHANGED loads /\ EndSearch(c.file, c.level # Len(above))
           ELSE /\ call' = [call EXCEPT ![o].level = @ + 1]
                /\ loads' = {Load(o, NoFile, f, TRUE) : f \in FilesIn(above[c.level + 1])} \cup loads
                /\ UNCHANGED astray
      /\ UNCHANGED <<clientVars, configVars, docs, late>>

Opener(o) == OpenInsert(o) \/ Climb(o)

-----------------------------------------------------------------------------
(* The client, and what the main thread does with its notifications.       *)

ClientChanges ==
  /\ wanted < Newest
  /\ wanted' = wanted + 1
  /\ notices' = Append(notices, wanted + 1)
  /\ failed' = FALSE
  /\ UNCHANGED <<pulls, toOpen, options, job, applied, overtaken>>
  /\ UNCHANGED <<docs, folderVars, call, loads, late, astray>>

DidOpen(p) ==
  /\ p \in toOpen /\ At(Main, "idle")
  /\ toOpen' = toOpen \ {p}
  /\ call' = [call EXCEPT ![Main] = StartOpen(p)]
  /\ UNCHANGED <<pulls, wanted, notices, configVars, docs, folderVars, loads, late, astray>>

(* Mutant: no second pull while there is one.                              *)
PullOnce(j) ==
  /\ notices # <<>> /\ At(Main, "idle") /\ job[j].step = "none"
  /\ notices' = Tail(notices)
  /\ IF pulls
       THEN /\ job' = IF \E k \in Jobs : job[k].step \in {"new", "asked", "replied"}
                        THEN job ELSE [job EXCEPT ![j].step = "new"]
            /\ UNCHANGED <<options, folderVars>>
       ELSE /\ options' = IF Head(notices) \in Valid THEN Head(notices) ELSE options
            /\ Watch(AuxFolder(options'))
            /\ job' = [job EXCEPT ![j].step = "watched"]
  /\ UNCHANGED <<pulls, wanted, toOpen, pullVars, docs, call, loads, late, astray>>

(* did_change_configuration: a job that pulls; or, when the client does    *)
(* not answer requests, the options it has sent, if they are valid, and a  *)
(* job that reparses.                                                      *)
DidChangeConfiguration(j) ==
  /\ notices # <<>> /\ At(Main, "idle") /\ job[j].step = "none"
  /\ notices' = Tail(notices)
  /\ IF pulls
       THEN /\ job' = [job EXCEPT ![j].step = "new"]
            /\ UNCHANGED <<options, folderVars>>
       ELSE /\ options' = IF Head(notices) \in Valid THEN Head(notices) ELSE options
            /\ Watch(AuxFolder(options'))
            /\ job' = [job EXCEPT ![j].step = "watched"]
  /\ UNCHANGED <<pulls, wanted, toOpen, pullVars, docs, call, loads, late, astray>>

-----------------------------------------------------------------------------
(* A pool job: pull_and_reparse_all, or reparse_all alone.                 *)

(* pull_config returns at once when the client does not answer requests.   *)
Ask(j) ==
  /\ job[j].step = "new"
  /\ job' = [job EXCEPT ![j].step = IF pulls THEN "asked" ELSE "configured"]
  /\ UNCHANGED <<clientVars, options, pullVars, docs, folderVars, call, loads, late, astray>>

(* The client answers with the configuration it has then, with none, or    *)
(* with an error; the request or the reply may be lost with the client.    *)
Reply(j) ==
  /\ job[j].step = "asked"
  /\ \E answer \in {wanted, Failed, Empty} :
       /\ job' = [job EXCEPT ![j].step = "replied", ![j].answer = answer]
       /\ failed' = (failed \/ answer # wanted)
  /\ UNCHANGED <<clientVars, options, applied, overtaken>>
  /\ UNCHANGED <<docs, folderVars, call, loads, late, astray>>

(* What a section that cannot be read is replaced by.                      *)
Adopted(version) == IF version \in Valid THEN version ELSE 0

(* The rest of pull_config: an error leaves the options as they are, and   *)
(* an empty list makes the job panic.                                      *)
Configure(j) ==
  LET answer == job[j].answer
  IN  /\ job[j].step = "replied"
      /\ IF answer \in Versions
           THEN /\ options' = Adopted(answer)
                /\ overtaken' = (answer < applied)
                /\ applied' = IF answer < applied THEN applied ELSE answer
           ELSE UNCHANGED <<options, overtaken, applied>>
      /\ job' = [job EXCEPT ![j].step = IF answer = Empty THEN "done" ELSE "configured",
                             ![j].answer = 0]
      /\ UNCHANGED <<clientVars, failed, docs, folderVars, call, loads, late, astray>>

(* Mutant: the folder is watched before the reply has come.                *)
WatchAuxOfReply(j) ==
  /\ job[j].step = "configured"
  /\ Watch(AuxFolder(0))
  /\ job' = [job EXCEPT ![j].step = "watched"]
  /\ UNCHANGED <<clientVars, options, pullVars, docs, call, loads, late, astray>>

WatchAux(j) ==
  /\ job[j].step = "configured"
  /\ Watch(AuxFolder(options))
  /\ job' = [job EXCEPT ![j].step = "watched"]
  /\ UNCHANGED <<clientVars, options, pullVars, docs, call, loads, late, astray>>

(* Mutant: only what the client has opened is parsed again.                *)
CollectOpened(j) ==
  /\ job[j].step = "watched"
  /\ job' = [job EXCEPT ![j].step = "reparse", ![j].todo = Keys \cap Editable]
  /\ UNCHANGED <<clientVars, options, pullVars, docs, folderVars, call, loads, late, astray>>

(* Storage::documents: the map lists them in any order.                    *)
Collect(j) ==
  /\ job[j].step = "watched"
  /\ job' = [job EXCEPT ![j].step = "reparse", ![j].todo = Keys]
  /\ UNCHANGED <<clientVars, options, pullVars, docs, folderVars, call, loads, late, astray>>

Reopen(j) ==
  /\ At(j, "idle")
  /\ \E p \in job[j].todo :
       /\ job' = [job EXCEPT ![j].todo = @ \ {p}]
       /\ call' = [call EXCEPT ![j] = StartOpen(p)]
  /\ UNCHANGED <<clientVars, options, pullVars, docs, folderVars, loads, late, astray>>

JobEnds(j) ==
  /\ job[j].step = "reparse" /\ job[j].todo = {} /\ At(j, "idle")
  /\ job' = [job EXCEPT ![j].step = "done"]
  /\ UNCHANGED <<clientVars, options, pullVars, docs, folderVars, call, loads, late, astray>>

Job(j) ==
  Ask(j) \/ Configure(j) \/ WatchAux(j) \/ Collect(j) \/ Reopen(j) \/ JobEnds(j)

(* The threads inside Workspace::open.                                     *)
Working == (\E o \in Openers : Opener(o)) \/ (\E l \in loads : Loader(l))

Next ==
  \/ ClientChanges
  \/ \E p \in Editable : DidOpen(p)
  \/ \E j \in Jobs : DidChangeConfiguration(j) \/ Reply(j) \/ Job(j)
  \/ Working

Spec == Init /\ [][Next]_vars

-----------------------------------------------------------------------------
(* Correctness.                                                            *)

Quiet ==
  /\ notices = <<>> /\ loads = {}
  /\ \A o \in Openers : At(o, "idle")
  /\ \A j \in Jobs : job[j].step \in {"none", "done"}

(* The options of the newest version up to this one that is valid.         *)
IsNewestValid(o, version) ==
  o \in Valid /\ o <= version /\ \A v \in Valid : v <= version => v <= o

(* The options that go with the client's configuration are in force: where *)
(* that is not valid, the default ones if it was pulled, and if it was     *)
(* pushed those of the last valid one.                                     *)
ClientsOptions == IF pulls THEN options = Adopted(wanted) ELSE IsNewestValid(options, wanted)

(* When nothing is under way, the options in force are the client's,       *)
(* however changes, requests and replies overlap: unless a pull failed     *)
(* after the last change, or the reply that was written last is older than *)
(* one before it.                                                          *)
NewestOptions == Quiet /\ ~failed /\ ~overtaken => ClientsOptions

(* "Re-analyze the workspace if the initial configuration has been         *)
(* received late": then, too, every document was parsed with the options   *)
(* in force, except what was inserted with options that had just changed.  *)
LinksFollowOptions ==
  Quiet => \A p \in Keys \ late :
             Language(p) = "latex" => docs[p] = options

(* The first target of a link that exists is in the workspace, however the *)
(* threads that load overlap.                                              *)
ProjectIsLoaded ==
  Quiet => \A p \in Keys : \A i \in Followed(p, docs[p]) :
             \A target \in FirstIn(Lists[p][docs[p]][i], Files) :
               Language(target) # "none" => target \in Keys

(* A document the client has opened is connected with a root document if   *)
(* there is one, in a folder above, whose links lead to it: unless its     *)
(* last search came upon another root too early.  (Say that links are      *)
(* relative to the document at first, and to /p once the client has been   *)
(* asked. /p/ch/one.tex, included by /p/main.tex as ch/one, is found to be *)
(* included by /p/ch/draft.tex as one. If one.tex is the first to be       *)
(* opened again, its search ends at draft.tex, which is parsed again later *)
(* and leads nowhere then; main.tex is never loaded.)                      *)
LeadsTo(root, p) ==
  \A some \in SUBSET Files :
    root \in some /\ (\A q \in some : Children[q][options] \subseteq some) => p \in some

ParentIsFound ==
  Quiet /\ late = {} =>
    \A p \in Editable \ (toOpen \cup astray) :
      (\E root \in Files :
         /\ IsRoot(root) /\ PathOf[root].folder \in ToSet(Above[PathOf[p].folder])
         /\ LeadsTo(root, p))
      => HasParent(docs, Keys, p)

(* "Watch aux directory by default for changes": the aux directory of the  *)
(* options in force is watched, and so are the folders of what the client  *)
(* has opened, unless watching failed.                                     *)
FoldersAreWatched ==
  Quiet => AuxFolder(options) \cup {PathOf[p].folder : p \in Editable \ toOpen}
             \subseteq watched \cup refused

-----------------------------------------------------------------------------
(* The inductive invariant: for each of the properties, what is still to   *)
(* be done where it does not hold yet, and who will do it.                 *)

Some(steps) == \E j \in Jobs : job[j].step \in steps

IsOldAnswer(j) ==
  /\ job[j].step \in {"asked", "replied"} => pulls
  /\ job[j].answer \in Versions => job[j].answer <= wanted

(* The client's configuration is in force, or a notification or a pull     *)
(* will bring it, or the last pull has failed. Notifications come one by   *)
(* one, and what they have brought before is in force.                     *)
NewestComes ==
  /\ pulls =>
       \/ notices # <<>> \/ Some({"new", "asked"}) \/ failed
       \/ \E j \in Jobs : job[j].step = "replied" /\ job[j].answer = wanted
       \/ applied = wanted
  /\ pulls /\ ~overtaken => options = Adopted(applied)
  /\ applied <= wanted
  /\ \A j \in Jobs : IsOldAnswer(j)
  /\ Len(notices) <= wanted
  /\ \A i \in 1..Len(notices) : notices[i] = wanted - Len(notices) + i
  /\ ~pulls => IsNewestValid(options, wanted - Len(notices))

(* A document that does not follow the options in force, and was not       *)
(* inserted late, is about to be opened again.                             *)
IsReparsed(p) ==
  \/ Some({"configured", "watched"})
  \/ \E j \in Jobs : \/ job[j].step = "reparse" /\ p \in job[j].todo
                     \/ call[j].step = "insert" /\ call[j].file = p

OthersAreReparsed ==
  /\ \A p \in Keys \ late : Language(p) = "latex" /\ docs[p] # options => IsReparsed(p)
  /\ \A j \in Jobs : job[j].todo # {} => job[j].step = "reparse"

(* What a document leads to is a document, or is being loaded.             *)
TargetsAreLoaded ==
  \A p \in Keys : \A q \in Children[p][docs[p]] :
    Language(q) # "none" => q \in Keys \/ \E l \in loads : l.target = q

(* The LaTeX files of the first n folders above p are there, or coming.    *)
AreLoaded(p, n) ==
  \A i \in 1..n : \A f \in Files :
    Language(f) = "latex" /\ PathOf[f].folder = Above[PathOf[p].folder][i] =>
      f \in Keys \/ \E l \in loads : l.target = f

IsSought(p) ==
  \/ Some({"configured", "watched"})
  \/ \E j \in Jobs : job[j].step = "reparse" /\ p \in job[j].todo
  \/ \E o \in Openers : call[o].step # "idle" /\ call[o].file = p

(* For a document the client has opened, a root is or will be sought, or   *)
(* one was found for good, or all the folders were searched.               *)
ParentsAreSought ==
  /\ \A o \in Openers : call[o].step # "idle" => AreLoaded(call[o].file, call[o].level)
  /\ \A p \in Editable \ toOpen :
       /\ p \in Keys \/ (call[Main].step = "insert" /\ call[Main].file = p)
       /\ \/ p \in astray \/ IsSought(p)
          \/ AreLoaded(p, Len(Above[PathOf[p].folder])) \/ FoundForGood(p)

(* A folder to watch is watched, or a job or the main thread comes to it.  *)
IsOpening(p) == call[Main].step # "idle" /\ call[Main].file = p /\ call[Main].level = 0

FoldersGetWatched ==
  /\ AuxFolder(options) \subseteq watched \cup refused \/ Some({"configured"})
  /\ \A p \in Editable \ toOpen : PathOf[p].folder \in watched \cup refused \/ IsOpening(p)

IInv ==
  /\ TypeOK
  /\ NewestComes
  /\ OthersAreReparsed
  /\ TargetsAreLoaded
  /\ ParentsAreSought
  /\ FoldersGetWatched
=============================================================================
