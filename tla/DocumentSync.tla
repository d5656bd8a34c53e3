---------------------------- MODULE DocumentSync ----------------------------
(***************************************************************************)
(* The texts the workspace keeps, and the four threads that write them:    *)
(* the main thread (didOpen, didChange, didClose), the file watcher        *)
(* (Workspace::reload), a thread that loads a linked file                  *)
(* (Workspace::load) and a pool job that reparses everything               *)
(* (reparse_all).  Each of them reads something, parses for a while        *)
(* without a lock, and then inserts; the maps are locked one access at a   *)
(* time only.  DocumentWatcher has the folder of a document watched once   *)
(* the document is in the maps, not before.                                *)
(*                                                                         *)
(* A text is a number: every edit and every write to disk makes a new one. *)
(***************************************************************************)
EXTENDS Naturals, Sequences

CONSTANTS
  Edited,     \* files the editor may open
  Logs,       \* build logs (".log"), which are reloaded even when open
  Others,     \* further files on disk, e.g. .aux
  Folders,    \* the folders with these files
  FolderOf,   \* file -> its folder
  MaxText,    \* bound: texts made by edits and writes to disk
  MaxWire,    \* bound: notifications on their way to the server
  Reparses,   \* bound: runs of reparse_all
  Absent,     \* no such document, or no such text
  Garbled     \* an edit applied to a text it was not made on

Files == Edited \cup Logs \cup Others

ASSUME FileKindsDiffer ==
  Edited \cap Logs = {} /\ Edited \cap Others = {} /\ Logs \cap Others = {}
ASSUME FilesHaveFolders == FolderOf \in [Files -> Folders] /\ Absent \notin Folders
ASSUME BoundsAreNat == MaxText \in Nat /\ MaxWire \in Nat /\ Reparses \in Nat
ASSUME NoTextIsANumber == Absent \notin Nat /\ Garbled \notin Nat /\ Absent # Garbled

Texts == 0..MaxText
Threads == {"main", "watcher", "loader", "reparser"}

VARIABLES
  disk,     \* file -> its text on disk
  buffer,   \* file -> its text in the editor, or Absent when not open there
  last,     \* the newest text made
  wire,     \* didOpen, didChange and didClose not yet handled
  events,   \* files with a modification the watcher has not handled
  docs,     \* Storage.documents_by_uri: file -> text
  opened,   \* Storage.opened_documents
  job,      \* thread -> what it is about to write
  snapshot, \* what the running reparse_all still has to open
  reparses, \* runs of reparse_all so far
  tainted,  \* (history) files a late write has gone to: see Store
  watched,  \* DocumentWatcher.watched_paths
  watching, \* thread -> the folder it is about to watch, or Absent
  missed    \* (history) files written when their text was known already,
            \* and their folder not watched yet

watchVars == <<watched, watching, missed>>
vars ==
  <<disk, buffer, last, wire, events, docs, opened, job, snapshot, reparses, tainted, watchVars>>
worldVars == <<disk, buffer, last>>
serverVars == <<docs, opened, job, tainted>>

Idle == [stage |-> "idle"]

(* stage checked: it may write, but has not read yet; read: the text to    *)
(* write is fixed; stored: written, the opened set is not updated yet.     *)
(* late: another thread has written the file since the check or the read.  *)
Work(s, f, t) == [stage |-> s, file |-> f, text |-> t, late |-> FALSE]

WorkSet ==
  [stage : {"checked", "read", "stored"}, file : Files,
   text : Texts \cup {Absent, Garbled}, late : BOOLEAN]

Message(k, f, b, t) == [kind |-> k, file |-> f, base |-> b, text |-> t]

MessageSet ==
  [kind : {"open", "change", "close"}, file : Edited,
   base : Texts \cup {Absent}, text : Texts \cup {Absent}]

(* What reparse_all has collected: a text, and whether it is still current.*)
SnapshotSet == [text : Texts \cup {Absent, Garbled}, late : BOOLEAN]
Nothing == [text |-> Absent, late |-> FALSE]

TextsTyped ==
  /\ disk \in [Files -> Texts]
  /\ buffer \in [Edited -> Texts \cup {Absent}]
  /\ last \in Texts
  /\ wire \in Seq(MessageSet)
  /\ events \in SUBSET Files
  /\ docs \in [Files -> Texts \cup {Absent, Garbled}]
  /\ opened \in SUBSET Files
  /\ job \in [Threads -> WorkSet \cup {Idle}]
  /\ \A th \in Threads : job[th] # Idle => (job[th].text = Absent <=> job[th].stage = "checked")
  /\ snapshot \in [Files -> SnapshotSet]
  /\ reparses \in 0..Reparses
  /\ tainted \in SUBSET Files

WatchTyped ==
  /\ watched \in SUBSET Folders
  /\ watching \in [Threads -> Folders \cup {Absent}]
  /\ missed \in SUBSET Files

TypeOK == TextsTyped /\ WatchTyped

Init ==
  /\ disk = [f \in Files |-> 0]
  /\ buffer = [f \in Edited |-> Absent]
  /\ last = 0
  /\ wire = <<>>
  /\ events = {}
  /\ docs = [f \in Files |-> Absent]
  /\ opened = {}
  /\ job = [th \in Threads |-> Idle]
  /\ snapshot = [f \in Files |-> Nothing]
  /\ reparses = 0
  /\ tainted = {}
  /\ watched = {}
  /\ watching = [th \in Threads |-> Absent]
  /\ missed = {}

-----------------------------------------------------------------------------
(* The editor and the other programs that write files.                     *)

Send(m) == Len(wire) < MaxWire /\ wire' = Append(wire, m)

EditorOpen(f) ==
  /\ buffer[f] = Absent
  /\ buffer' = [buffer EXCEPT ![f] = disk[f]]
  /\ Send(Message("open", f, Absent, disk[f]))
  /\ UNCHANGED <<disk, last, events, serverVars, snapshot, reparses, watchVars>>

(* An edit is sent as a range of the old text and its replacement, or as   *)
(* the whole new text (base Absent).                                       *)
EditorChange(f) ==
  /\ buffer[f] # Absent /\ last < MaxText
  /\ last' = last + 1
  /\ buffer' = [buffer EXCEPT ![f] = last + 1]
  /\ \E base \in {buffer[f], Absent} : Send(Message("change", f, base, last + 1))
  /\ UNCHANGED <<disk, events, serverVars, snapshot, reparses, watchVars>>

(* notify reports a modification in a folder that is watched by then.      *)
Modify(f, text) ==
  /\ disk' = [disk EXCEPT ![f] = text]
  /\ events' = IF FolderOf[f] \in watched THEN events \cup {f} ELSE events

EditorSave(f) ==
  /\ buffer[f] # Absent /\ disk[f] # buffer[f]
  /\ Modify(f, buffer[f])
  /\ UNCHANGED <<buffer, last, wire, serverVars, snapshot, reparses, watchVars>>

EditorClose(f) ==
  /\ buffer[f] # Absent
  /\ buffer' = [buffer EXCEPT ![f] = Absent]
  /\ Send(Message("close", f, Absent, Absent))
  /\ UNCHANGED <<disk, last, events, serverVars, snapshot, reparses, watchVars>>

(* The workspace has a text of f, or a thread has read one.                *)
Known(f) == docs[f] # Absent \/ \E th \in Threads : job[th].stage = "read" /\ job[th].file = f

WriteDisk(f) ==
  /\ last < MaxText
  /\ last' = last + 1
  /\ Modify(f, last + 1)
  /\ missed' = IF FolderOf[f] \notin watched /\ f \notin Edited /\ Known(f)
                 THEN missed \cup {f} ELSE missed
  /\ UNCHANGED <<buffer, wire, serverVars, snapshot, reparses, watched, watching>>

World ==
  \/ \E f \in Edited : EditorOpen(f) \/ EditorChange(f) \/ EditorSave(f) \/ EditorClose(f)
  \/ \E f \in Files : WriteDisk(f)

-----------------------------------------------------------------------------
(* Storage::open, called by every thread: the document is inserted, then,  *)
(* for WorkspaceSource::Client, the file is added to the opened set.       *)
(* DocumentWatcher::open, when that has returned, watches the folder: the  *)
(* watcher itself and the handler that loads children call Storage alone.  *)

Free(th) == job[th] = Idle /\ watching[th] = Absent

(* DocumentWatcher::watch, which does nothing for a watched folder.        *)
ThenWatch(th, f) ==
  watching' = [watching EXCEPT ![th] = IF FolderOf[f] \in watched THEN Absent ELSE FolderOf[f]]

(* The others that are at work on f are late from now on.                  *)
MakeLate(jobs, f, threads) ==
  [th \in Threads |->
    IF th \in threads /\ jobs[th] # Idle /\ jobs[th].file = f
      THEN [jobs[th] EXCEPT !.late = TRUE] ELSE jobs[th]]

(* Storage::open of the main thread has inserted f and not marked it yet.  *)
MainBetween(f) == job["main"].stage = "stored" /\ job["main"].file = f

(* The insertion. A late one taints the file, and so does one that comes   *)
(* between the two steps of the main thread; but the watcher's is the last *)
(* word about a log, which only the disk changes: were its text old, there *)
(* would be another event. The loader is done now (children_expand.rs), or *)
(* goes on to watch the folder (parent_expand.rs).                         *)
Store(th) ==
  /\ job[th].stage = "read"
  /\ LET f == job[th].file IN
       /\ docs' = [docs EXCEPT ![f] = job[th].text]
       /\ job' = [MakeLate(job, f, Threads \ {th}) EXCEPT ![th] =
                    IF th \in {"main", "reparser"}
                      THEN [job[th] EXCEPT !.stage = "stored"] ELSE Idle]
       /\ snapshot' = [snapshot EXCEPT ![f].late = snapshot[f].text # Absent]
       /\ tainted' = IF th = "watcher" /\ f \in Logs THEN tainted \ {f}
                     ELSE IF job[th].late \/ (th # "main" /\ MainBetween(f))
                            THEN tainted \cup {f} ELSE tainted
       /\ missed' = IF th = "watcher" THEN missed \ {f} ELSE missed
       /\ \/ UNCHANGED watching
          \/ th = "loader" /\ ThenWatch(th, f)
  /\ UNCHANGED <<worldVars, wire, events, opened, reparses, watched>>

(* A reload that has passed its check before this is late, too.            *)
Mark(th) ==
  /\ job[th].stage = "stored"
  /\ opened' = opened \cup {job[th].file}
  /\ job' = [MakeLate(job, job[th].file, {"watcher"}) EXCEPT ![th] = Idle]
  /\ ThenWatch(th, job[th].file)
  /\ UNCHANGED <<worldVars, wire, events, docs, snapshot, reparses, tainted, watched, missed>>

(* Watching may fail, which is logged only.                                *)
WatchFolder(th) ==
  /\ watching[th] # Absent
  /\ watching' = [watching EXCEPT ![th] = Absent]
  /\ watched' \in {watched, watched \cup {watching[th]}}
  /\ UNCHANGED <<worldVars, wire, events, serverVars, snapshot, reparses, missed>>

-----------------------------------------------------------------------------
(* The main thread.                                                        *)

Received(k) == Free("main") /\ wire # <<>> /\ Head(wire).kind = k

(* The main thread will write text to f. A whole text ends a taint.        *)
Receive(f, text, whole) ==
  /\ job' = [job EXCEPT !["main"] = Work("read", f, text)]
  /\ tainted' = IF whole THEN tainted \ {f} ELSE tainted
  /\ wire' = Tail(wire)
  /\ UNCHANGED <<worldVars, events, docs, opened, snapshot, reparses, watchVars>>

TakeOpen ==
  /\ Received("open")
  /\ Receive(Head(wire).file, Head(wire).text, TRUE)

(* merge_text_changes: the range is cut out of the text the server has. (A *)
(* didChange for a file it has no document of cannot come from an editor   *)
(* that opens before it changes: documents never leave the workspace.)     *)
Merge(text, m) == IF m.base \in {Absent, text} THEN m.text ELSE Garbled

TakeChange ==
  /\ Received("change")
  /\ LET m == Head(wire) IN Receive(m.file, Merge(docs[m.file], m), m.base = Absent)

TakeClose ==
  /\ Received("close")
  /\ opened' = opened \ {Head(wire).file}
  /\ wire' = Tail(wire)
  /\ UNCHANGED <<worldVars, events, docs, job, snapshot, reparses, tainted, watchVars>>

Main ==
  \/ TakeOpen \/ TakeChange \/ TakeClose
  \/ Store("main") \/ Mark("main") \/ WatchFolder("main")

-----------------------------------------------------------------------------
(* The watcher thread: reload, for each modification in a watched folder.  *)

(* Mutant: the text is inserted without having been read.                  *)
WatchUnread(f) ==
  /\ job["watcher"] = Idle /\ f \in events
  /\ events' = events \ {f}
  /\ job' = IF f \in opened /\ f \notin Logs
              THEN job ELSE [job EXCEPT !["watcher"] = Work("read", f, Absent)]
  /\ UNCHANGED <<worldVars, wire, docs, opened, snapshot, reparses, tainted, watchVars>>

(* Mutant: open documents are reloaded, too.                               *)
WatchOpen(f) ==
  /\ job["watcher"] = Idle /\ f \in events
  /\ events' = events \ {f}
  /\ job' = [job EXCEPT !["watcher"] = Work("checked", f, Absent)]
  /\ UNCHANGED <<worldVars, wire, docs, opened, snapshot, reparses, tainted, watchVars>>

(* Mutant: a log that is marked open is not reloaded.                      *)
WatchClosedOnly(f) ==
  /\ job["watcher"] = Idle /\ f \in events
  /\ events' = events \ {f}
  /\ job' = IF f \in opened
              THEN job ELSE [job EXCEPT !["watcher"] = Work("checked", f, Absent)]
  /\ UNCHANGED <<worldVars, wire, docs, opened, snapshot, reparses, tainted, watchVars>>

WatchCheck(f) ==
  /\ job["watcher"] = Idle /\ f \in events
  /\ events' = events \ {f}
  /\ job' = IF f \in opened /\ f \notin Logs
              THEN job ELSE [job EXCEPT !["watcher"] = Work("checked", f, Absent)]
  /\ UNCHANGED <<worldVars, wire, docs, opened, snapshot, reparses, tainted, watchVars>>

(* fs::read.                                                               *)
ReadDisk(th) ==
  /\ job[th].stage = "checked"
  /\ job' = [job EXCEPT ![th].stage = "read", ![th].text = disk[job[th].file]]
  /\ UNCHANGED <<worldVars, wire, events, docs, opened, snapshot, reparses, tainted, watchVars>>

Watcher == (\E f \in Files : WatchCheck(f)) \/ ReadDisk("watcher") \/ Store("watcher")

(* A handler that loads the linked files of a document the pool reparses,  *)
(* or the parents of a document: only files without a document.            *)
LoadCheck(f) ==
  /\ Free("loader") /\ docs[f] = Absent
  /\ job' = [job EXCEPT !["loader"] = Work("checked", f, Absent)]
  /\ UNCHANGED <<worldVars, wire, events, docs, opened, snapshot, reparses, tainted, watchVars>>

Loader ==
  \/ \E f \in Files : LoadCheck(f)
  \/ ReadDisk("loader") \/ Store("loader") \/ WatchFolder("loader")

-----------------------------------------------------------------------------
(* A pool job that runs reparse_all: it collects all documents, then opens *)
(* each again with the text it has collected, as if the client had.        *)

(* Before it, the auxiliary directory is watched if the options name one,  *)
(* unless that fails.                                                      *)
WatchAux(folder) ==
  /\ Free("reparser") /\ \A f \in Files : snapshot[f] = Nothing
  /\ reparses < Reparses
  /\ watched' = watched \cup {folder}
  /\ UNCHANGED <<worldVars, wire, events, serverVars, snapshot, reparses, watching, missed>>

ReparseStart ==
  /\ Free("reparser") /\ \A f \in Files : snapshot[f] = Nothing
  /\ reparses < Reparses
  /\ reparses' = reparses + 1
  /\ snapshot' = [f \in Files |-> [text |-> docs[f], late |-> FALSE]]
  /\ UNCHANGED <<worldVars, wire, events, serverVars, watchVars>>

ReparseNext(f) ==
  /\ Free("reparser") /\ snapshot[f].text # Absent
  /\ job' = [job EXCEPT !["reparser"] =
               [Work("read", f, snapshot[f].text) EXCEPT !.late = snapshot[f].late]]
  /\ snapshot' = [snapshot EXCEPT ![f] = Nothing]
  /\ UNCHANGED <<worldVars, wire, events, docs, opened, reparses, tainted, watchVars>>

Reparser ==
  \/ \E folder \in Folders : WatchAux(folder)
  \/ ReparseStart \/ (\E f \in Files : ReparseNext(f))
  \/ Store("reparser") \/ Mark("reparser") \/ WatchFolder("reparser")

Next == World \/ Main \/ Watcher \/ Loader \/ Reparser

Spec == Init /\ [][Next]_vars

-----------------------------------------------------------------------------
(* Correctness.                                                            *)

InWire(f) == \E i \in DOMAIN wire : wire[i].file = f
AtWork(th, f) == job[th] # Idle /\ job[th].file = f
Settled(f) == ~InWire(f) /\ ~AtWork("main", f)

(* When the server has handled what the editor sent about an open file,    *)
(* its text is the editor's, so that the ranges of the next edit fit it:   *)
(* unless a thread that had read before the editor's text came wrote after *)
(* it. Nothing but such an overlap can go wrong, and it is forgotten when  *)
(* the editor sends a whole text.                                          *)
EditorInSync ==
  \A f \in Edited :
    buffer[f] # Absent /\ Settled(f) /\ f \notin tainted => docs[f] = buffer[f]

(* The incremental synchronisation the server announces (server.rs:97)     *)
(* needs this whatever the other threads do.                               *)
EditorAlwaysInSync ==
  \A f \in Edited : buffer[f] # Absent /\ Settled(f) => docs[f] = buffer[f]

Quiet(f) == f \notin events /\ \A th \in Threads : ~AtWork(th, f)

(* "Fix a bug that sometimes prevents log files from being reanalyzed": a  *)
(* log that is loaded is as it is on disk once its events are handled, be  *)
(* it marked open or not, unless a loader or reparse_all wrote late, or it *)
(* was written between the reading of its text and the watching of its     *)
(* folder and has not been reloaded since: such a write has no event.      *)
LogsFollowDisk ==
  \A f \in Logs : Quiet(f) /\ f \notin tainted \cup missed => docs[f] \in {Absent, disk[f]}

(* "Watch aux directory by default for changes": the same for a file that  *)
(* no editor ever opens and that is not a log.                             *)
OthersFollowDisk ==
  \A f \in Others : Quiet(f) /\ f \notin tainted \cup missed => docs[f] \in {Absent, disk[f]}
-----------------------------------------------------------------------------
(* The inductive invariant behind EditorInSync and LogsFollowDisk.         *)

(* The editor could send m about a file with this text, or about one that  *)
(* is not open when there is none.                                         *)
Fits(text, m) ==
  \/ m.kind = "open" /\ text = Absent /\ m.text # Absent
  \/ m.kind = "change" /\ text # Absent /\ m.base \in {text, Absent} /\ m.text # Absent
  \/ m.kind = "close" /\ text # Absent /\ m.text = Absent

NoneBetween(f, i, k) == \A j \in DOMAIN wire : i < j /\ j < k => wire[j].file # f
First(f, k) == k \in DOMAIN wire /\ wire[k].file = f /\ NoneBetween(f, 0, k)
Last(f, i) == i \in DOMAIN wire /\ wire[i].file = f /\ NoneBetween(f, i, Len(wire) + 1)

(* Each notification fits the one before about the same file, and the last *)
(* one leads to the text in the editor.                                    *)
WireFits ==
  /\ \A i \in DOMAIN wire : wire[i].kind = "close" <=> wire[i].text = Absent
  /\ \A i, k \in DOMAIN wire :
       i < k /\ wire[i].file = wire[k].file /\ NoneBetween(wire[i].file, i, k)
       => Fits(wire[i].text, wire[k])
  /\ \A f \in Edited, i \in DOMAIN wire : Last(f, i) => buffer[f] = wire[i].text

(* By what the server has taken from the wire, the editor has f open.      *)
KnownOpen(f) ==
  \/ ~InWire(f) /\ buffer[f] # Absent
  \/ \E k \in DOMAIN wire : First(f, k) /\ wire[k].kind # "open"

KnownIsOpened == \A f \in Edited : KnownOpen(f) => f \in opened \/ AtWork("main", f)

(* The text of f when the main thread is done with what it has taken.      *)
Handled(f) == IF AtWork("main", f) THEN job["main"].text ELSE docs[f]

(* The text the editor had when it sent the next notification, or has.     *)
IsEditors(f, text) ==
  /\ ~InWire(f) => buffer[f] = text
  /\ \A k \in DOMAIN wire :
       First(f, k) /\ wire[k].kind = "change" => wire[k].base \in {text, Absent}

ServerInStep ==
  \A f \in Edited : KnownOpen(f) /\ f \notin tainted => IsEditors(f, Handled(f))

MainWritesEdited ==
  job["main"] # Idle =>
    /\ job["main"].file \in Edited
    /\ job["main"].stage = "stored" /\ job["main"].file \notin tainted
       => docs[job["main"].file] = job["main"].text

(* What is not late has not been overtaken: the check still holds, or the  *)
(* text is still the one that was collected.                               *)
LateIsMarked ==
  /\ job["watcher"] # Idle /\ ~job["watcher"].late =>
       job["watcher"].file \in Logs \/ job["watcher"].file \notin opened
  /\ job["loader"] # Idle /\ ~job["loader"].late => docs[job["loader"].file] = Absent
  /\ job["reparser"].stage = "read" /\ ~job["reparser"].late =>
       docs[job["reparser"].file] = job["reparser"].text
  /\ \A f \in Files :
       snapshot[f].text # Absent /\ ~snapshot[f].late => docs[f] = snapshot[f].text

(* A log whose text on disk is not the one that was read has an event, or  *)
(* the watcher is about to read or write it, or the change was missed.     *)
LogsHaveEvents ==
  \A f \in Logs : f \notin events =>
    /\ AtWork("watcher", f) /\ job["watcher"].stage = "read" => job["watcher"].text = disk[f]
    /\ ~AtWork("watcher", f) /\ f \notin missed =>
         /\ f \notin tainted => docs[f] \in {Absent, disk[f]}
         /\ AtWork("loader", f) /\ job["loader"].stage = "read" /\ ~job["loader"].late
              => job["loader"].text = disk[f]

(* Only files in watched folders have events and are reloaded.             *)
EventsAreWatched ==
  \A f \in Files : f \in events \/ AtWork("watcher", f) => FolderOf[f] \in watched

SyncInv ==
  /\ TextsTyped
  /\ WireFits
  /\ KnownIsOpened
  /\ ServerInStep
  /\ MainWritesEdited
  /\ LateIsMarked
  /\ LogsHaveEvents

IInv == SyncInv /\ WatchTyped /\ EventsAreWatched
=============================================================================
