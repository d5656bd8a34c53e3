-------------------------------- MODULE Links --------------------------------
(***************************************************************************)
(* The links between documents: where a document's \include, \usepackage,  *)
(* \bibliography and \import commands and its .aux and .log files lead     *)
(* under the options in force, which documents form a project, and which   *)
(* of them is its root.                                                    *)
(*                                                                         *)
(* A file is a model value with a path, a record of folder, name and       *)
(* extension. Where the links of a document lead depends on the version of *)
(* the options it was parsed with.                                         *)
(***************************************************************************)
EXTENDS Naturals, Sequences, FiniteSets, SequencesExt

CONSTANTS
  Above,     \* folder -> the folders from itself up to the root
  Below,     \* <<folder, directory of a stem>> -> folder
  Files,     \* the files on disk
  PathOf,    \* file -> path
  Content,   \* file -> [links |-> links in order, document |-> has a document environment]
  Options,   \* version -> [root |-> folder or None, aux |-> folder or None]; version 0 is the default
  Distro,    \* file name without folder -> path, for the files of the TeX distribution
  Known,     \* component names in the component database
  None,      \* an option that is not set
  Absent     \* no such document

Folders == DOMAIN Above
Versions == DOMAIN Options
Path(folder, name, ext) == [folder |-> folder, name |-> name, ext |-> ext]

(* DocumentLanguage::by_extension. *)
Language(f) ==
  CASE PathOf[f].ext \in {"tex", "sty", "cls", "aux"} -> "latex"
    [] PathOf[f].ext = "bib" -> "bibtex"
    [] PathOf[f].ext = "log" -> "build_log"
    [] OTHER -> "none"

-----------------------------------------------------------------------------
(* What Document::parse finds with a version of the options.               *)

(* The folder relative stems are resolved in: the root directory, or that  *)
(* of the document.                                                        *)
BaseFolder(f, version) ==
  IF Options[version].root = None THEN PathOf[f].folder ELSE Options[version].root

ExtensionOf == [latex |-> "tex", bibtex |-> "bib", package |-> "sty", class |-> "cls", import |-> "tex"]

(* The stem as it is, then with the extension. A stem is [dir, name].      *)
Candidates(base, stem, ext) ==
  IF << base, stem.dir >> \notin DOMAIN Below THEN <<>>
  ELSE LET folder == Below[<< base, stem.dir >>]
       IN  << Path(folder, stem.name, "none"), Path(folder, stem.name, ext) >>

(* resolve_distro_file: the whole stem is looked up, so only a plain name  *)
(* can be found.                                                           *)
DistroFile(stem, ext) ==
  LET found == SelectSeq(<< [name |-> stem.name, ext |-> "none"], [name |-> stem.name, ext |-> ext] >>,
                         LAMBDA key : key \in DOMAIN Distro)
  IN  IF stem.dir # "." \/ found = <<>> THEN <<>> ELSE << Distro[Head(found)] >>

ExplicitTargets(f, link, version) ==
  LET ext == ExtensionOf[link.kind]
      base == BaseFolder(f, version)
  IN  IF link.kind = "import"
        THEN Candidates(Below[<< base, link.directory >>], link.stem, ext)
        ELSE Candidates(base, link.stem, ext) \o DistroFile(link.stem, ext)

(* find_by_extension: next to the document, in the root directory and in   *)
(* the aux directory.                                                      *)
ImplicitTargets(f, ext, version) ==
  LET o == Options[version]
      places == << PathOf[f].folder >> \o SelectSeq(<< o.root, o.aux >>, LAMBDA folder : folder # None)
  IN  [i \in DOMAIN places |-> Path(places[i], PathOf[f].name, ext)]

(* The files with the paths of the targets.                                *)
OnDisk(targets) ==
  [i \in DOMAIN targets |->
    LET there == {f \in Files : PathOf[f] = targets[i]}
    IN  IF there = {} THEN None ELSE CHOOSE f \in there : TRUE]

ComponentName(link) ==
  IF link.kind \in {"package", "class"}
    THEN [name |-> link.stem.name, ext |-> ExtensionOf[link.kind]] ELSE None

(* The target lists of a document, the implicit ones first, as a table. A  *)
(* target that is no file cannot be loaded, and no document either.        *)
Lists ==
  [f \in Files |-> [v \in Versions |->
    IF Language(f) # "latex" THEN <<>>
    ELSE << OnDisk(ImplicitTargets(f, "aux", v)), OnDisk(ImplicitTargets(f, "log", v)) >>
           \o [i \in DOMAIN Content[f].links |-> OnDisk(ExplicitTargets(f, Content[f].links[i], v))]]]

(* ChildrenExpander::expand leaves out components of the database.         *)
Followed(f, version) ==
  {i \in DOMAIN Lists[f][version] : i <= 2 \/ ComponentName(Content[f].links[i - 2]) \notin Known}

(* The first of the targets that is among some files.                      *)
FirstIn(targets, files) ==
  {f \in files : \E i \in DOMAIN targets :
                   targets[i] = f /\ \A k \in 1..i - 1 : targets[k] \notin files}

(* A list is loaded from its first target that can be read.                *)
Children ==
  [f \in Files |-> [v \in Versions |-> UNION {FirstIn(Lists[f][v][i], Files) : i \in Followed(f, v)}]]

(* Where the links lead when every file they lead to is a document.        *)
Destinations ==
  [f \in Files |-> [v \in Versions |-> UNION {FirstIn(targets, Files) : targets \in ToSet(Lists[f][v])}]]

-----------------------------------------------------------------------------
(* Storage::subset: the documents connected with a document, where a link  *)
(* leads to the first of its targets that is a document. keys are the      *)
(* documents at the time the search began.                                 *)
LinksTo(docs, keys, f) == UNION {FirstIn(targets, keys) : targets \in ToSet(Lists[f][docs[f]])}

LinksAmong(docs, keys) == UNION {{f} \X LinksTo(docs, keys, f) : f \in keys}

(* What is in every set with start that no link leaves or enters.          *)
ClosedUnder(links, keys, start) ==
  {some \in SUBSET keys : start \in some /\ \A e \in links : e[1] \in some <=> e[2] \in some}

Connected(keys, links, start) ==
  LET closed == ClosedUnder(links, keys, start)
  IN  {f \in keys : \A some \in closed : f \in some}

Subset(docs, keys, start) ==
  IF start \in keys THEN Connected(keys, LinksAmong(docs, keys), start) ELSE {}

(* A root document: it has a document environment and is not a subfile.    *)
Subfiles == [name |-> "subfiles", ext |-> "cls"]
IsRoot(f) ==
  /\ Language(f) = "latex" /\ Content[f].document
  /\ \A i \in DOMAIN Content[f].links : ComponentName(Content[f].links[i]) # Subfiles

HasParent(docs, keys, f) == \E g \in Subset(docs, keys, f) : IsRoot(g)
=============================================================================
