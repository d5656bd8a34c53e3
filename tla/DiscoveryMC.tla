----------------------------- MODULE DiscoveryMC -----------------------------
(* A project for the run of Discovery. /p/main.tex includes ch/one and has  *)
(* the bibliography refs; the subfile /p/ch/one.tex names ../main, relative *)
(* to itself, and refs, relative to /p, which is right once the root        *)
(* directory is set. The client opens /p/ch/one.tex. The last of the three  *)
(* configurations cannot be read.                                           *)
EXTENDS Discovery

CONSTANTS main, one, refs, root, chapters, build, j1, j2, j3

TheFiles == {main, one, refs}
TheJobs == {j1, j2, j3}
TheEditable == {one}
TheFolders ==
  (root :> << root >>) @@ (chapters :> << chapters, root >>) @@
  (build :> << build, root >>)
TheDirs ==
  (<< root, "." >> :> root) @@ (<< root, "ch" >> :> chapters) @@
  (<< chapters, "." >> :> chapters) @@ (<< chapters, ".." >> :> root)

ThePaths ==
  (main :> Path(root, "main", "tex")) @@
  (one :> Path(chapters, "one", "tex")) @@
  (refs :> Path(root, "refs", "bib"))

Link(kind, dir, name) == [kind |-> kind, stem |-> [dir |-> dir, name |-> name]]

TheContent ==
  (main :> [links |-> << Link("latex", "ch", "one"), Link("bibtex", ".", "refs") >>, document |-> TRUE]) @@
  (one :> [links |-> << Link("class", ".", "subfiles"), Link("latex", "..", "main"),
                        Link("bibtex", ".", "refs") >>, document |-> TRUE]) @@
  (refs :> [links |-> <<>>, document |-> FALSE])

NoRoot(folder) == [root |-> None, aux |-> folder]
TheOptions == 0 :> NoRoot(None) @@ 1 :> [root |-> root, aux |-> build] @@ 2 :> NoRoot(None)
TheDistro == [k \in {} |-> main]
TheKnown == {Subfiles}
TheValid == {0, 1}
TheFragile == {chapters, build}

(* The bound: once the client has opened the file, its configuration        *)
(* changes at most once, no pull fails and no reply overtakes another, and  *)
(* the configuration does not change when a folder cannot be watched.       *)
(* Before, nothing else is bounded.                                         *)
FewChanges ==
  \/ one \in toOpen
  \/ /\ wanted <= 1 /\ job[j3].step = "none" /\ ~failed /\ ~overtaken
     /\ refused = {} \/ wanted = 0
=============================================================================
