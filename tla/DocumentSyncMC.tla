--------------------------- MODULE DocumentSyncMC ---------------------------
(* Model values for the runs of DocumentSync: one file the editor opens,   *)
(* one build log and one .aux file, in one folder.                         *)
EXTENDS DocumentSync

CONSTANTS tex, log, aux, dir

TexOnly == {tex}
LogOnly == {log}
AuxOnly == {aux}
Nobody == {}

OneFolder == {dir}
InOneFolder == [f \in Files |-> dir]

(* The bound of the safety run: the first new text may come at any time,    *)
(* the second one when the folder is watched, and not while a file is       *)
(* loaded after reparse_all has begun.                                      *)
SecondText ==
  last <= 1 \/ (watched = Folders /\ (reparses = 0 \/ job["loader"] = Idle))
=============================================================================
