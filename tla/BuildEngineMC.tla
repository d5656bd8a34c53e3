--------------------------- MODULE BuildEngineMC ---------------------------
(* Model values for the run of BuildEngine: a build request and a build on *)
(* save that are called at the same time.                                  *)
EXTENDS BuildEngine

CONSTANTS request, save

TwoBuilds == {request, save}
=============================================================================
