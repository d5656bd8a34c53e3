---------------------------- MODULE DiagnosticsMC ----------------------------
(* Model values for the runs of Diagnostics.                               *)
EXTENDS Diagnostics

CONSTANTS tex, bib

TwoFiles == {tex, bib}
OneFile == {tex}
=============================================================================
