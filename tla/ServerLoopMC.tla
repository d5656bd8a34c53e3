---------------------------- MODULE ServerLoopMC ----------------------------
(* Model values for the runs of ServerLoop: a completionItem/resolve whose *)
(* handler panics, a build request, a build on save and a configuration    *)
(* change. Each run takes the subset its question needs.                   *)
EXTENDS ServerLoop

CONSTANTS resolve, tokens, build, save, config, startup

ResolveOnly == {resolve}
TokensOnly == {tokens}
PlainOnes == {resolve, tokens}
BuildOne == {build}
SaveOne == {save}
ConfigOne == {config}
Nobody == {}

(* The bound of the safety run: what the client asks for besides the build. *)
OneBesidesBuild == Cardinality(sent \ Builds) <= 1
=============================================================================
