---------------------------- MODULE BuildContract ----------------------------
(***************************************************************************)
(* What the build engine promises a client, with nothing of its threads,   *)
(* pipes and channels: builds take turns; a build begins its progress,     *)
(* shows lines and ends its progress, in this order and nothing after it;  *)
(* of each stream a prefix is shown, line by line.                         *)
(* BuildEngine implements this specification.                              *)
(***************************************************************************)
EXTENDS Naturals, Sequences

CONSTANTS
  Builds,   \* calls of BuildEngine::build
  Streams,  \* the outputs of a TeX process
  MaxLines  \* bound: lines a process writes

VARIABLES
  progress, \* the client supports window/workDoneProgress
  stage,    \* how far each build is
  seen      \* what the client has been sent, over all builds

vars == <<progress, stage, seen>>

(* Nothing of the build, or nothing more of it, happens at these stages.   *)
Resting == {"called", "returned"}

Notice(b, k) == [build |-> b, kind |-> k, line |-> <<>>]
LogNotice(b, s, n) == [build |-> b, kind |-> "log", line |-> [stream |-> s, number |-> n]]

LinesShown(b, s) == {n \in 1..MaxLines : \E i \in DOMAIN seen : seen[i] = LogNotice(b, s, n)}

Init ==
  /\ progress \in BOOLEAN
  /\ stage = [b \in Builds |-> "called"]
  /\ seen = <<>>

Advance(b, from, to) == stage[b] = from /\ stage' = [stage EXCEPT ![b] = to]

(* The progress is announced to a client that shows it, and to no other.   *)
Announce(notice) == seen' = IF progress THEN Append(seen, notice) ELSE seen

Start(b) ==
  /\ Advance(b, "called", "started")
  /\ \A c \in Builds : stage[c] \in Resting
  /\ UNCHANGED <<progress, seen>>

(* The document is none that is built: the client sees nothing of it.      *)
Refuse(b) == Advance(b, "started", "over") /\ UNCHANGED <<progress, seen>>

Begin(b) ==
  /\ Advance(b, "started", "running")
  /\ Announce(Notice(b, "begin"))
  /\ UNCHANGED progress

(* The next line of a stream: the first one or the successor of the last.  *)
Show(b, s, n) ==
  /\ stage[b] = "running"
  /\ LinesShown(b, s) = 1..n - 1
  /\ seen' = Append(seen, LogNotice(b, s, n))
  /\ UNCHANGED <<progress, stage>>

(* The process has ended or could not be started, or the client has no     *)
(* token to give: what comes now is the end of the progress.               *)
Stop(b) ==
  /\ Advance(b, "started", "ending") \/ Advance(b, "running", "ending")
  /\ UNCHANGED <<progress, seen>>

End(b) ==
  /\ Advance(b, "ending", "over")
  /\ Announce(Notice(b, "end"))
  /\ UNCHANGED progress

Return(b) == Advance(b, "over", "returned") /\ UNCHANGED <<progress, seen>>

Next ==
  \E b \in Builds :
    \/ Start(b) \/ Refuse(b) \/ Begin(b) \/ Stop(b) \/ End(b) \/ Return(b)
    \/ \E s \in Streams, n \in 1..MaxLines : Show(b, s, n)

Spec == Init /\ [][Next]_vars
=============================================================================
