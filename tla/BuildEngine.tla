---------------------------- MODULE BuildEngine ----------------------------
(***************************************************************************)
(* BuildEngine::build: one TeX process at a time, its output shown to the  *)
(* client while it runs.  Four threads and a process take part in a build: *)
(* the pool's worker that runs `build`, a tracker for each of the two      *)
(* pipes, and the log thread that forwards the lines.                      *)
(*                                                                         *)
(* A line of output is its stream and its number in the stream.  What      *)
(* `build` returns is left out: it is the exit status of the process.      *)
(***************************************************************************)
EXTENDS Naturals, Sequences, FiniteSets, SequencesExt

CONSTANTS
  Builds,    \* calls of BuildEngine::build
  PipeSize,  \* lines a pipe holds before its writer waits
  MaxLines,  \* bound: lines a process writes
  NoBuild    \* the lock is free

Streams == {"stdout", "stderr"}

ASSUME SizesAreNat == PipeSize \in Nat \ {0} /\ MaxLines \in Nat
ASSUME NoBuildIsNone == NoBuild \notin Builds

VARIABLES
  progress, \* the client supports window/workDoneProgress
  lock,     \* BuildEngine.lock
  phase,    \* where the worker of each build is
  process,  \* the TeX process of each build
  script,   \* the streams the process still writes a line to, in order
  written,  \* lines it has written, by stream
  pipe,     \* stream -> lines in the pipe
  tracker,  \* stream -> its tracker
  log,      \* the channel from the trackers to the log thread
  logger,   \* the log thread
  signal,   \* the exit channel holds its message
  seen      \* what the client has been sent, over all builds

buildVars == <<phase, lock>>
processVars == <<process, script, written>>
outputVars == <<pipe, tracker, log, logger, signal>>
vars == <<progress, buildVars, processVars, outputVars, seen>>

Line(s, n) == [stream |-> s, number |-> n]
LineSet == [stream : Streams, number : 1..MaxLines]

Notice(b, k) == [build |-> b, kind |-> k, line |-> <<>>]
LogNotice(b, line) == [build |-> b, kind |-> "log", line |-> line]
NoticeSet ==
  [build : Builds, kind : {"begin", "end"}, line : {<<>>}]
  \cup [build : Builds, kind : {"log"}, line : LineSet]

(* Where the worker is before there is a process.                          *)
Early == {"called", "checking", "creating", "spawning"}

TypeOK ==
  /\ progress \in BOOLEAN
  /\ lock \in Builds \cup {NoBuild}
  /\ \A b \in Builds : lock = b <=> phase[b] \notin {"called", "returned"}
  /\ phase \in [Builds -> Early \cup {"waiting", "joining", "reporting", "unlocking", "returned"}]
  /\ process \in [Builds -> {"none", "running", "ended"}]
  /\ script \in [Builds -> Seq(Streams)]
  /\ written \in [Builds -> [Streams -> 0..MaxLines]]
  /\ \A b \in Builds : Len(script[b]) + written[b]["stdout"] + written[b]["stderr"] <= MaxLines
  /\ pipe \in [Builds -> [Streams -> Seq(LineSet)]]
  /\ \A b \in Builds, s \in Streams : Len(pipe[b][s]) <= PipeSize
  /\ tracker \in [Builds -> [Streams -> {"none", "reading", "ended", "panicked"}]]
  /\ log \in [Builds -> Seq(LineSet)]
  /\ logger \in [Builds -> {"none", "running", "ended"}]
  /\ signal \in [Builds -> BOOLEAN]
  /\ seen \in Seq(NoticeSet)

Init ==
  /\ progress \in BOOLEAN
  /\ lock = NoBuild
  /\ phase = [b \in Builds |-> "called"]
  /\ process = [b \in Builds |-> "none"]
  /\ script = [b \in Builds |-> <<>>]
  /\ written = [b \in Builds |-> [s \in Streams |-> 0]]
  /\ pipe = [b \in Builds |-> [s \in Streams |-> <<>>]]
  /\ tracker = [b \in Builds |-> [s \in Streams |-> "none"]]
  /\ log = [b \in Builds |-> <<>>]
  /\ logger = [b \in Builds |-> "none"]
  /\ signal = [b \in Builds |-> FALSE]
  /\ seen = <<>>

-----------------------------------------------------------------------------
(* The worker that runs `build`.                                           *)

Goto(b, from, to) == phase[b] = from /\ phase' = [phase EXCEPT ![b] = to]

Lock(b) ==
  /\ Goto(b, "called", "checking")
  /\ lock = NoBuild /\ lock' = b
  /\ UNCHANGED <<progress, processVars, outputVars, seen>>

(* A document that is not LaTeX, or not a file, is not built: no progress  *)
(* reporter exists yet. Otherwise the client is asked for a progress token *)
(* if it supports them.                                                    *)
Check(b) ==
  /\ \/ Goto(b, "checking", "unlocking")
     \/ Goto(b, "checking", IF progress THEN "creating" ELSE "spawning")
  /\ UNCHANGED <<progress, lock, processVars, outputVars, seen>>

(* The client's reply: an error ends the build, and the reporter is dropped*)
(* although it has announced nothing.                                      *)
Create(b) ==
  /\ \/ Goto(b, "creating", "spawning") /\ seen' = Append(seen, Notice(b, "begin"))
     \/ Goto(b, "creating", "reporting") /\ UNCHANGED seen
  /\ UNCHANGED <<progress, lock, processVars, outputVars>>

SpawnFails(b) ==
  /\ Goto(b, "spawning", "reporting")
  /\ UNCHANGED <<progress, lock, processVars, outputVars, seen>>

(* Mutant: only the standard output has a tracker.                         *)
CaptureStdout(b) ==
  /\ tracker' = [tracker EXCEPT ![b]["stdout"] = "reading"]
  /\ logger' = [logger EXCEPT ![b] = "running"]

(* capture_output starts a thread for each pipe and the log thread.        *)
CaptureOutput(b) ==
  /\ tracker' = [tracker EXCEPT ![b] = [s \in Streams |-> "reading"]]
  /\ logger' = [logger EXCEPT ![b] = "running"]

Spawn(b) ==
  /\ Goto(b, "spawning", "waiting")
  /\ process' = [process EXCEPT ![b] = "running"]
  /\ script' \in {[script EXCEPT ![b] = streams] : streams \in SeqOf(Streams, MaxLines)}
  /\ CaptureOutput(b)
  /\ UNCHANGED <<progress, lock, written, pipe, log, signal, seen>>

(* process.wait returns; the log thread is told.                           *)
Wait(b) ==
  /\ Goto(b, "waiting", "joining")
  /\ process[b] = "ended"
  /\ signal' = [signal EXCEPT ![b] = TRUE]
  /\ UNCHANGED <<progress, lock, processVars, pipe, tracker, log, logger, seen>>

(* Mutant: the log thread is told to end, not waited for.                  *)
GoOn(b) ==
  /\ Goto(b, "joining", "reporting")
  /\ UNCHANGED <<progress, lock, processVars, outputVars, seen>>

JoinLogger(b) ==
  /\ Goto(b, "joining", "reporting")
  /\ logger[b] = "ended"
  /\ UNCHANGED <<progress, lock, processVars, outputVars, seen>>

(* Mutant: a path on which the reporter is not dropped.                    *)
ForgetReporter(b) ==
  /\ Goto(b, "reporting", "unlocking")
  /\ UNCHANGED <<progress, lock, processVars, outputVars, seen>>

(* ProgressReporter::drop, on every path out of `build` after its creation.*)
DropReporter(b) ==
  /\ Goto(b, "reporting", "unlocking")
  /\ seen' = IF progress THEN Append(seen, Notice(b, "end")) ELSE seen
  /\ UNCHANGED <<progress, lock, processVars, outputVars>>

Unlock(b) ==
  /\ Goto(b, "unlocking", "returned")
  /\ lock' = NoBuild
  /\ UNCHANGED <<progress, processVars, outputVars, seen>>

Worker(b) ==
  \/ Lock(b) \/ Check(b) \/ Create(b) \/ SpawnFails(b) \/ Spawn(b)
  \/ Wait(b) \/ JoinLogger(b) \/ DropReporter(b) \/ Unlock(b)

-----------------------------------------------------------------------------
(* The TeX process: a sequential program that writes lines and waits while *)
(* the pipe it writes to is full.                                          *)

WriteLine(b) ==
  /\ process[b] = "running" /\ script[b] # <<>>
  /\ LET s == Head(script[b]) IN
       /\ Len(pipe[b][s]) < PipeSize /\ tracker[b][s] # "panicked"
       /\ written' = [written EXCEPT ![b][s] = @ + 1]
       /\ pipe' = [pipe EXCEPT ![b][s] = Append(@, Line(s, written[b][s] + 1))]
  /\ script' = [script EXCEPT ![b] = Tail(@)]
  /\ UNCHANGED <<progress, buildVars, process, tracker, log, logger, signal, seen>>

(* Nobody reads the pipe any more: the write kills the process.            *)
BrokenPipe(b) ==
  /\ process[b] = "running" /\ script[b] # <<>>
  /\ tracker[b][Head(script[b])] = "panicked"
  /\ process' = [process EXCEPT ![b] = "ended"]
  /\ UNCHANGED <<progress, buildVars, script, written, outputVars, seen>>

ProcessEnds(b) ==
  /\ process[b] = "running" /\ script[b] = <<>>
  /\ process' = [process EXCEPT ![b] = "ended"]
  /\ UNCHANGED <<progress, buildVars, script, written, outputVars, seen>>

Process(b) == WriteLine(b) \/ BrokenPipe(b) \/ ProcessEnds(b)

-----------------------------------------------------------------------------
(* The trackers and the log thread.                                        *)

(* The next line goes to the log channel. When the log thread has ended,   *)
(* its end of the channel is gone and the send is an unwrap of an error;   *)
(* so is reading a line that is not UTF-8.                                 *)
TrackLine(b, s) ==
  /\ tracker[b][s] = "reading" /\ pipe[b][s] # <<>>
  /\ pipe' = [pipe EXCEPT ![b][s] = Tail(@)]
  /\ \/ /\ logger[b] = "running"
        /\ log' = [log EXCEPT ![b] = Append(@, Head(pipe[b][s]))]
        /\ UNCHANGED tracker
     \/ /\ tracker' = [tracker EXCEPT ![b][s] = "panicked"]
        /\ UNCHANGED log
  /\ UNCHANGED <<progress, buildVars, processVars, logger, signal, seen>>

TrackEnd(b, s) ==
  /\ tracker[b][s] = "reading" /\ pipe[b][s] = <<>> /\ process[b] = "ended"
  /\ tracker' = [tracker EXCEPT ![b][s] = "ended"]
  /\ UNCHANGED <<progress, buildVars, processVars, pipe, log, logger, signal, seen>>

(* Mutant: the line is shown but stays in the channel.                     *)
ForwardAgain(b) ==
  /\ logger[b] = "running" /\ log[b] # <<>>
  /\ seen' = Append(seen, LogNotice(b, Head(log[b])))
  /\ UNCHANGED <<progress, buildVars, processVars, pipe, tracker, log, logger, signal>>

(* select!: when both channels are ready either branch may be taken.       *)
ForwardLine(b) ==
  /\ logger[b] = "running" /\ log[b] # <<>>
  /\ seen' = Append(seen, LogNotice(b, Head(log[b])))
  /\ log' = [log EXCEPT ![b] = Tail(@)]
  /\ UNCHANGED <<progress, buildVars, processVars, pipe, tracker, logger, signal>>

LoggerEnds(b) ==
  /\ logger[b] = "running" /\ signal[b]
  /\ logger' = [logger EXCEPT ![b] = "ended"]
  /\ signal' = [signal EXCEPT ![b] = FALSE]
  /\ UNCHANGED <<progress, buildVars, processVars, pipe, tracker, log, seen>>

Next ==
  \E b \in Builds :
    \/ Worker(b) \/ Process(b)
    \/ \E s \in Streams : TrackLine(b, s) \/ TrackEnd(b, s)
    \/ ForwardLine(b) \/ LoggerEnds(b)

Spec == Init /\ [][Next]_vars

(* Every thread runs, the client replies, and a TeX process that can go on *)
(* does. The builds are finitely many: whose turn it is gets the lock. The *)
(* select! is fair enough to take the exit branch in the end.              *)
FairSpec ==
  /\ Spec
  /\ \A b \in Builds :
       /\ WF_vars(Worker(b)) /\ WF_vars(Process(b)) /\ WF_vars(LoggerEnds(b))
       /\ \A s \in Streams : WF_vars(TrackLine(b, s) \/ TrackEnd(b, s))

-----------------------------------------------------------------------------
(* Correctness.                                                            *)

(* "Prevent building the same file multiple times at once", as the client  *)
(* sees it: between two notifications of a build there is none of another  *)
(* one, although other threads than the one with the lock send them. And a *)
(* client with progress support gets the output of a build between the     *)
(* begin and the end of its progress; the end comes once, on every path.   *)
BuildsInBlocks ==
  /\ \A i, k \in DOMAIN seen :
       seen[i].build = seen[k].build => \A j \in i..k : seen[j].build = seen[i].build
  /\ \A i \in DOMAIN seen :
       LET b == seen[i].build IN
       /\ seen[i].kind = "begin" => \A j \in 1..i - 1 : seen[j].build # b
       /\ seen[i].kind = "end" => /\ \A j \in DOMAIN seen : j > i => seen[j].build # b
                                 /\ phase[b] \in {"unlocking", "returned"}
       /\ seen[i].kind = "log" /\ progress => \E j \in 1..i - 1 : seen[j] = Notice(b, "begin")

SameStream(n, m) == n.build = m.build /\ n.kind = "log" /\ m.kind = "log" /\ n.line.stream = m.line.stream

(* The lines of a stream are shown in order, each once and none left out:  *)
(* what may get lost is what comes after, when the log thread ends or a    *)
(* tracker panics.                                                         *)
LinesInOrder ==
  \A i \in DOMAIN seen : seen[i].kind = "log" =>
    LET b == seen[i].build
        line == seen[i].line
    IN
    /\ line.number <= written[b][line.stream]
    /\ \A j \in 1..i - 1 : SameStream(seen[j], seen[i]) => seen[j].line.number < line.number
    /\ \A n \in 1..line.number - 1 : \E j \in 1..i - 1 : seen[j] = LogNotice(b, Line(line.stream, n))

(* What the client sees of builds is what the contract allows: one build   *)
(* at a time, a begin, of each stream's lines a prefix and an end. The     *)
(* hazards are a log thread or a worker that still sends when another      *)
(* build has begun, and a way out of `build` that forgets the end.         *)
StageOf(p) ==
  CASE p \in {"checking", "creating"} -> "started"
    [] p \in {"spawning", "waiting", "joining"} -> "running"
    [] p = "reporting" -> "ending"
    [] p = "unlocking" -> "over"
    [] OTHER -> p

stages == [b \in Builds |-> StageOf(phase[b])]

Contract == INSTANCE BuildContract WITH stage <- stages
ImplementsBuildContract == Contract!Spec

(* "Fix build freezes": whatever the process writes to which pipe, and     *)
(* whichever thread panics, every call of `build` returns.                 *)
BuildsReturn == <>(\A b \in Builds : phase[b] = "returned")
-----------------------------------------------------------------------------
(* The inductive invariant behind BuildsInBlocks and LinesInOrder.         *)

IsSeen(n) == \E i \in DOMAIN seen : seen[i] = n
HasShown(b) == \E i \in DOMAIN seen : seen[i].build = b

(* What there can be of a build depends on where its worker is.            *)
Stages ==
  \A b \in Builds :
    /\ phase[b] \in Early =>
         /\ process[b] = "none" /\ logger[b] = "none"
         /\ \A s \in Streams : tracker[b][s] = "none" /\ written[b][s] = 0
    /\ phase[b] \in {"called", "checking", "creating"} => ~HasShown(b)
    /\ phase[b] = "creating" => progress
    /\ logger[b] = "running" => phase[b] \in {"waiting", "joining"}
    /\ progress /\ phase[b] \in {"spawning", "waiting", "joining"} => IsSeen(Notice(b, "begin"))

(* What the client has been sent since the build with the lock began to    *)
(* send is this build's.                                                   *)
LastBlock ==
  \A i, k \in DOMAIN seen : i <= k /\ seen[i].build = lock => seen[k].build = lock

(* The lines of a stream that are in the pipe are the last ones written.   *)
PipesHoldLatest ==
  \A b \in Builds, s \in Streams :
    /\ Len(pipe[b][s]) <= written[b][s]
    /\ \A i \in DOMAIN pipe[b][s] : pipe[b][s][i] = Line(s, written[b][s] - Len(pipe[b][s]) + i)

Tracked(b, s) == written[b][s] - Len(pipe[b][s])

(* In the log channel come first the lines that follow those shown: each   *)
(* after the one before it, and none of them twice.                        *)
LogFollowsSeen ==
  \A b \in Builds : \A i \in DOMAIN log[b] :
    LET s == log[b][i].stream
        n == log[b][i].number
    IN
    /\ n <= Tracked(b, s)
    /\ \A j \in 1..i - 1 : log[b][j].stream = s => log[b][j].number < n
    /\ \A j \in DOMAIN seen :
         seen[j].build = b /\ seen[j].kind = "log" /\ seen[j].line.stream = s => seen[j].line.number < n
    /\ n > 1 => \/ IsSeen(LogNotice(b, Line(s, n - 1)))
                \/ \E j \in 1..i - 1 : log[b][j] = Line(s, n - 1)

(* A tracker that has not panicked has sent on all it has read.            *)
TrackedIsSentOn ==
  \A b \in Builds, s \in Streams :
    /\ \A i \in DOMAIN seen :
         seen[i].build = b /\ seen[i].kind = "log" /\ seen[i].line.stream = s
         => seen[i].line.number <= Tracked(b, s)
    /\ tracker[b][s] # "panicked" /\ Tracked(b, s) > 0 =>
         \/ IsSeen(LogNotice(b, Line(s, Tracked(b, s))))
         \/ \E i \in DOMAIN log[b] : log[b][i] = Line(s, Tracked(b, s))

IInv ==
  /\ TypeOK
  /\ Stages
  /\ LastBlock
  /\ PipesHoldLatest
  /\ LogFollowsSeen
  /\ TrackedIsSentOn
  /\ BuildsInBlocks
  /\ LinesInOrder
=============================================================================
