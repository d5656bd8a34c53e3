------------------------- MODULE BuildEngineProofs --------------------------
(***************************************************************************)
(* Proofs about BuildEngine, for any number of builds, any size of the     *)
(* pipes and any length of the output.                                     *)
(***************************************************************************)
EXTENDS BuildEngine, QueueLemmas

Over == {"unlocking", "returned"}
Phases == Early \cup {"waiting", "joining", "reporting", "unlocking", "returned"}

-----------------------------------------------------------------------------
(* About what the client has been sent.                                    *)

(* The notices of the two kinds of it have the right type.                 *)
LEMMA NoticesAreTyped ==
  /\ \A b \in Builds, k \in {"begin", "end"} : Notice(b, k) \in NoticeSet
  /\ \A b \in Builds, line \in LineSet : LogNotice(b, line) \in NoticeSet
  /\ \A b, k : Notice(b, k).build = b /\ Notice(b, k).kind = k
  /\ \A b, line : /\ LogNotice(b, line).build = b /\ LogNotice(b, line).kind = "log"
                  /\ LogNotice(b, line).line = line
  /\ \A n \in NoticeSet : n.build \in Builds /\ n.kind \in {"begin", "end", "log"}
  /\ \A n \in NoticeSet : n.kind = "log" => n.line \in LineSet /\ n = LogNotice(n.build, n.line)
  BY DEF NoticeSet, Notice, LogNotice

(* The end of a progress stays the last of its build while nothing is sent,*)
(* and the lock may go to a build that has sent nothing.                   *)
LEMMA BlocksStay ==
  ASSUME IInv, UNCHANGED <<seen, progress>>,
         \A c \in Builds : phase[c] \in Over => phase'[c] \in Over,
         lock' = lock \/ \A i \in DOMAIN seen : seen[i].build # lock'
  PROVE  LastBlock' /\ BuildsInBlocks'
  <1>1. LastBlock'
    BY DEF IInv, LastBlock
  <1>2. \A i \in DOMAIN seen : seen[i].build \in Builds
    BY NoticesAreTyped DEF IInv, TypeOK
  <1>3. BuildsInBlocks'
    BY <1>2 DEF IInv, BuildsInBlocks, Over
  <1> QED BY <1>1, <1>3

(* A notice of the build that holds the lock ends up in its block.         *)
LEMMA BlocksGrow ==
  ASSUME IInv, NEW b \in Builds, NEW n \in NoticeSet, n.build = b,
         seen' = Append(seen, n), UNCHANGED <<progress, lock>>, lock = b,
         \A c \in Builds : phase[c] \in Over => phase'[c] \in Over,
         phase[b] \notin Over,
         n.kind = "begin" => ~HasShown(b),
         n.kind = "end" => phase'[b] \in Over,
         n.kind = "log" /\ progress => IsSeen(Notice(b, "begin"))
  PROVE  LastBlock' /\ BuildsInBlocks' /\ seen' \in Seq(NoticeSet)
  <1>1. PICK l \in Nat : l = Len(seen)
    BY DEF IInv, TypeOK
  <1>2. /\ seen' \in Seq(NoticeSet)
        /\ DOMAIN seen = 1..l /\ DOMAIN seen' = 1..(l + 1)
        /\ \A i \in 1..l : seen'[i] = seen[i] /\ seen[i] \in NoticeSet /\ seen[i].build \in Builds
        /\ seen'[l + 1] = n
    BY <1>1, AppendedTo, NoticesAreTyped DEF IInv, TypeOK
  <1>3. LastBlock'
    BY <1>2 DEF IInv, LastBlock
  <1>4. ASSUME NEW i \in 1..(l + 1), NEW k \in 1..(l + 1), seen'[i].build = seen'[k].build, NEW j \in i..k
        PROVE  seen'[j].build = seen'[i].build
    <2>1. CASE seen'[k].build = b
      BY <1>2, <1>3, <1>4, <2>1 DEF LastBlock
    <2>2. CASE seen'[k].build # b
      <3>1. i \in 1..l /\ k \in 1..l /\ j \in 1..l
        BY <1>2, <1>4, <2>2
      <3> QED BY <1>2, <1>4, <3>1 DEF IInv, BuildsInBlocks
    <2> QED BY <2>1, <2>2
  <1>5. ASSUME NEW i \in 1..(l + 1), seen'[i].kind = "begin", NEW j \in 1..i - 1
        PROVE  seen'[j].build # seen'[i].build
    <2>1. j \in 1..l
      OBVIOUS
    <2>2. CASE i = l + 1
      BY <1>2, <1>5, <2>1, <2>2 DEF HasShown
    <2>3. CASE i \in 1..l
      BY <1>2, <1>5, <2>1, <2>3 DEF IInv, BuildsInBlocks
    <2> QED BY <1>1, <2>2, <2>3
  <1>6. ASSUME NEW i \in 1..(l + 1), seen'[i].kind = "end"
        PROVE  /\ \A j \in 1..(l + 1) : j > i => seen'[j].build # seen'[i].build
               /\ phase'[seen'[i].build] \in Over
    <2>1. CASE i = l + 1
      BY <1>2, <1>6, <2>1
    <2>2. CASE i \in 1..l
      <3>1. /\ phase[seen[i].build] \in Over
            /\ \A j \in 1..l : j > i => seen[j].build # seen[i].build
        BY <1>2, <1>6, <2>2 DEF IInv, BuildsInBlocks, Over
      <3> QED BY <1>2, <2>2, <3>1
    <2> QED BY <1>1, <2>1, <2>2
  <1>7. ASSUME NEW i \in 1..(l + 1), seen'[i].kind = "log", progress
        PROVE  \E j \in 1..i - 1 : seen'[j] = Notice(seen'[i].build, "begin")
    <2>1. CASE i = l + 1
      BY <1>2, <1>7, <2>1 DEF IsSeen
    <2>2. CASE i \in 1..l
      <3>1. PICK j \in 1..i - 1 : seen[j] = Notice(seen[i].build, "begin")
        BY <1>2, <1>7, <2>2 DEF IInv, BuildsInBlocks
      <3>2. j \in 1..l
        BY <2>2
      <3> QED BY <1>2, <2>2, <3>1, <3>2
    <2> QED BY <1>1, <2>1, <2>2
  <1>8. BuildsInBlocks'
    BY <1>2, <1>4, <1>5, <1>6, <1>7 DEF BuildsInBlocks, Over
  <1> QED BY <1>2, <1>3, <1>8

-----------------------------------------------------------------------------
(* About the lines.                                                        *)

Lines == PipesHoldLatest /\ LogFollowsSeen /\ TrackedIsSentOn /\ LinesInOrder

(* A step that moves no line, and at most announces a begin or an end.     *)
LEMMA LinesStay ==
  ASSUME IInv, UNCHANGED <<log, pipe, written, tracker>>,
         NEW b \in Builds, NEW k \in {"begin", "end"},
         seen' = seen \/ seen' = Append(seen, Notice(b, k))
  PROVE  Lines'
  <1>1. PICK l \in Nat : l = Len(seen)
    BY DEF IInv, TypeOK
  <1>2. PICK m \in Nat :
        /\ DOMAIN seen = 1..l /\ DOMAIN seen' = 1..m /\ l <= m
        /\ \A i \in 1..l : seen'[i] = seen[i] /\ seen[i] \in NoticeSet
        /\ \A i \in 1..m : seen'[i].kind = "log" => i \in 1..l
    <2>1. CASE seen' = seen
      <3>1. /\ DOMAIN seen = 1..l /\ DOMAIN seen' = 1..l /\ l <= l
            /\ \A i \in 1..l : seen'[i] = seen[i] /\ seen[i] \in NoticeSet
        BY <1>1, <2>1 DEF IInv, TypeOK
      <3> QED BY <1>1, <3>1
    <2>2. CASE seen' = Append(seen, Notice(b, k))
      <3>1. Notice(b, k) \in NoticeSet /\ Notice(b, k).kind # "log"
        BY NoticesAreTyped
      <3>2. /\ DOMAIN seen = 1..l /\ DOMAIN seen' = 1..(l + 1)
            /\ \A i \in 1..l : seen'[i] = seen[i] /\ seen[i] \in NoticeSet
            /\ seen'[l + 1].kind # "log"
        BY <1>1, <2>2, <3>1, AppendedTo DEF IInv, TypeOK
      <3> QED BY <1>1, <3>2
    <2> QED BY <2>1, <2>2
  <1>3. PipesHoldLatest'
    BY DEF IInv, PipesHoldLatest
  <1>4. \A n : IsSeen(n) => IsSeen(n)'
    BY <1>1, <1>2 DEF IsSeen
  <1>5. LogFollowsSeen'
    <2> SUFFICES ASSUME NEW c \in Builds, NEW i \in DOMAIN log[c]
                 PROVE  LET s == log[c][i].stream
                            n == log[c][i].number
                        IN /\ n <= Tracked(c, s)
                           /\ \A j \in 1..i - 1 : log[c][j].stream = s => log[c][j].number < n
                           /\ \A j \in DOMAIN seen' :
                                seen'[j].build = c /\ seen'[j].kind = "log" /\ seen'[j].line.stream = s
                                => seen'[j].line.number < n
                           /\ n > 1 => \/ IsSeen(LogNotice(c, Line(s, n - 1)))'
                                       \/ \E j \in 1..i - 1 : log[c][j] = Line(s, n - 1)
      BY DEF LogFollowsSeen, Tracked
    <2> QED BY <1>1, <1>2, <1>4 DEF IInv, LogFollowsSeen
  <1>6. TrackedIsSentOn'
    <2> SUFFICES ASSUME NEW c \in Builds, NEW s \in Streams
                 PROVE  /\ \A i \in DOMAIN seen' :
                             seen'[i].build = c /\ seen'[i].kind = "log" /\ seen'[i].line.stream = s
                             => seen'[i].line.number <= Tracked(c, s)
                        /\ tracker[c][s] # "panicked" /\ Tracked(c, s) > 0 =>
                             \/ IsSeen(LogNotice(c, Line(s, Tracked(c, s))))'
                             \/ \E i \in DOMAIN log[c] : log[c][i] = Line(s, Tracked(c, s))
      BY DEF TrackedIsSentOn, Tracked, IsSeen
    <2>1. \A i \in DOMAIN seen' :
             seen'[i].build = c /\ seen'[i].kind = "log" /\ seen'[i].line.stream = s
             => seen'[i].line.number <= Tracked(c, s)
      BY <1>1, <1>2 DEF IInv, TrackedIsSentOn
    <2>2. PICK n : n = LogNotice(c, Line(s, Tracked(c, s)))
      OBVIOUS
    <2>3. IsSeen(n) => IsSeen(n)'
      BY <1>4
    <2>4. tracker[c][s] # "panicked" /\ Tracked(c, s) > 0 =>
            IsSeen(n) \/ \E i \in DOMAIN log[c] : log[c][i] = Line(s, Tracked(c, s))
      BY <2>2 DEF IInv, TrackedIsSentOn, IsSeen
    <2>5. Tracked(c, s)' = Tracked(c, s)
      BY DEF Tracked
    <2> QED BY <2>1, <2>2, <2>3, <2>4, <2>5 DEF IsSeen
  <1>7. LinesInOrder'
    <2> SUFFICES ASSUME NEW i \in 1..l, seen[i].kind = "log"
                 PROVE  LET c == seen[i].build
                            line == seen[i].line
                        IN /\ line.number <= written[c][line.stream]
                           /\ \A j \in 1..i - 1 : SameStream(seen'[j], seen[i]) => seen'[j].line.number < line.number
                           /\ \A x \in 1..line.number - 1 :
                                \E j \in 1..i - 1 : seen'[j] = LogNotice(c, Line(line.stream, x))
      BY <1>1, <1>2 DEF LinesInOrder
    <2>1. \A j \in 1..i - 1 : seen'[j] = seen[j]
      BY <1>1, <1>2
    <2> QED BY <1>1, <1>2, <2>1 DEF IInv, LinesInOrder
  <1> QED BY <1>3, <1>5, <1>6, <1>7 DEF Lines

-----------------------------------------------------------------------------
(* The worker.                                                             *)

(* A step of the worker that leaves the output alone, and at most          *)
(* announces a begin or an end.                                            *)
LEMMA WorkerStep ==
  ASSUME IInv, NEW b \in Builds, NEW from, NEW to \in Phases, Goto(b, from, to),
         UNCHANGED <<progress, processVars, pipe, tracker, log, logger>>,
         signal' \in [Builds -> BOOLEAN],
         NEW k \in {"begin", "end"},
         \/ seen' = seen
         \/ /\ seen' = Append(seen, Notice(b, k)) /\ lock' = lock /\ from \notin Over \cup {"called"}
            /\ k = "begin" => ~HasShown(b)
            /\ k = "end" => to \in Over,
         from \in Over => to \in Over,
         to \in Early => from \in Early /\ (seen' = seen \/ (k = "begin" /\ to = "spawning")),
         to \in {"called", "checking", "creating"} => ~HasShown(b),
         to = "creating" => progress,
         logger[b] = "running" => to \in {"waiting", "joining"},
         progress /\ to \in {"spawning", "waiting", "joining"} => IsSeen(Notice(b, "begin"))',
         \/ lock' = lock
         \/ lock' = NoBuild
         \/ lock' = b /\ ~HasShown(b),
         lock' \in Builds \cup {NoBuild},
         \A c \in Builds : lock' = c <=> phase'[c] \notin {"called", "returned"}
  PROVE  IInv'
  <1>1. /\ phase[b] = from /\ phase' \in [Builds -> Phases]
        /\ phase'[b] = to /\ \A c \in Builds \ {b} : phase'[c] = phase[c]
    BY DEF Goto, IInv, TypeOK, Phases
  <1>2. UNCHANGED <<progress, process, script, written, pipe, tracker, log, logger>>
    BY DEF processVars
  <1>3. Lines'
    BY <1>2, LinesStay
  <1>4. \A i \in DOMAIN seen : seen[i] \in NoticeSet /\ seen[i].build \in Builds
    BY NoticesAreTyped DEF IInv, TypeOK
  <1>5. LastBlock' /\ BuildsInBlocks' /\ seen' \in Seq(NoticeSet)
    <2>1. CASE seen' = seen
      <3>1. lock' = lock \/ \A i \in DOMAIN seen : seen[i].build # lock'
        BY <1>4, NoBuildIsNone DEF HasShown
      <3> QED BY <1>1, <1>2, <2>1, <3>1, BlocksStay DEF IInv, TypeOK
    <2>2. CASE seen' # seen
      <3>1. lock = b
        BY <1>1, <2>2 DEF IInv, TypeOK, Over
      <3>2. /\ Notice(b, k) \in NoticeSet /\ Notice(b, k).build = b /\ Notice(b, k).kind = k
            /\ k # "log"
        BY NoticesAreTyped
      <3>3. PICK n : n = Notice(b, k)
        OBVIOUS
      <3> QED BY <1>1, <1>2, <2>2, <3>1, <3>2, <3>3, BlocksGrow
    <2> QED BY <2>1, <2>2
  <1>6. TypeOK'
    BY <1>1, <1>2, <1>5 DEF IInv, TypeOK, Phases
  <1>7. \A c \in Builds : c # b => (HasShown(c)' <=> HasShown(c)) /\ (IsSeen(Notice(c, "begin")) => IsSeen(Notice(c, "begin"))')
    <2>1. CASE seen' = seen
      BY <2>1 DEF HasShown, IsSeen
    <2>2. CASE seen' = Append(seen, Notice(b, k))
      <3>1. PICK l \in Nat : l = Len(seen)
        BY DEF IInv, TypeOK
      <3>2. /\ DOMAIN seen = 1..l /\ DOMAIN seen' = 1..(l + 1)
            /\ \A i \in 1..l : seen'[i] = seen[i]
            /\ seen'[l + 1].build = b
        BY <2>2, <3>1, AppendedTo, NoticesAreTyped DEF IInv, TypeOK
      <3> QED BY <3>1, <3>2 DEF HasShown, IsSeen
    <2> QED BY <2>1, <2>2
  <1>8. Stages'
    <2> SUFFICES ASSUME NEW c \in Builds
                 PROVE  /\ phase'[c] \in Early =>
                             /\ process[c] = "none" /\ logger[c] = "none"
                             /\ \A s \in Streams : tracker[c][s] = "none" /\ written[c][s] = 0
                        /\ phase'[c] \in {"called", "checking", "creating"} => ~HasShown(c)'
                        /\ phase'[c] = "creating" => progress
                        /\ logger[c] = "running" => phase'[c] \in {"waiting", "joining"}
                        /\ progress /\ phase'[c] \in {"spawning", "waiting", "joining"} => IsSeen(Notice(c, "begin"))'
      BY <1>2 DEF Stages
    <2>1. CASE c = b
      <3>1. to \in {"called", "checking", "creating"} => ~HasShown(b)'
        BY DEF HasShown, Early
      <3> QED BY <1>1, <2>1, <3>1 DEF IInv, Stages
    <2>2. CASE c # b
      BY <1>1, <1>7, <2>2 DEF IInv, Stages
    <2> QED BY <2>1, <2>2
  <1> QED BY <1>3, <1>5, <1>6, <1>8 DEF IInv, Lines

(* Where the worker of b goes, the others stay.                            *)
LEMMA GotoShape ==
  ASSUME IInv, NEW b \in Builds, NEW from, NEW to \in Phases, Goto(b, from, to)
  PROVE  /\ phase[b] = from /\ phase'[b] = to
         /\ \A c \in Builds \ {b} : phase'[c] = phase[c]
         /\ from \in Early => /\ logger[b] = "none"
                              /\ from # "spawning" => ~HasShown(b)
         /\ from \notin {"waiting", "joining"} => logger[b] # "running"
         /\ from \in {"spawning", "waiting", "joining"} /\ progress => IsSeen(Notice(b, "begin"))
         /\ from \notin {"called", "returned"} =>
              lock = b /\ \A c \in Builds \ {b} : phase[c] \in {"called", "returned"}
         /\ signal \in [Builds -> BOOLEAN] /\ lock \in Builds \cup {NoBuild}
         /\ \A c \in Builds : lock = c <=> phase[c] \notin {"called", "returned"}
  BY NoBuildIsNone DEF Goto, IInv, TypeOK, Stages, Phases, Early

(* A step of the worker that announces nothing.                            *)
LEMMA SilentWorkerStep ==
  ASSUME IInv, NEW b \in Builds, NEW from, NEW to \in Phases, Goto(b, from, to),
         UNCHANGED <<progress, processVars, pipe, tracker, log, logger, seen>>,
         signal' \in [Builds -> BOOLEAN],
         from \in Over => to \in Over,
         to \in Early => from \in Early,
         to \in {"called", "checking", "creating"} => ~HasShown(b),
         to = "creating" => progress,
         to \in {"waiting", "joining"} \/ logger[b] # "running",
         progress /\ to \in {"spawning", "waiting", "joining"} => from \in {"spawning", "waiting", "joining"},
         \/ lock' = lock
         \/ lock' = NoBuild
         \/ lock' = b /\ ~HasShown(b),
         lock' \in Builds \cup {NoBuild},
         \A c \in Builds : lock' = c <=> phase'[c] \notin {"called", "returned"}
  PROVE  IInv'
  <1>1. progress /\ to \in {"spawning", "waiting", "joining"} => IsSeen(Notice(b, "begin"))'
    BY GotoShape DEF IsSeen, Notice
  <1>2. "begin" \in {"begin", "end"}
    OBVIOUS
  <1> QED BY <1>1, <1>2, WorkerStep

LEMMA LockKeepsIInv ==
  ASSUME IInv, NEW b \in Builds, Lock(b)
  PROVE  IInv'
  <1>1. /\ Goto(b, "called", "checking") /\ lock = NoBuild /\ lock' = b
        /\ UNCHANGED <<progress, processVars, pipe, tracker, log, logger, signal, seen>>
    BY DEF Lock, outputVars
  <1>2. "checking" \in Phases
    BY DEF Phases, Early
  <1>3. \A c \in Builds : lock' = c <=> phase'[c] \notin {"called", "returned"}
    BY <1>1, <1>2, GotoShape, NoBuildIsNone
  <1> QED BY <1>1, <1>2, <1>3, GotoShape, SilentWorkerStep DEF Over, Early

LEMMA CheckKeepsIInv ==
  ASSUME IInv, NEW b \in Builds, Check(b)
  PROVE  IInv'
  <1>1. UNCHANGED <<progress, lock, processVars, pipe, tracker, log, logger, signal, seen>>
    BY DEF Check, outputVars
  <1>2. PICK to \in {"unlocking", "creating", "spawning"} :
          Goto(b, "checking", to) /\ (to = "spawning" => ~progress) /\ (to = "creating" => progress)
    BY DEF Check, Goto
  <1>3. to \in Phases
    BY DEF Phases, Early
  <1>4. \A c \in Builds : lock' = c <=> phase'[c] \notin {"called", "returned"}
    BY <1>1, <1>2, <1>3, GotoShape
  <1>5. to \in {"called", "checking", "creating"} => ~HasShown(b)
    BY <1>2, <1>3, GotoShape DEF Early
  <1>6. logger[b] # "running" /\ "checking" \in Early /\ "checking" \notin Over
    BY <1>2, <1>3, GotoShape DEF Over, Early
  <1>7. progress => to \notin {"spawning", "waiting", "joining"}
    BY <1>2
  <1>8. /\ "begin" \in {"begin", "end"}
        /\ signal' \in [Builds -> BOOLEAN] /\ lock' \in Builds \cup {NoBuild}
    BY <1>1 DEF IInv, TypeOK
  <1>9. Goto(b, "checking", to)
    BY <1>2
  <1>10. to = "creating" => progress
    BY <1>2
  <1> QED BY <1>1, <1>3, <1>4, <1>5, <1>6, <1>7, <1>8, <1>9, <1>10, SilentWorkerStep

LEMMA CreateKeepsIInv ==
  ASSUME IInv, NEW b \in Builds, Create(b)
  PROVE  IInv'
  <1>1. UNCHANGED <<progress, lock, processVars, pipe, tracker, log, logger, signal>>
    BY DEF Create, outputVars
  <1>2. CASE Goto(b, "creating", "spawning") /\ seen' = Append(seen, Notice(b, "begin"))
    <2>1. "spawning" \in Phases
      BY DEF Phases, Early
    <2>2. \A c \in Builds : lock' = c <=> phase'[c] \notin {"called", "returned"}
      BY <1>1, <1>2, <2>1, GotoShape
    <2>3. IsSeen(Notice(b, "begin"))'
      <3>1. seen \in Seq(NoticeSet) /\ Notice(b, "begin") \in NoticeSet
        BY NoticesAreTyped DEF IInv, TypeOK
      <3> QED BY <1>2, <3>1, AppendedTo DEF IsSeen, Notice
    <2>4. ~HasShown(b)
      BY <1>2, <2>1, GotoShape DEF Early
    <2>5. logger[b] # "running" /\ "creating" \in Early /\ "creating" \notin Over
      BY <1>2, <2>1, GotoShape DEF Over, Early
    <2>6. signal' \in [Builds -> BOOLEAN] /\ lock' \in Builds \cup {NoBuild}
      BY <1>1 DEF IInv, TypeOK
    <2> QED BY <1>1, <1>2, <2>1, <2>2, <2>3, <2>4, <2>5, <2>6, WorkerStep
  <1>3. CASE Goto(b, "creating", "reporting") /\ UNCHANGED seen
    <2>1. "reporting" \in Phases
      BY DEF Phases
    <2>2. \A c \in Builds : lock' = c <=> phase'[c] \notin {"called", "returned"}
      BY <1>1, <1>3, <2>1, GotoShape
    <2> QED BY <1>1, <1>3, <2>1, <2>2, GotoShape, SilentWorkerStep DEF Over, Early
  <1> QED BY <1>2, <1>3 DEF Create

LEMMA SpawnFailsKeepsIInv ==
  ASSUME IInv, NEW b \in Builds, SpawnFails(b)
  PROVE  IInv'
  <1>1. /\ Goto(b, "spawning", "reporting")
        /\ UNCHANGED <<progress, lock, processVars, pipe, tracker, log, logger, signal, seen>>
    BY DEF SpawnFails, outputVars
  <1>2. "reporting" \in Phases
    BY DEF Phases
  <1>3. \A c \in Builds : lock' = c <=> phase'[c] \notin {"called", "returned"}
    BY <1>1, <1>2, GotoShape
  <1> QED BY <1>1, <1>2, <1>3, GotoShape, SilentWorkerStep DEF Over, Early

LEMMA WaitKeepsIInv ==
  ASSUME IInv, NEW b \in Builds, Wait(b)
  PROVE  IInv'
  <1>1. /\ Goto(b, "waiting", "joining")
        /\ signal' = [signal EXCEPT ![b] = TRUE]
        /\ UNCHANGED <<progress, lock, processVars, pipe, tracker, log, logger, seen>>
    BY DEF Wait
  <1>2. "joining" \in Phases
    BY DEF Phases
  <1>3. \A c \in Builds : lock' = c <=> phase'[c] \notin {"called", "returned"}
    BY <1>1, <1>2, GotoShape
  <1>4. signal' \in [Builds -> BOOLEAN]
    BY <1>1 DEF IInv, TypeOK
  <1>5. progress => IsSeen(Notice(b, "begin"))'
    BY <1>1, <1>2, GotoShape DEF IsSeen, Notice
  <1> QED BY <1>1, <1>2, <1>3, <1>4, <1>5, GotoShape, SilentWorkerStep DEF Over, Early

LEMMA JoinLoggerKeepsIInv ==
  ASSUME IInv, NEW b \in Builds, JoinLogger(b)
  PROVE  IInv'
  <1>1. /\ Goto(b, "joining", "reporting")
        /\ logger[b] = "ended"
        /\ UNCHANGED <<progress, lock, processVars, pipe, tracker, log, logger, signal, seen>>
    BY DEF JoinLogger, outputVars
  <1>2. "reporting" \in Phases
    BY DEF Phases
  <1>3. \A c \in Builds : lock' = c <=> phase'[c] \notin {"called", "returned"}
    BY <1>1, <1>2, GotoShape
  <1> QED BY <1>1, <1>2, <1>3, GotoShape, SilentWorkerStep DEF Over, Early

LEMMA DropReporterKeepsIInv ==
  ASSUME IInv, NEW b \in Builds, DropReporter(b)
  PROVE  IInv'
  <1>1. /\ Goto(b, "reporting", "unlocking")
        /\ seen' = seen \/ seen' = Append(seen, Notice(b, "end"))
        /\ UNCHANGED <<progress, lock, processVars, pipe, tracker, log, logger, signal>>
    BY DEF DropReporter, outputVars
  <1>2. "unlocking" \in Phases
    BY DEF Phases
  <1>3. \A c \in Builds : lock' = c <=> phase'[c] \notin {"called", "returned"}
    BY <1>1, <1>2, GotoShape
  <1> QED BY <1>1, <1>2, <1>3, GotoShape, WorkerStep DEF Over, Early

LEMMA UnlockKeepsIInv ==
  ASSUME IInv, NEW b \in Builds, Unlock(b)
  PROVE  IInv'
  <1>1. /\ Goto(b, "unlocking", "returned")
        /\ lock' = NoBuild
        /\ UNCHANGED <<progress, processVars, pipe, tracker, log, logger, signal, seen>>
    BY DEF Unlock, outputVars
  <1>2. "returned" \in Phases
    BY DEF Phases
  <1>3. \A c \in Builds : lock' = c <=> phase'[c] \notin {"called", "returned"}
    BY <1>1, <1>2, GotoShape, NoBuildIsNone
  <1> QED BY <1>1, <1>2, <1>3, GotoShape, SilentWorkerStep DEF Over, Early

-----------------------------------------------------------------------------
(* The process, the trackers and the log thread.                           *)

(* A step that neither moves the worker nor sends the client anything.     *)
LEMMA StagesStay ==
  ASSUME IInv, UNCHANGED <<phase, seen, progress>>,
         \A c \in Builds : phase[c] \in Early =>
           /\ process'[c] = process[c] /\ logger'[c] = logger[c]
           /\ \A s \in Streams : tracker'[c][s] = tracker[c][s] /\ written'[c][s] = written[c][s],
         \A c \in Builds : logger'[c] = "running" => logger[c] = "running"
  PROVE  Stages'
  BY DEF IInv, Stages, HasShown, IsSeen

(* What is at work in a build that has not come so far.                    *)
LEMMA EarlyIsIdle ==
  ASSUME IInv, NEW b \in Builds,
         \/ process[b] # "none"
         \/ logger[b] # "none"
         \/ \E s \in Streams : tracker[b][s] # "none"
  PROVE  phase[b] \notin Early
  BY DEF IInv, Stages

LEMMA ProcessStopsKeepsIInv ==
  ASSUME IInv, NEW b \in Builds, BrokenPipe(b) \/ ProcessEnds(b)
  PROVE  IInv'
  <1>1. /\ process[b] = "running" /\ process' = [process EXCEPT ![b] = "ended"]
        /\ UNCHANGED <<progress, phase, lock, script, written, pipe, tracker, log, logger, signal, seen>>
    BY DEF BrokenPipe, ProcessEnds, buildVars, outputVars
  <1>2. process' \in [Builds -> {"none", "running", "ended"}] /\ \A c \in Builds \ {b} : process'[c] = process[c]
    BY <1>1 DEF IInv, TypeOK
  <1>3. TypeOK'
    BY <1>1, <1>2 DEF IInv, TypeOK
  <1>4. phase[b] \notin Early
    BY <1>1, EarlyIsIdle
  <1>5. Stages'
    BY <1>1, <1>2, <1>4, StagesStay
  <1>6. Lines'
    BY <1>1, LinesStay
  <1>7. LastBlock' /\ BuildsInBlocks'
    BY <1>1, BlocksStay
  <1> QED BY <1>3, <1>5, <1>6, <1>7 DEF IInv, Lines

LEMMA LoggerEndsKeepsIInv ==
  ASSUME IInv, NEW b \in Builds, LoggerEnds(b)
  PROVE  IInv'
  <1>1. /\ logger[b] = "running" /\ logger' = [logger EXCEPT ![b] = "ended"]
        /\ signal' = [signal EXCEPT ![b] = FALSE]
        /\ UNCHANGED <<progress, phase, lock, process, script, written, pipe, tracker, log, seen>>
    BY DEF LoggerEnds, buildVars, processVars
  <1>2. /\ logger' \in [Builds -> {"none", "running", "ended"}]
        /\ logger'[b] = "ended" /\ \A c \in Builds \ {b} : logger'[c] = logger[c]
        /\ signal' \in [Builds -> BOOLEAN]
    BY <1>1 DEF IInv, TypeOK
  <1>3. TypeOK'
    BY <1>1, <1>2 DEF IInv, TypeOK
  <1>4. phase[b] \notin Early
    BY <1>1, EarlyIsIdle
  <1>5. Stages'
    BY <1>1, <1>2, <1>4, StagesStay
  <1>6. Lines'
    BY <1>1, LinesStay
  <1>7. LastBlock' /\ BuildsInBlocks'
    BY <1>1, BlocksStay
  <1> QED BY <1>3, <1>5, <1>6, <1>7 DEF IInv, Lines

(* Only what a tracker says of itself is new.                              *)
LEMMA TrackEndKeepsIInv ==
  ASSUME IInv, NEW b \in Builds, NEW s \in Streams, TrackEnd(b, s)
  PROVE  IInv'
  <1>1. /\ tracker[b][s] = "reading" /\ tracker' = [tracker EXCEPT ![b][s] = "ended"]
        /\ UNCHANGED <<progress, phase, lock, process, script, written, pipe, log, logger, signal, seen>>
    BY DEF TrackEnd, buildVars, processVars
  <1>2. /\ tracker' \in [Builds -> [Streams -> {"none", "reading", "ended", "panicked"}]]
        /\ \A c \in Builds, t \in Streams : tracker'[c][t] = IF c = b /\ t = s THEN "ended" ELSE tracker[c][t]
    BY <1>1 DEF IInv, TypeOK
  <1>3. TypeOK'
    BY <1>1, <1>2 DEF IInv, TypeOK
  <1>4. phase[b] \notin Early
    BY <1>1, EarlyIsIdle
  <1>5. Stages'
    BY <1>1, <1>2, <1>4, StagesStay
  <1>6. PipesHoldLatest' /\ LogFollowsSeen' /\ LinesInOrder'
    BY <1>1 DEF IInv, PipesHoldLatest, LogFollowsSeen, LinesInOrder, Tracked, IsSeen
  <1>7. TrackedIsSentOn'
    <2>1. \A c \in Builds, t \in Streams : tracker'[c][t] # "panicked" => tracker[c][t] # "panicked"
      BY <1>1, <1>2
    <2> QED BY <1>1, <2>1 DEF IInv, TrackedIsSentOn, Tracked, IsSeen
  <1>8. LastBlock' /\ BuildsInBlocks'
    BY <1>1, BlocksStay
  <1> QED BY <1>3, <1>5, <1>6, <1>7, <1>8 DEF IInv

(* The process is started with both trackers and the log thread.           *)
LEMMA SpawnKeepsIInv ==
  ASSUME IInv, NEW b \in Builds, Spawn(b)
  PROVE  IInv'
  <1>1. /\ Goto(b, "spawning", "waiting")
        /\ process' = [process EXCEPT ![b] = "running"]
        /\ tracker' = [tracker EXCEPT ![b] = [s \in Streams |-> "reading"]]
        /\ logger' = [logger EXCEPT ![b] = "running"]
        /\ UNCHANGED <<progress, lock, written, pipe, log, signal, seen>>
    BY DEF Spawn, CaptureOutput
  <1>2. PICK streams \in SeqOf(Streams, MaxLines) : script' = [script EXCEPT ![b] = streams]
    BY DEF Spawn
  <1>3. streams \in Seq(Streams) /\ Len(streams) <= MaxLines
    <2>1. PICK m \in 0..MaxLines : streams \in [1..m -> Streams]
      BY <1>2 DEF SeqOf
    <2> QED BY <2>1, SizesAreNat
  <1>4. "waiting" \in Phases /\ "spawning" \in Early
    BY DEF Phases, Early
  <1>5. /\ phase[b] = "spawning" /\ phase' \in [Builds -> Phases] /\ phase'[b] = "waiting"
        /\ \A c \in Builds \ {b} : phase'[c] = phase[c]
    BY <1>1, <1>4, GotoShape DEF Goto, IInv, TypeOK, Phases
  <1>6. /\ process' \in [Builds -> {"none", "running", "ended"}]
        /\ \A c \in Builds \ {b} : process'[c] = process[c]
        /\ logger' \in [Builds -> {"none", "running", "ended"}]
        /\ \A c \in Builds \ {b} : logger'[c] = logger[c]
        /\ tracker' \in [Builds -> [Streams -> {"none", "reading", "ended", "panicked"}]]
        /\ \A c \in Builds \ {b} : tracker'[c] = tracker[c]
        /\ \A s \in Streams : tracker'[b][s] = "reading"
        /\ script' \in [Builds -> Seq(Streams)] /\ script'[b] = streams
        /\ \A c \in Builds \ {b} : script'[c] = script[c]
    BY <1>1, <1>2, <1>3 DEF IInv, TypeOK
  <1>7. \A s \in Streams : written[b][s] = 0 /\ tracker[b][s] = "none"
    BY <1>4, <1>5 DEF IInv, Stages
  <1>8. TypeOK'
    <2>1. \A c \in Builds : Len(script'[c]) + written[c]["stdout"] + written[c]["stderr"] <= MaxLines
      <3>1. written[b]["stdout"] = 0 /\ written[b]["stderr"] = 0
        BY <1>7 DEF Streams
      <3>2. Len(script'[b]) + written[b]["stdout"] + written[b]["stderr"] <= MaxLines
        BY <1>3, <1>6, <3>1, SizesAreNat
      <3>3. \A c \in Builds \ {b} : Len(script'[c]) + written[c]["stdout"] + written[c]["stderr"] <= MaxLines
        BY <1>6 DEF IInv, TypeOK
      <3> QED BY <3>2, <3>3
    <2>2. \A c \in Builds : lock' = c <=> phase'[c] \notin {"called", "returned"}
      BY <1>1, <1>4, GotoShape
    <2> QED BY <1>1, <1>5, <1>6, <2>1, <2>2 DEF IInv, TypeOK, Phases
  <1>9. Stages'
    <2>1. progress => IsSeen(Notice(b, "begin"))
      BY <1>4, <1>5 DEF IInv, Stages
    <2>2. "waiting" \notin Early
      BY DEF Early
    <2> SUFFICES ASSUME NEW c \in Builds
                 PROVE  /\ phase'[c] \in Early =>
                             /\ process'[c] = "none" /\ logger'[c] = "none"
                             /\ \A s \in Streams : tracker'[c][s] = "none" /\ written'[c][s] = 0
                        /\ phase'[c] \in {"called", "checking", "creating"} => ~HasShown(c)'
                        /\ phase'[c] = "creating" => progress'
                        /\ logger'[c] = "running" => phase'[c] \in {"waiting", "joining"}
                        /\ progress' /\ phase'[c] \in {"spawning", "waiting", "joining"} => IsSeen(Notice(c, "begin"))'
      BY DEF Stages
    <2>3. CASE c = b
      <3>1. progress => IsSeen(Notice(b, "begin"))'
        BY <1>1, <2>1 DEF IsSeen, Notice
      <3> QED BY <1>1, <1>5, <2>2, <2>3, <3>1
    <2>4. CASE c # b
      <3>1. IsSeen(Notice(c, "begin"))' <=> IsSeen(Notice(c, "begin"))
        BY <1>1 DEF IsSeen, Notice
      <3>2. /\ phase[c] \in Early =>
                 /\ process[c] = "none" /\ logger[c] = "none"
                 /\ \A s \in Streams : tracker[c][s] = "none" /\ written[c][s] = 0
            /\ phase[c] \in {"called", "checking", "creating"} => ~HasShown(c)
            /\ phase[c] = "creating" => progress
            /\ logger[c] = "running" => phase[c] \in {"waiting", "joining"}
            /\ progress /\ phase[c] \in {"spawning", "waiting", "joining"} => IsSeen(Notice(c, "begin"))
        BY DEF IInv, Stages
      <3>3. HasShown(c)' <=> HasShown(c)
        BY <1>1 DEF HasShown
      <3>4. /\ phase'[c] = phase[c] /\ process'[c] = process[c] /\ logger'[c] = logger[c]
            /\ tracker'[c] = tracker[c] /\ written'[c] = written[c] /\ progress' = progress
        BY <1>1, <1>5, <1>6, <2>4
      <3> QED BY <3>1, <3>2, <3>3, <3>4
    <2> QED BY <2>3, <2>4
  <1>10. PipesHoldLatest' /\ LogFollowsSeen' /\ LinesInOrder'
    BY <1>1 DEF IInv, PipesHoldLatest, LogFollowsSeen, LinesInOrder, Tracked, IsSeen
  <1>11. TrackedIsSentOn'
    <2>1. \A c \in Builds, t \in Streams : tracker'[c][t] # "panicked" => tracker[c][t] # "panicked"
      BY <1>6, <1>7
    <2> QED BY <1>1, <2>1 DEF IInv, TrackedIsSentOn, Tracked, IsSeen
  <1>12. LastBlock' /\ BuildsInBlocks'
    BY <1>1, <1>5, BlocksStay DEF Over
  <1> QED BY <1>8, <1>9, <1>10, <1>11, <1>12 DEF IInv

LEMMA LinesAreTyped ==
  /\ \A s \in Streams, n \in 1..MaxLines : Line(s, n) \in LineSet
  /\ \A s, n : Line(s, n).stream = s /\ Line(s, n).number = n
  /\ \A line \in LineSet : /\ line.stream \in Streams /\ line.number \in 1..MaxLines
                           /\ line = Line(line.stream, line.number)
  BY DEF LineSet, Line

(* What is written is not read yet: the lines the trackers have read stay. *)
LEMMA WriteLineKeepsIInv ==
  ASSUME IInv, NEW b \in Builds, WriteLine(b)
  PROVE  IInv'
  <1>1. PICK s : s = Head(script[b])
    OBVIOUS
  <1>2. PICK n : n = written[b][s] + 1
    OBVIOUS
  <1>3. /\ process[b] = "running" /\ script[b] # <<>>
        /\ Len(pipe[b][s]) < PipeSize
        /\ written' = [written EXCEPT ![b][s] = @ + 1]
        /\ pipe' = [pipe EXCEPT ![b][s] = Append(@, Line(s, n))]
        /\ script' = [script EXCEPT ![b] = Tail(@)]
        /\ UNCHANGED <<progress, phase, lock, process, tracker, log, logger, signal, seen>>
    BY <1>1, <1>2 DEF WriteLine, buildVars
  <1>4. /\ script[b] \in Seq(Streams) /\ pipe[b][s] \in Seq(LineSet)
        /\ s \in Streams
        /\ Len(script[b]) \in Nat /\ Len(script[b]) > 0
        /\ Tail(script[b]) \in Seq(Streams) /\ Len(Tail(script[b])) = Len(script[b]) - 1
    <2>1. script[b] \in Seq(Streams)
      BY DEF IInv, TypeOK
    <2>2. s \in Streams /\ Len(script[b]) \in Nat /\ Len(script[b]) > 0
          /\ Tail(script[b]) \in Seq(Streams) /\ Len(Tail(script[b])) = Len(script[b]) - 1
      BY <1>1, <1>3, <2>1, TakenFrom
    <2> QED BY <2>1, <2>2 DEF IInv, TypeOK
  <1>5. /\ written[b]["stdout"] \in Nat /\ written[b]["stderr"] \in Nat
        /\ s = "stdout" \/ s = "stderr"
        /\ Len(script[b]) + written[b]["stdout"] + written[b]["stderr"] <= MaxLines
    BY <1>4 DEF IInv, TypeOK, Streams
  <1>6. n \in 1..MaxLines /\ Line(s, n) \in LineSet
    <2>1. n \in 1..MaxLines
      <3>1. CASE s = "stdout"
        BY <1>2, <1>4, <1>5, <3>1, SizesAreNat
      <3>2. CASE s = "stderr"
        BY <1>2, <1>4, <1>5, <3>2, SizesAreNat
      <3> QED BY <1>5, <3>1, <3>2
    <2> QED BY <1>4, <2>1, LinesAreTyped
  <1>7. /\ written' \in [Builds -> [Streams -> 0..MaxLines]]
        /\ \A c \in Builds, t \in Streams : written'[c][t] = IF c = b /\ t = s THEN n ELSE written[c][t]
    <2>1. written \in [Builds -> [Streams -> 0..MaxLines]]
      BY DEF IInv, TypeOK
    <2>2. written' = [written EXCEPT ![b] = [written[b] EXCEPT ![s] = n]]
      BY <1>2, <1>3, <1>4, <2>1
    <2>3. n \in 0..MaxLines
      BY <1>6, SizesAreNat
    <2>4. [written[b] EXCEPT ![s] = n] \in [Streams -> 0..MaxLines]
      BY <1>4, <2>1, <2>3
    <2> QED BY <1>4, <2>1, <2>2, <2>4
  <1>8. PICK l \in Nat : l = Len(pipe[b][s])
    BY <1>4
  <1>9. /\ Append(pipe[b][s], Line(s, n)) \in Seq(LineSet)
        /\ Len(Append(pipe[b][s], Line(s, n))) = l + 1
        /\ DOMAIN pipe[b][s] = 1..l /\ DOMAIN Append(pipe[b][s], Line(s, n)) = 1..(l + 1)
        /\ \A i \in 1..l : Append(pipe[b][s], Line(s, n))[i] = pipe[b][s][i]
        /\ Append(pipe[b][s], Line(s, n))[l + 1] = Line(s, n)
    BY <1>4, <1>6, <1>8, AppendedTo
  <1>10. /\ pipe' \in [Builds -> [Streams -> Seq(LineSet)]]
         /\ \A c \in Builds, t \in Streams :
              pipe'[c][t] = IF c = b /\ t = s THEN Append(pipe[b][s], Line(s, n)) ELSE pipe[c][t]
    <2>1. pipe \in [Builds -> [Streams -> Seq(LineSet)]]
      BY DEF IInv, TypeOK
    <2> QED BY <1>3, <1>4, <1>9, <2>1
  <1>11. /\ script' \in [Builds -> Seq(Streams)] /\ script'[b] = Tail(script[b])
         /\ \A c \in Builds \ {b} : script'[c] = script[c]
    BY <1>3, <1>4 DEF IInv, TypeOK
  <1>12. TypeOK'
    <2>1. Len(script'[b]) + written'[b]["stdout"] + written'[b]["stderr"] <= MaxLines
      <3>1. Len(script'[b]) = Len(script[b]) - 1
        BY <1>4, <1>11
      <3>2. CASE s = "stdout"
        <4>1. written'[b]["stdout"] = n /\ written'[b]["stderr"] = written[b]["stderr"]
          BY <1>7, <3>2 DEF Streams
        <4> QED BY <1>2, <1>4, <1>5, <3>1, <3>2, <4>1, SizesAreNat
      <3>3. CASE s = "stderr"
        <4>1. written'[b]["stderr"] = n /\ written'[b]["stdout"] = written[b]["stdout"]
          BY <1>7, <3>3 DEF Streams
        <4>2. n = written[b]["stderr"] + 1
          BY <1>2, <3>3
        <4>3. \A k, o, e \in Nat : k + o + e <= MaxLines => k - 1 + o + (e + 1) <= MaxLines
          BY SizesAreNat
        <4> QED BY <1>4, <1>5, <3>1, <4>1, <4>2, <4>3
      <3> QED BY <1>5, <3>2, <3>3
    <2>2. \A c \in Builds \ {b} : Len(script'[c]) + written'[c]["stdout"] + written'[c]["stderr"] <= MaxLines
      BY <1>7, <1>11 DEF IInv, TypeOK, Streams
    <2>3. \A c \in Builds, t \in Streams : Len(pipe'[c][t]) <= PipeSize
      <3>1. l + 1 <= PipeSize
        BY <1>3, <1>8, SizesAreNat
      <3>2. \A c \in Builds, t \in Streams : Len(pipe[c][t]) <= PipeSize
        BY DEF IInv, TypeOK
      <3>3. ASSUME NEW c \in Builds, NEW t \in Streams PROVE Len(pipe'[c][t]) <= PipeSize
        <4>1. CASE c = b /\ t = s
          BY <1>9, <1>10, <3>1, <4>1
        <4>2. CASE ~(c = b /\ t = s)
          <5>1. pipe'[c][t] = pipe[c][t]
            BY <1>10, <4>2
          <5> QED BY <3>2, <5>1
        <4> QED BY <4>1, <4>2
      <3> QED BY <3>3
    <2> QED BY <1>3, <1>7, <1>10, <1>11, <2>1, <2>2, <2>3 DEF IInv, TypeOK
  <1>13. Stages'
    <2>1. phase[b] \notin Early
      BY <1>3, EarlyIsIdle
    <2> QED BY <1>3, <1>7, <2>1, StagesStay
  <1>14. LastBlock' /\ BuildsInBlocks'
    BY <1>3, BlocksStay
  <1>15. /\ l <= written[b][s]
         /\ \A i \in 1..l : pipe[b][s][i] = Line(s, written[b][s] - l + i)
         /\ written[b][s] \in Nat
    BY <1>4, <1>8, <1>9, SizesAreNat DEF IInv, PipesHoldLatest, TypeOK
  <1>16. PipesHoldLatest'
    <2> SUFFICES ASSUME NEW c \in Builds, NEW t \in Streams
                 PROVE  /\ Len(pipe'[c][t]) <= written'[c][t]
                        /\ \A i \in DOMAIN pipe'[c][t] :
                             pipe'[c][t][i] = Line(t, written'[c][t] - Len(pipe'[c][t]) + i)
      BY DEF PipesHoldLatest
    <2>1. CASE c = b /\ t = s
      <3>1. l + 1 <= n
        BY <1>2, <1>15
      <3>2. \A i \in 1..l : n - (l + 1) + i = written[b][s] - l + i
        BY <1>2, <1>15
      <3>3. n - (l + 1) + (l + 1) = n
        BY <1>6
      <3>4. \A i \in 1..(l + 1) : i \in 1..l \/ i = l + 1
        BY <1>8
      <3>5. pipe'[c][t] = Append(pipe[b][s], Line(s, n)) /\ written'[c][t] = n
        BY <1>7, <1>10, <2>1
      <3> QED BY <1>9, <1>15, <2>1, <3>1, <3>2, <3>3, <3>4, <3>5
    <2>2. CASE ~(c = b /\ t = s)
      <3>1. pipe'[c][t] = pipe[c][t] /\ written'[c][t] = written[c][t]
        BY <1>7, <1>10, <2>2
      <3> QED BY <3>1 DEF IInv, PipesHoldLatest
    <2> QED BY <2>1, <2>2
  <1>17. ASSUME NEW c \in Builds, NEW t \in Streams PROVE Tracked(c, t)' = Tracked(c, t)
    <2>1. CASE c = b /\ t = s
      <3>1. Len(pipe'[c][t]) = l + 1 /\ written'[c][t] = n
        BY <1>7, <1>9, <1>10, <2>1
      <3>2. n - (l + 1) = written[b][s] - l
        BY <1>2, <1>15
      <3> QED BY <1>8, <2>1, <3>1, <3>2 DEF Tracked
    <2>2. CASE ~(c = b /\ t = s)
      <3>1. pipe'[c][t] = pipe[c][t] /\ written'[c][t] = written[c][t]
        BY <1>7, <1>10, <2>2
      <3> QED BY <3>1 DEF Tracked
    <2> QED BY <2>1, <2>2
  <1>18. LogFollowsSeen'
    <2>1. \A c \in Builds : \A i \in DOMAIN log[c] : log[c][i].stream \in Streams
      BY LinesAreTyped DEF IInv, TypeOK
    <2> QED BY <1>3, <1>17, <2>1 DEF IInv, LogFollowsSeen, IsSeen
  <1>19. TrackedIsSentOn'
    BY <1>3, <1>17 DEF IInv, TrackedIsSentOn, IsSeen
  <1>20. LinesInOrder'
    <2> SUFFICES ASSUME NEW i \in DOMAIN seen, seen[i].kind = "log"
                 PROVE  seen[i].line.number <= written'[seen[i].build][seen[i].line.stream]
      BY <1>3 DEF IInv, LinesInOrder
    <2>1. seen[i] \in NoticeSet
      BY DEF IInv, TypeOK
    <2>2. /\ seen[i].build \in Builds /\ seen[i].line.stream \in Streams
          /\ seen[i].line.number \in Nat
          /\ seen[i].line.number <= written[seen[i].build][seen[i].line.stream]
      BY <2>1, NoticesAreTyped, LinesAreTyped, SizesAreNat DEF IInv, LinesInOrder
    <2> QED BY <1>2, <1>7, <1>15, <2>2
  <1> QED BY <1>12, <1>13, <1>14, <1>16, <1>18, <1>19, <1>20 DEF IInv

(* A tracker reads the first line of the pipe: it is the one after those   *)
(* that have been read, so it follows what is in the log channel.          *)
LEMMA TrackLineKeepsIInv ==
  ASSUME IInv, NEW b \in Builds, NEW s \in Streams, TrackLine(b, s)
  PROVE  IInv'
  <1>1. /\ tracker[b][s] = "reading" /\ pipe[b][s] # <<>>
        /\ pipe' = [pipe EXCEPT ![b][s] = Tail(@)]
        /\ \/ log' = [log EXCEPT ![b] = Append(@, Head(pipe[b][s]))] /\ tracker' = tracker
           \/ tracker' = [tracker EXCEPT ![b][s] = "panicked"] /\ log' = log
        /\ UNCHANGED <<progress, phase, lock, process, script, written, logger, signal, seen>>
    BY DEF TrackLine, buildVars, processVars
  <1>2. PICK l \in Nat : l = Len(pipe[b][s])
    BY DEF IInv, TypeOK
  <1>3. PICK k \in Nat : k = Len(log[b])
    BY DEF IInv, TypeOK
  <1>4. PICK r : r = Tracked(b, s)
    OBVIOUS
  <1>5. /\ l > 0 /\ pipe[b][s] \in Seq(LineSet) /\ DOMAIN pipe[b][s] = 1..l
        /\ Tail(pipe[b][s]) \in Seq(LineSet)
        /\ Len(Tail(pipe[b][s])) = l - 1 /\ DOMAIN Tail(pipe[b][s]) = 1..(l - 1)
        /\ \A i \in 1..(l - 1) : Tail(pipe[b][s])[i] = pipe[b][s][i + 1]
        /\ Head(pipe[b][s]) = pipe[b][s][1]
        /\ Head(pipe[b][s]) \in LineSet
    <2>1. pipe[b][s] \in Seq(LineSet)
      BY DEF IInv, TypeOK
    <2> QED BY <1>1, <1>2, <2>1, TakenFrom
  <1>6. written[b][s] \in Nat /\ l <= written[b][s] /\ r = written[b][s] - l /\ r \in Nat
    <2>1. written[b][s] \in Nat
      BY SizesAreNat DEF IInv, TypeOK
    <2>2. l <= written[b][s] /\ r = written[b][s] - l
      BY <1>2, <1>4 DEF IInv, PipesHoldLatest, Tracked
    <2> QED BY <1>2, <2>1, <2>2
  <1>7. /\ \A i \in 1..(l - 1) : Tail(pipe[b][s])[i] = Line(s, r + 1 + i)
        /\ Head(pipe[b][s]) = Line(s, r + 1)
    <2>1. \A i \in 1..l : pipe[b][s][i] = Line(s, written[b][s] - l + i)
      BY <1>2, <1>5 DEF IInv, PipesHoldLatest
    <2>2. ASSUME NEW i \in 1..(l - 1) PROVE Tail(pipe[b][s])[i] = Line(s, r + 1 + i)
      <3>1. i + 1 \in 1..l /\ written[b][s] - l + (i + 1) = r + 1 + i
        BY <1>2, <1>6
      <3>2. pipe[b][s][i + 1] = Line(s, written[b][s] - l + (i + 1))
        BY <2>1, <3>1
      <3> QED BY <1>5, <3>1, <3>2
    <2>3. Head(pipe[b][s]) = Line(s, r + 1)
      <3>1. 1 \in 1..l /\ written[b][s] - l + 1 = r + 1
        BY <1>2, <1>5, <1>6
      <3>2. pipe[b][s][1] = Line(s, written[b][s] - l + 1)
        BY <2>1, <3>1
      <3> QED BY <1>5, <3>1, <3>2
    <2> QED BY <2>2, <2>3
  <1>8. /\ pipe' \in [Builds -> [Streams -> Seq(LineSet)]]
        /\ \A c \in Builds, t \in Streams :
             pipe'[c][t] = IF c = b /\ t = s THEN Tail(pipe[b][s]) ELSE pipe[c][t]
    <2>1. pipe \in [Builds -> [Streams -> Seq(LineSet)]]
      BY DEF IInv, TypeOK
    <2> QED BY <1>1, <1>5, <2>1
  <1>9. ASSUME NEW c \in Builds, NEW t \in Streams
        PROVE  Tracked(c, t)' = IF c = b /\ t = s THEN r + 1 ELSE Tracked(c, t)
    <2>1. CASE c = b /\ t = s
      <3>1. Len(pipe'[c][t]) = l - 1 /\ written'[c][t] = written[b][s]
        BY <1>1, <1>5, <1>8, <2>1
      <3> QED BY <1>2, <1>6, <2>1, <3>1 DEF Tracked
    <2>2. CASE ~(c = b /\ t = s)
      <3>1. pipe'[c][t] = pipe[c][t] /\ written'[c][t] = written[c][t]
        BY <1>1, <1>8, <2>2
      <3> QED BY <2>2, <3>1 DEF Tracked
    <2> QED BY <2>1, <2>2
  <1>10. PipesHoldLatest'
    <2> SUFFICES ASSUME NEW c \in Builds, NEW t \in Streams
                 PROVE  /\ Len(pipe'[c][t]) <= written'[c][t]
                        /\ \A i \in DOMAIN pipe'[c][t] :
                             pipe'[c][t][i] = Line(t, written'[c][t] - Len(pipe'[c][t]) + i)
      BY DEF PipesHoldLatest
    <2>1. CASE c = b /\ t = s
      <3>1. pipe'[c][t] = Tail(pipe[b][s]) /\ written'[c][t] = written[b][s]
        BY <1>1, <1>8, <2>1
      <3>2. l - 1 <= written[b][s] /\ written[b][s] - (l - 1) = r + 1
        BY <1>2, <1>6
      <3> QED BY <1>5, <1>7, <2>1, <3>1, <3>2
    <2>2. CASE ~(c = b /\ t = s)
      <3>1. pipe'[c][t] = pipe[c][t] /\ written'[c][t] = written[c][t]
        BY <1>1, <1>8, <2>2
      <3> QED BY <3>1 DEF IInv, PipesHoldLatest
    <2> QED BY <2>1, <2>2
  <1>11. LinesInOrder' /\ LastBlock' /\ BuildsInBlocks'
    BY <1>1, BlocksStay DEF IInv, LinesInOrder
  <1>12. Stages'
    <2>1. phase[b] \notin Early
      BY <1>1, EarlyIsIdle
    <2>2. \A c \in Builds \ {b} : tracker'[c] = tracker[c]
      BY <1>1 DEF IInv, TypeOK
    <2> QED BY <1>1, <2>1, <2>2, StagesStay
  <1>13. \A c \in Builds, t \in Streams : Len(pipe'[c][t]) <= PipeSize
    <2>1. \A c \in Builds, t \in Streams : Len(pipe[c][t]) <= PipeSize
      BY DEF IInv, TypeOK
    <2>2. l - 1 <= PipeSize
      BY <1>2, <2>1, SizesAreNat
    <2>3. ASSUME NEW c \in Builds, NEW t \in Streams PROVE Len(pipe'[c][t]) <= PipeSize
      <3>1. CASE c = b /\ t = s
        BY <1>5, <1>8, <2>2, <3>1
      <3>2. CASE ~(c = b /\ t = s)
        <4>1. pipe'[c][t] = pipe[c][t]
          BY <1>8, <3>2
        <4> QED BY <2>1, <4>1
      <3> QED BY <3>1, <3>2
    <2> QED BY <2>3
  <1>14. \A c \in Builds : \A i \in DOMAIN log[c] : log[c][i].stream \in Streams /\ log[c][i].number \in Nat
    BY LinesAreTyped, SizesAreNat DEF IInv, TypeOK
  <1>15. ASSUME NEW c \in Builds, NEW t \in Streams PROVE Tracked(c, t) \in Int
    <2>1. Len(pipe[c][t]) \in Nat /\ written[c][t] \in Int
      BY SizesAreNat DEF IInv, TypeOK
    <2> QED BY <2>1 DEF Tracked
  <1>16. ASSUME NEW c \in Builds, NEW t \in Streams
         PROVE  Tracked(c, t) <= Tracked(c, t)' /\ Tracked(c, t)' \in Int
    <2>1. CASE c = b /\ t = s
      <3>1. Tracked(c, t) = r /\ Tracked(c, t)' = r + 1
        BY <1>4, <1>9, <2>1
      <3> QED BY <1>6, <3>1
    <2>2. CASE ~(c = b /\ t = s)
      <3>1. Tracked(c, t)' = Tracked(c, t)
        BY <1>9, <2>2
      <3> QED BY <1>15, <3>1
    <2> QED BY <2>1, <2>2
  <1>17. ASSUME NEW c \in Builds, NEW i \in DOMAIN seen, NEW t \in Streams,
                seen[i].build = c, seen[i].kind = "log", seen[i].line.stream = t
         PROVE  seen[i].line.number <= Tracked(c, t)'
    <2>0. seen[i] \in NoticeSet
      BY DEF IInv, TypeOK
    <2>1. seen[i].line.number \in Nat
      <3>1. seen[i].line \in LineSet
        BY <1>17, <2>0, NoticesAreTyped
      <3>2. seen[i].line.number \in 1..MaxLines
        BY <3>1, LinesAreTyped
      <3> QED BY <3>2, SizesAreNat
    <2>2. seen[i].line.number <= Tracked(c, t)
      BY <1>17 DEF IInv, TrackedIsSentOn
    <2> QED BY <1>15, <1>16, <2>1, <2>2
  <1>18. ASSUME NEW c \in Builds, NEW i \in DOMAIN log[c], NEW t \in Streams, t = log[c][i].stream
         PROVE  log[c][i].number <= Tracked(c, t)'
    <2>1. log[c][i].number <= Tracked(c, t)
      BY <1>18 DEF IInv, LogFollowsSeen
    <2> QED BY <1>14, <1>15, <1>16, <2>1
  <1>19. CASE log' = log /\ tracker' = [tracker EXCEPT ![b][s] = "panicked"]
    <2>1. /\ tracker' \in [Builds -> [Streams -> {"none", "reading", "ended", "panicked"}]]
          /\ \A c \in Builds, t \in Streams :
               tracker'[c][t] # "panicked" => tracker[c][t] # "panicked" /\ ~(c = b /\ t = s)
      BY <1>19 DEF IInv, TypeOK
    <2>2. TypeOK'
      BY <1>1, <1>8, <1>13, <1>19, <2>1 DEF IInv, TypeOK
    <2>3. LogFollowsSeen'
      <3>1. ASSUME NEW c \in Builds, NEW i \in DOMAIN log[c], NEW t, NEW n,
                   t = log[c][i].stream, n = log[c][i].number
            PROVE  /\ n <= Tracked(c, t)'
                   /\ \A j \in 1..i - 1 : log[c][j].stream = t => log[c][j].number < n
                   /\ \A j \in DOMAIN seen :
                        seen[j].build = c /\ seen[j].kind = "log" /\ seen[j].line.stream = t
                        => seen[j].line.number < n
                   /\ n > 1 => \/ \E j \in DOMAIN seen : seen[j] = LogNotice(c, Line(t, n - 1))
                               \/ \E j \in 1..i - 1 : log[c][j] = Line(t, n - 1)
        BY <1>14, <1>18, <3>1 DEF IInv, LogFollowsSeen, IsSeen
      <3> QED BY <1>1, <1>19, <3>1 DEF LogFollowsSeen, Tracked, IsSeen
    <2>4. TrackedIsSentOn'
      <3> SUFFICES ASSUME NEW c \in Builds, NEW t \in Streams, tracker'[c][t] # "panicked", Tracked(c, t)' > 0
                   PROVE  \/ \E i \in DOMAIN seen : seen[i] = LogNotice(c, Line(t, Tracked(c, t)'))
                          \/ \E i \in DOMAIN log[c] : log[c][i] = Line(t, Tracked(c, t)')
        BY <1>1, <1>17, <1>19 DEF TrackedIsSentOn, IsSeen
      <3>1. Tracked(c, t)' = Tracked(c, t) /\ tracker[c][t] # "panicked"
        BY <1>9, <2>1
      <3> QED BY <3>1 DEF IInv, TrackedIsSentOn, IsSeen
    <2> QED BY <1>10, <1>11, <1>12, <2>2, <2>3, <2>4 DEF IInv
  <1>20. CASE log' = [log EXCEPT ![b] = Append(@, Head(pipe[b][s]))] /\ tracker' = tracker
    <2>1. PICK h : h = Line(s, r + 1)
      OBVIOUS
    <2>2. /\ h \in LineSet /\ h.stream = s /\ h.number = r + 1
          /\ h = Head(pipe[b][s])
      BY <1>5, <1>7, <2>1, LinesAreTyped
    <2>3. /\ log \in [Builds -> Seq(LineSet)] /\ log[b] \in Seq(LineSet)
          /\ DOMAIN log[b] = 1..k /\ Append(log[b], h) \in Seq(LineSet)
          /\ DOMAIN Append(log[b], h) = 1..(k + 1)
          /\ \A i \in 1..k : Append(log[b], h)[i] = log[b][i]
          /\ Append(log[b], h)[k + 1] = h
      <3>1. log \in [Builds -> Seq(LineSet)] /\ log[b] \in Seq(LineSet)
        BY DEF IInv, TypeOK
      <3> QED BY <1>3, <2>2, <3>1, AppendedTo
    <2>4. /\ log' \in [Builds -> Seq(LineSet)]
          /\ log'[b] = Append(log[b], h)
          /\ \A c \in Builds \ {b} : log'[c] = log[c]
          /\ DOMAIN log'[b] = 1..(k + 1) /\ log'[b][k + 1] = h
          /\ \A i \in 1..k : log'[b][i] = log[b][i]
      <3>1. /\ log' \in [Builds -> Seq(LineSet)]
            /\ log'[b] = Append(log[b], h)
            /\ \A c \in Builds \ {b} : log'[c] = log[c]
        BY <1>20, <2>2, <2>3
      <3> QED BY <2>3, <3>1
    <2>5. TypeOK'
      BY <1>1, <1>8, <1>13, <1>20, <2>4 DEF IInv, TypeOK
    <2>6. ASSUME NEW c \in Builds, NEW i \in DOMAIN log[c], NEW t \in Streams, t = log[c][i].stream
          PROVE  LET n == log[c][i].number
                 IN /\ n <= Tracked(c, t)'
                    /\ \A j \in 1..i - 1 : log[c][j].stream = t => log[c][j].number < n
                    /\ \A j \in DOMAIN seen :
                         seen[j].build = c /\ seen[j].kind = "log" /\ seen[j].line.stream = t
                         => seen[j].line.number < n
                    /\ n > 1 => \/ \E j \in DOMAIN seen : seen[j] = LogNotice(c, Line(t, n - 1))
                                \/ \E j \in 1..i - 1 : log[c][j] = Line(t, n - 1)
      BY <1>18, <2>6 DEF IInv, LogFollowsSeen, IsSeen
    <2>7. /\ \A j \in 1..k : log[b][j].stream = s => log[b][j].number < r + 1
          /\ \A j \in DOMAIN seen :
               seen[j].build = b /\ seen[j].kind = "log" /\ seen[j].line.stream = s
               => seen[j].line.number < r + 1
          /\ r > 0 => \/ \E j \in DOMAIN seen : seen[j] = LogNotice(b, Line(s, r))
                      \/ \E j \in 1..k : log[b][j] = Line(s, r)
      <3>1. ASSUME NEW j \in 1..k, log[b][j].stream = s PROVE log[b][j].number < r + 1
        <4>1. log[b][j].number <= r
          BY <1>4, <2>3, <3>1 DEF IInv, LogFollowsSeen
        <4> QED BY <1>6, <1>14, <2>3, <4>1
      <3>2. ASSUME NEW j \in DOMAIN seen, seen[j].build = b, seen[j].kind = "log", seen[j].line.stream = s
            PROVE  seen[j].line.number < r + 1
        <4>1. seen[j].line.number <= r
          BY <1>4, <3>2 DEF IInv, TrackedIsSentOn
        <4>2. seen[j].line.number \in Nat
          BY <3>2, NoticesAreTyped, LinesAreTyped, SizesAreNat DEF IInv, TypeOK
        <4> QED BY <1>6, <4>1, <4>2
      <3>3. r > 0 => \/ \E j \in DOMAIN seen : seen[j] = LogNotice(b, Line(s, r))
                     \/ \E j \in 1..k : log[b][j] = Line(s, r)
        BY <1>1, <1>4, <2>3 DEF IInv, TrackedIsSentOn, IsSeen
      <3> QED BY <3>1, <3>2, <3>3
    <2>8. ASSUME NEW c \in Builds, NEW i \in DOMAIN log[c]
          PROVE  i \in Nat \ {0} /\ \A j \in 1..i : j \in DOMAIN log'[c] /\ log'[c][j] = log[c][j]
      <3>1. CASE c = b
        <4>1. i \in 1..k
          BY <2>3, <3>1
        <4>2. i \in Nat \ {0} /\ \A j \in 1..i : j \in 1..k /\ j \in 1..(k + 1)
          BY <1>3, <4>1
        <4> QED BY <2>3, <2>4, <3>1, <4>2
      <3>2. CASE c # b
        <4>1. PICK m \in Nat : DOMAIN log[c] = 1..m
          BY <2>3
        <4> QED BY <2>4, <3>2, <4>1
      <3> QED BY <3>1, <3>2
    <2>9. ASSUME NEW c \in Builds, NEW i \in DOMAIN log'[c], NEW t, NEW n,
                 t = log'[c][i].stream, n = log'[c][i].number
          PROVE  /\ n <= Tracked(c, t)'
                 /\ \A j \in 1..i - 1 : log'[c][j].stream = t => log'[c][j].number < n
                 /\ \A j \in DOMAIN seen :
                      seen[j].build = c /\ seen[j].kind = "log" /\ seen[j].line.stream = t
                      => seen[j].line.number < n
                 /\ n > 1 => \/ \E j \in DOMAIN seen : seen[j] = LogNotice(c, Line(t, n - 1))
                             \/ \E j \in 1..i - 1 : log'[c][j] = Line(t, n - 1)
      <3>1. CASE c = b /\ i = k + 1
        <4>1. log'[c][i] = h /\ \A j \in 1..k : log'[c][j] = log[c][j]
          BY <2>3, <2>4, <3>1
        <4>2. Tracked(b, s)' = r + 1
          BY <1>9
        <4>3. r + 1 <= r + 1 /\ r + 1 - 1 = r /\ (r + 1 > 1 => r > 0) /\ i - 1 = k
          BY <1>3, <1>6, <3>1
        <4>4. t = s /\ n = r + 1
          BY <2>2, <2>9, <4>1
        <4>5. \A j \in 1..k : log'[c][j] = log[b][j]
          BY <3>1, <4>1
        <4>6. n <= Tracked(c, t)'
          <5>1. Tracked(c, t)' = r + 1
            BY <1>9, <2>2, <3>1, <4>4
          <5> QED BY <4>3, <4>4, <5>1
        <4>7. \A j \in 1..i - 1 : log'[c][j].stream = t => log'[c][j].number < n
          BY <2>7, <4>3, <4>4, <4>5
        <4>8. \A j \in DOMAIN seen :
                seen[j].build = c /\ seen[j].kind = "log" /\ seen[j].line.stream = t
                => seen[j].line.number < n
          BY <2>7, <3>1, <4>4
        <4>9. n > 1 => \/ \E j \in DOMAIN seen : seen[j] = LogNotice(c, Line(t, n - 1))
                       \/ \E j \in 1..i - 1 : log'[c][j] = Line(t, n - 1)
          <5>1. n - 1 = r
            BY <1>6, <4>4
          <5> QED BY <2>7, <3>1, <4>3, <4>4, <4>5, <5>1
        <4> QED BY <4>6, <4>7, <4>8, <4>9
      <3>2. CASE ~(c = b /\ i = k + 1)
        <4>1. i \in DOMAIN log[c]
          <5>1. CASE c = b
            BY <1>3, <2>3, <2>4, <3>2, <5>1
          <5>2. CASE c # b
            BY <2>4, <5>2
          <5> QED BY <5>1, <5>2
        <4>2. log'[c][i] = log[c][i] /\ \A j \in 1..i - 1 : log'[c][j] = log[c][j]
          <5>1. i \in 1..i /\ \A j \in 1..i - 1 : j \in 1..i
            BY <2>8, <4>1
          <5> QED BY <2>8, <4>1, <5>1
        <4>3. t \in Streams /\ t = log[c][i].stream /\ n = log[c][i].number
          BY <1>14, <2>9, <4>1, <4>2
        <4> QED BY <2>6, <4>1, <4>2, <4>3
      <3> QED BY <3>1, <3>2
    <2>10. LogFollowsSeen'
      BY <1>1, <2>9 DEF LogFollowsSeen, Tracked, IsSeen
    <2>11. TrackedIsSentOn'
      <3> SUFFICES ASSUME NEW c \in Builds, NEW t \in Streams, tracker[c][t] # "panicked", Tracked(c, t)' > 0
                   PROVE  \/ \E i \in DOMAIN seen : seen[i] = LogNotice(c, Line(t, Tracked(c, t)'))
                          \/ \E i \in DOMAIN log'[c] : log'[c][i] = Line(t, Tracked(c, t)')
        BY <1>1, <1>17, <1>20 DEF TrackedIsSentOn, IsSeen
      <3>1. CASE c = b /\ t = s
        <4>1. Tracked(c, t)' = r + 1 /\ k + 1 \in DOMAIN log'[c] /\ log'[c][k + 1] = h
          BY <1>3, <1>9, <2>3, <2>4, <3>1
        <4> QED BY <2>1, <3>1, <4>1
      <3>2. CASE ~(c = b /\ t = s)
        <4>1. Tracked(c, t)' = Tracked(c, t)
          BY <1>9, <3>2
        <4>2. \A i \in DOMAIN log[c] : i \in DOMAIN log'[c] /\ log'[c][i] = log[c][i]
          <5>1. ASSUME NEW i \in DOMAIN log[c] PROVE i \in DOMAIN log'[c] /\ log'[c][i] = log[c][i]
            <6>1. i \in 1..i
              BY <2>8
            <6> QED BY <2>8, <6>1
          <5> QED BY <5>1
        <4> QED BY <4>1, <4>2 DEF IInv, TrackedIsSentOn, IsSeen
      <3> QED BY <3>1, <3>2
    <2> QED BY <1>10, <1>11, <1>12, <2>5, <2>10, <2>11 DEF IInv
  <1> QED BY <1>1, <1>19, <1>20

(* Of the stream of the channel's first line, just the lines before it have*)
(* been shown.                                                             *)
LEMMA FirstLineFollowsShown ==
  ASSUME IInv, NEW b \in Builds, log[b] # <<>>,
         NEW s \in Streams, NEW n \in 1..MaxLines, log[b][1] = Line(s, n)
  PROVE  /\ n <= Tracked(b, s)
         /\ \A j \in DOMAIN seen : seen[j].build = b /\ seen[j].kind = "log" /\ seen[j].line.stream = s
                                  => seen[j].line.number < n
         /\ \A x \in 1..n - 1 : \E j \in DOMAIN seen : seen[j] = LogNotice(b, Line(s, x))
  <1>1. 1 \in DOMAIN log[b] /\ \A j : j \notin 1..1 - 1
    BY DEF IInv, TypeOK
  <1>2. log[b][1].stream = s /\ log[b][1].number = n
    BY DEF Line
  <1>3. /\ n <= Tracked(b, s)
        /\ \A j \in DOMAIN seen : seen[j].build = b /\ seen[j].kind = "log" /\ seen[j].line.stream = s
                                 => seen[j].line.number < n
        /\ n > 1 => IsSeen(LogNotice(b, Line(s, n - 1)))
    BY <1>1, <1>2 DEF IInv, LogFollowsSeen
  <1>4. ASSUME NEW x \in 1..n - 1
        PROVE  \E j \in DOMAIN seen : seen[j] = LogNotice(b, Line(s, x))
    <2>1. PICK j \in DOMAIN seen : seen[j] = LogNotice(b, Line(s, n - 1))
      BY <1>3, <1>4, SizesAreNat DEF IsSeen
    <2>2. /\ seen[j].kind = "log" /\ seen[j].build = b
          /\ seen[j].line.stream = s /\ seen[j].line.number = n - 1
      BY <2>1 DEF LogNotice, Line
    <2>3. CASE x = n - 1
      BY <2>1, <2>3
    <2>4. CASE x # n - 1
      <3>1. x \in 1..(n - 1) - 1
        BY <1>4, <2>4, SizesAreNat
      <3>2. PICK i \in 1..j - 1 : seen[i] = LogNotice(b, Line(s, x))
        BY <2>2, <3>1 DEF IInv, LinesInOrder
      <3>3. i \in DOMAIN seen
        BY <3>2 DEF IInv, TypeOK
      <3> QED BY <3>2, <3>3
    <2> QED BY <2>3, <2>4
  <1> QED BY <1>3, <1>4

(* The log thread shows the first line of its channel.                     *)
LEMMA ForwardLineKeepsIInv ==
  ASSUME IInv, NEW b \in Builds, ForwardLine(b)
  PROVE  IInv'
  <1>1. PICK h : h = Head(log[b])
    OBVIOUS
  <1>2. PICK new : new = LogNotice(b, h)
    OBVIOUS
  <1>3. /\ logger[b] = "running" /\ log[b] # <<>>
        /\ seen' = Append(seen, new)
        /\ log' = [log EXCEPT ![b] = Tail(@)]
        /\ UNCHANGED <<progress, phase, lock, process, script, written, pipe, tracker, logger, signal>>
    BY <1>1, <1>2 DEF ForwardLine, buildVars, processVars
  <1>4. PICK l \in Nat : l = Len(seen)
    BY DEF IInv, TypeOK
  <1>5. PICK k \in Nat : k = Len(log[b])
    BY DEF IInv, TypeOK
  <1>6. /\ log \in [Builds -> Seq(LineSet)] /\ log[b] \in Seq(LineSet)
        /\ k > 0 /\ DOMAIN log[b] = 1..k
        /\ Tail(log[b]) \in Seq(LineSet)
        /\ DOMAIN Tail(log[b]) = 1..(k - 1)
        /\ \A i \in 1..(k - 1) : Tail(log[b])[i] = log[b][i + 1]
        /\ h = log[b][1] /\ h \in LineSet
    <2>1. log \in [Builds -> Seq(LineSet)] /\ log[b] \in Seq(LineSet)
      BY DEF IInv, TypeOK
    <2> QED BY <1>1, <1>3, <1>5, <2>1, TakenFrom
  <1>7. /\ log' \in [Builds -> Seq(LineSet)]
        /\ DOMAIN log'[b] = 1..(k - 1)
        /\ \A i \in 1..(k - 1) : log'[b][i] = log[b][i + 1]
        /\ \A c \in Builds \ {b} : log'[c] = log[c]
    BY <1>3, <1>6
  <1>8. new \in NoticeSet /\ new.build = b /\ new.kind = "log" /\ new.line = h
    BY <1>2, <1>6, NoticesAreTyped
  <1>9. PICK t \in Streams : t = h.stream
    BY <1>6, LinesAreTyped
  <1>10. PICK n \in 1..MaxLines : n = h.number
    BY <1>6, LinesAreTyped
  <1>11. /\ seen \in Seq(NoticeSet)
         /\ DOMAIN seen = 1..l /\ DOMAIN seen' = 1..(l + 1)
         /\ \A i \in 1..l : seen'[i] = seen[i] /\ seen[i] \in NoticeSet
         /\ seen'[l + 1] = new
    <2>1. seen \in Seq(NoticeSet)
      BY DEF IInv, TypeOK
    <2> QED BY <1>3, <1>4, <1>8, <2>1, AppendedTo
  <1>12. /\ n <= Tracked(b, t)
         /\ \A j \in 1..l : seen[j].build = b /\ seen[j].kind = "log" /\ seen[j].line.stream = t
                            => seen[j].line.number < n
         /\ \A x \in 1..n - 1 : \E j \in 1..l : seen[j] = LogNotice(b, Line(t, x))
    <2>1. log[b][1] = Line(t, n)
      BY <1>6, <1>9, <1>10, LinesAreTyped
    <2>2. log[b] # <<>>
      BY <1>3
    <2>3. DOMAIN seen = 1..l
      BY <1>11
    <2>4. /\ n <= Tracked(b, t)
          /\ \A j \in DOMAIN seen : seen[j].build = b /\ seen[j].kind = "log" /\ seen[j].line.stream = t
                                   => seen[j].line.number < n
          /\ \A x \in 1..n - 1 : \E j \in DOMAIN seen : seen[j] = LogNotice(b, Line(t, x))
      BY <2>1, <2>2, FirstLineFollowsShown
    <2> QED BY ONLY <2>3, <2>4
  <1>13. /\ phase[b] \in {"waiting", "joining"} /\ lock = b
         /\ progress => IsSeen(Notice(b, "begin"))
    <2>1. phase[b] \in {"waiting", "joining"}
      BY <1>3 DEF IInv, Stages
    <2> QED BY <2>1 DEF IInv, TypeOK, Stages
  <1>14. LastBlock' /\ BuildsInBlocks' /\ seen' \in Seq(NoticeSet)
    BY <1>3, <1>8, <1>13, BlocksGrow DEF Over
  <1>15. TypeOK'
    BY <1>3, <1>7, <1>14 DEF IInv, TypeOK
  <1>16. Stages'
    <2> SUFFICES ASSUME NEW c \in Builds
                 PROVE  /\ phase[c] \in Early =>
                             /\ process[c] = "none" /\ logger[c] = "none"
                             /\ \A s \in Streams : tracker[c][s] = "none" /\ written[c][s] = 0
                        /\ phase[c] \in {"called", "checking", "creating"} =>
                             \A i \in DOMAIN seen' : seen'[i].build # c
                        /\ phase[c] = "creating" => progress
                        /\ logger[c] = "running" => phase[c] \in {"waiting", "joining"}
                        /\ progress /\ phase[c] \in {"spawning", "waiting", "joining"} =>
                             \E i \in DOMAIN seen' : seen'[i] = Notice(c, "begin")
      BY <1>3 DEF Stages, HasShown, IsSeen, Notice
    <2>1. /\ phase[c] \in Early =>
               /\ process[c] = "none" /\ logger[c] = "none"
               /\ \A s \in Streams : tracker[c][s] = "none" /\ written[c][s] = 0
          /\ phase[c] = "creating" => progress
          /\ logger[c] = "running" => phase[c] \in {"waiting", "joining"}
      BY DEF IInv, Stages
    <2>2. ASSUME phase[c] \in {"called", "checking", "creating"}, NEW i \in 1..(l + 1) PROVE seen'[i].build # c
      <3>1. \A j \in 1..l : seen[j].build # c
        BY <1>11, <2>2 DEF IInv, Stages, HasShown
      <3>2. c # b
        BY <1>13, <2>2
      <3> QED BY <1>4, <1>8, <1>11, <3>1, <3>2
    <2>3. ASSUME progress, phase[c] \in {"spawning", "waiting", "joining"}
          PROVE  \E i \in 1..(l + 1) : seen'[i] = Notice(c, "begin")
      <3>1. PICK i \in 1..l : seen[i] = Notice(c, "begin")
        BY <1>11, <2>3 DEF IInv, Stages, IsSeen
      <3> QED BY <1>4, <1>11, <3>1
    <2> QED BY <1>11, <2>1, <2>2, <2>3
  <1>17. PipesHoldLatest'
    BY <1>3 DEF IInv, PipesHoldLatest
  <1>18. ASSUME NEW c \in Builds, NEW i \in DOMAIN log'[c], NEW s, NEW m,
                s = log'[c][i].stream, m = log'[c][i].number
         PROVE  /\ m <= Tracked(c, s)
                /\ \A j \in 1..i - 1 : log'[c][j].stream = s => log'[c][j].number < m
                /\ \A j \in 1..(l + 1) :
                     seen'[j].build = c /\ seen'[j].kind = "log" /\ seen'[j].line.stream = s
                     => seen'[j].line.number < m
                /\ m > 1 => \/ \E j \in 1..(l + 1) : seen'[j] = LogNotice(c, Line(s, m - 1))
                            \/ \E j \in 1..i - 1 : log'[c][j] = Line(s, m - 1)
    <2>1. CASE c # b
      <3>1. log'[c] = log[c] /\ i \in DOMAIN log[c] /\ s = log[c][i].stream /\ m = log[c][i].number
        BY <1>7, <1>18, <2>1
      <3>2. /\ m <= Tracked(c, s)
            /\ \A j \in 1..i - 1 : log[c][j].stream = s => log[c][j].number < m
            /\ \A j \in 1..l :
                 seen[j].build = c /\ seen[j].kind = "log" /\ seen[j].line.stream = s
                 => seen[j].line.number < m
            /\ m > 1 => \/ \E j \in 1..l : seen[j] = LogNotice(c, Line(s, m - 1))
                        \/ \E j \in 1..i - 1 : log[c][j] = Line(s, m - 1)
        BY <1>11, <3>1 DEF IInv, LogFollowsSeen, IsSeen
      <3> QED BY <1>4, <1>8, <1>11, <2>1, <3>1, <3>2
    <2>2. CASE c = b
      <3>1. /\ i \in 1..(k - 1) /\ i + 1 \in 1..k
            /\ s = log[b][i + 1].stream /\ m = log[b][i + 1].number
        BY <1>5, <1>7, <1>18, <2>2
      <3>2. /\ m <= Tracked(b, s)
            /\ \A j \in 1..i : log[b][j].stream = s => log[b][j].number < m
            /\ \A j \in 1..l :
                 seen[j].build = b /\ seen[j].kind = "log" /\ seen[j].line.stream = s
                 => seen[j].line.number < m
            /\ m > 1 => \/ \E j \in 1..l : seen[j] = LogNotice(b, Line(s, m - 1))
                        \/ \E j \in 1..i : log[b][j] = Line(s, m - 1)
        <4>1. (i + 1) - 1 = i
          BY <1>5, <3>1
        <4> QED BY <1>6, <1>11, <3>1, <4>1 DEF IInv, LogFollowsSeen, IsSeen
      <3>3. ASSUME NEW j \in 1..i - 1
            PROVE  j + 1 \in 1..i /\ log'[b][j] = log[b][j + 1]
        <4>1. j + 1 \in 1..i /\ j \in 1..(k - 1)
          BY <1>5, <3>1
        <4> QED BY <1>7, <4>1
      <3>4. \A j \in 1..i - 1 : log'[c][j].stream = s => log'[c][j].number < m
        BY <2>2, <3>2, <3>3
      <3>5. 1 \in 1..i
        BY <1>5, <3>1
      <3>6. h.stream = s => h.number < m
        BY <1>6, <3>2, <3>5
      <3>7. ASSUME NEW j \in 1..(l + 1), seen'[j].build = c, seen'[j].kind = "log", seen'[j].line.stream = s
            PROVE  seen'[j].line.number < m
        <4>1. CASE j = l + 1
          BY <1>8, <1>11, <3>6, <3>7, <4>1
        <4>2. CASE j \in 1..l
          BY <1>11, <2>2, <3>2, <3>7, <4>2
        <4> QED BY <1>4, <4>1, <4>2
      <3>8. ASSUME m > 1
            PROVE  \/ \E j \in 1..(l + 1) : seen'[j] = LogNotice(c, Line(s, m - 1))
                   \/ \E j \in 1..i - 1 : log'[c][j] = Line(s, m - 1)
        <4>1. CASE \E j \in 1..l : seen[j] = LogNotice(b, Line(s, m - 1))
          <5>1. PICK j \in 1..l : seen[j] = LogNotice(b, Line(s, m - 1))
            BY <4>1
          <5>2. j \in 1..(l + 1)
            BY <1>4
          <5> QED BY <1>11, <2>2, <5>1, <5>2
        <4>2. CASE \E j \in 1..i : log[b][j] = Line(s, m - 1)
          <5>1. PICK j \in 1..i : log[b][j] = Line(s, m - 1)
            BY <4>2
          <5>2. CASE j = 1
            <6>1. new = LogNotice(b, Line(s, m - 1)) /\ l + 1 \in 1..(l + 1)
              BY <1>2, <1>4, <1>6, <5>1, <5>2
            <6> QED BY <1>11, <2>2, <6>1
          <5>3. CASE j # 1
            <6>1. j - 1 \in 1..i - 1 /\ (j - 1) + 1 = j
              BY <1>5, <3>1, <5>3
            <6>2. log'[b][j - 1] = log[b][j]
              BY <3>3, <6>1
            <6> QED BY <2>2, <5>1, <6>1, <6>2
          <5> QED BY <5>2, <5>3
        <4> QED BY <3>2, <3>8, <4>1, <4>2
      <3> QED BY <2>2, <3>2, <3>4, <3>7, <3>8
    <2> QED BY <2>1, <2>2
  <1>19. LogFollowsSeen'
    <2>1. SUFFICES ASSUME NEW c \in Builds, NEW i \in DOMAIN log'[c], NEW s, NEW m,
                          s = log'[c][i].stream, m = log'[c][i].number
                   PROVE  /\ m <= written'[c][s] - Len(pipe'[c][s])
                          /\ \A j \in 1..i - 1 : log'[c][j].stream = s => log'[c][j].number < m
                          /\ \A j \in DOMAIN seen' :
                               seen'[j].build = c /\ seen'[j].kind = "log" /\ seen'[j].line.stream = s
                               => seen'[j].line.number < m
                          /\ m > 1 => \/ \E j \in DOMAIN seen' : seen'[j] = LogNotice(c, Line(s, m - 1))
                                      \/ \E j \in 1..i - 1 : log'[c][j] = Line(s, m - 1)
      BY DEF LogFollowsSeen, Tracked, IsSeen, LogNotice, Line
    <2>2. Tracked(c, s) = written'[c][s] - Len(pipe'[c][s])
      BY <1>3 DEF Tracked
    <2> QED BY <1>11, <1>18, <2>1, <2>2
  <1>20. TrackedIsSentOn'
    <2>7. SUFFICES ASSUME NEW c \in Builds, NEW s \in Streams
                 PROVE  /\ \A i \in 1..(l + 1) :
                             seen'[i].build = c /\ seen'[i].kind = "log" /\ seen'[i].line.stream = s
                             => seen'[i].line.number <= Tracked(c, s)
                        /\ tracker[c][s] # "panicked" /\ Tracked(c, s) > 0 =>
                             \/ \E i \in 1..(l + 1) : seen'[i] = LogNotice(c, Line(s, Tracked(c, s)))
                             \/ \E i \in DOMAIN log'[c] : log'[c][i] = Line(s, Tracked(c, s))
      <3>1. \A c, s : Tracked(c, s)' = Tracked(c, s)
        BY <1>3 DEF Tracked
      <3> QED BY <1>3, <1>11, <3>1 DEF TrackedIsSentOn, IsSeen, LogNotice, Line
    <2>1. /\ \A i \in 1..l :
               seen[i].build = c /\ seen[i].kind = "log" /\ seen[i].line.stream = s
               => seen[i].line.number <= Tracked(c, s)
          /\ tracker[c][s] # "panicked" /\ Tracked(c, s) > 0 =>
               \/ \E i \in 1..l : seen[i] = LogNotice(c, Line(s, Tracked(c, s)))
               \/ \E i \in DOMAIN log[c] : log[c][i] = Line(s, Tracked(c, s))
      BY <1>11 DEF IInv, TrackedIsSentOn, IsSeen
    <2>2. ASSUME NEW i \in 1..(l + 1),
                 seen'[i].build = c, seen'[i].kind = "log", seen'[i].line.stream = s
          PROVE  seen'[i].line.number <= Tracked(c, s)
      <3>1. CASE i = l + 1
        <4>1. c = b /\ s = t /\ seen'[i].line.number = n
          BY <1>8, <1>9, <1>10, <1>11, <2>2, <3>1
        <4> QED BY <1>12, <4>1
      <3>2. CASE i \in 1..l
        BY <1>11, <2>1, <2>2, <3>2
      <3> QED BY <1>4, <3>1, <3>2
    <2>3. ASSUME NEW line, \E i \in DOMAIN log[c] : log[c][i] = line
          PROVE  \/ \E i \in 1..(l + 1) : seen'[i] = LogNotice(c, line)
                 \/ \E i \in DOMAIN log'[c] : log'[c][i] = line
      <3>1. CASE c # b
        BY <1>7, <2>3, <3>1
      <3>2. CASE c = b
        <4>1. PICK i \in 1..k : log[b][i] = line
          BY <1>6, <2>3, <3>2
        <4>2. CASE i = 1
          <5>1. new = LogNotice(b, line) /\ l + 1 \in 1..(l + 1)
            BY <1>2, <1>4, <1>6, <4>1, <4>2
          <5> QED BY <1>11, <3>2, <5>1
        <4>3. CASE i # 1
          <5>1. i - 1 \in 1..(k - 1) /\ (i - 1) + 1 = i
            BY <1>5, <4>3
          <5> QED BY <1>7, <3>2, <4>1, <5>1
        <4> QED BY <4>2, <4>3
      <3> QED BY <3>1, <3>2
    <2>4. PICK line : line = Line(s, Tracked(c, s))
      OBVIOUS
    <2>5. \A i \in 1..l : i \in 1..(l + 1)
      BY <1>4
    <2> QED BY <1>11, <2>1, <2>2, <2>3, <2>4, <2>5
  <1>21. LinesInOrder'
    <2> SUFFICES ASSUME NEW i \in 1..(l + 1), seen'[i].kind = "log"
                 PROVE  LET c == seen'[i].build
                            line == seen'[i].line
                        IN /\ line.number <= written[c][line.stream]
                           /\ \A j \in 1..i - 1 : SameStream(seen'[j], seen'[i]) => seen'[j].line.number < line.number
                           /\ \A x \in 1..line.number - 1 :
                                \E j \in 1..i - 1 : seen'[j] = LogNotice(c, Line(line.stream, x))
      BY <1>3, <1>11 DEF LinesInOrder
    <2>1. CASE i \in 1..l
      <3>1. \A j \in 1..i - 1 : seen'[j] = seen[j]
        BY <1>4, <1>11, <2>1
      <3> QED BY <1>11, <2>1, <3>1 DEF IInv, LinesInOrder
    <2>2. CASE i = l + 1
      <3>1. i - 1 = l /\ \A j \in 1..l : seen'[j] = seen[j]
        BY <1>4, <1>11, <2>2
      <3>2. n <= written[b][t]
        <4>1. written[b][t] \in Int /\ Len(pipe[b][t]) \in Nat
          BY SizesAreNat DEF IInv, TypeOK
        <4> QED BY <1>12, <4>1, SizesAreNat DEF Tracked
      <3>3. seen'[i] = new
        BY <1>11, <2>2
      <3> QED BY <1>8, <1>9, <1>10, <1>12, <3>1, <3>2, <3>3 DEF SameStream
    <2> QED BY <1>4, <2>1, <2>2
  <1> QED BY <1>14, <1>15, <1>16, <1>17, <1>19, <1>20, <1>21 DEF IInv

(* Nothing has been written and nothing shown.                             *)
LEMMA InitEstablishesIInv ==
  Init => IInv
  <1> SUFFICES ASSUME Init
               PROVE  IInv
    OBVIOUS
  <1>1. TypeOK
    <2>1. lock \in Builds \cup {NoBuild} /\ \A b \in Builds : lock # b
      BY NoBuildIsNone DEF Init
    <2>2. <<>> \in Seq(LineSet) /\ <<>> \in Seq(Streams) /\ <<>> \in Seq(NoticeSet)
      OBVIOUS
    <2>3. \A b \in Builds, s \in Streams : Len(pipe[b][s]) <= PipeSize
      BY SizesAreNat DEF Init
    <2>4. \A b \in Builds : Len(script[b]) + written[b]["stdout"] + written[b]["stderr"] <= MaxLines
      BY SizesAreNat DEF Init, Streams
    <2>5. written \in [Builds -> [Streams -> 0..MaxLines]]
      BY SizesAreNat DEF Init
    <2> QED BY <2>1, <2>2, <2>3, <2>4, <2>5 DEF Init, TypeOK, Early
  <1>2. DOMAIN seen = {} /\ \A b \in Builds : DOMAIN log[b] = {}
    BY DEF Init
  <1>3. \A b \in Builds, s \in Streams :
           Len(pipe[b][s]) = 0 /\ DOMAIN pipe[b][s] = {} /\ written[b][s] = 0 /\ Tracked(b, s) = 0
    BY DEF Init, Tracked
  <1>4. Stages
    BY <1>2 DEF Init, Stages, HasShown
  <1>5. LastBlock /\ BuildsInBlocks /\ LinesInOrder
    BY <1>2 DEF LastBlock, BuildsInBlocks, LinesInOrder
  <1>6. PipesHoldLatest /\ LogFollowsSeen
    BY <1>2, <1>3 DEF PipesHoldLatest, LogFollowsSeen
  <1>7. TrackedIsSentOn
    BY <1>2, <1>3 DEF TrackedIsSentOn
  <1> QED BY <1>1, <1>4, <1>5, <1>6, <1>7 DEF IInv

LEMMA WorkerKeepsIInv ==
  ASSUME IInv, NEW b \in Builds, Worker(b)
  PROVE  IInv'
  <1>1. CASE Lock(b)
    BY <1>1, LockKeepsIInv
  <1>2. CASE Check(b)
    BY <1>2, CheckKeepsIInv
  <1>3. CASE Create(b)
    BY <1>3, CreateKeepsIInv
  <1>4. CASE SpawnFails(b)
    BY <1>4, SpawnFailsKeepsIInv
  <1>5. CASE Spawn(b)
    BY <1>5, SpawnKeepsIInv
  <1>6. CASE Wait(b)
    BY <1>6, WaitKeepsIInv
  <1>7. CASE JoinLogger(b)
    BY <1>7, JoinLoggerKeepsIInv
  <1>8. CASE DropReporter(b)
    BY <1>8, DropReporterKeepsIInv
  <1>9. CASE Unlock(b)
    BY <1>9, UnlockKeepsIInv
  <1> QED BY <1>1, <1>2, <1>3, <1>4, <1>5, <1>6, <1>7, <1>8, <1>9 DEF Worker

LEMMA NextKeepsIInv ==
  ASSUME IInv, [Next]_vars
  PROVE  IInv'
  <1>1. ASSUME NEW b \in Builds, Worker(b)
        PROVE  IInv'
    BY <1>1, WorkerKeepsIInv
  <1>2. ASSUME NEW b \in Builds, Process(b)
        PROVE  IInv'
    BY <1>2, WriteLineKeepsIInv, ProcessStopsKeepsIInv DEF Process
  <1>3. ASSUME NEW b \in Builds, NEW s \in Streams, TrackLine(b, s) \/ TrackEnd(b, s)
        PROVE  IInv'
    BY <1>3, TrackLineKeepsIInv, TrackEndKeepsIInv
  <1>4. ASSUME NEW b \in Builds, ForwardLine(b) \/ LoggerEnds(b)
        PROVE  IInv'
    BY <1>4, ForwardLineKeepsIInv, LoggerEndsKeepsIInv
  <1>5. CASE UNCHANGED vars
    <2>1. UNCHANGED <<progress, lock, phase, process, script, written, pipe, tracker, log, logger, signal, seen>>
      BY <1>5 DEF vars, buildVars, processVars, outputVars
    <2>2. TypeOK' /\ Stages'
      BY <2>1 DEF IInv, TypeOK, Stages, HasShown, IsSeen
    <2>3. LastBlock' /\ BuildsInBlocks' /\ LinesInOrder'
      BY <2>1 DEF IInv, LastBlock, BuildsInBlocks, LinesInOrder
    <2>4. PipesHoldLatest' /\ LogFollowsSeen' /\ TrackedIsSentOn'
      BY <2>1 DEF IInv, PipesHoldLatest, LogFollowsSeen, TrackedIsSentOn, Tracked, IsSeen
    <2> QED BY <2>2, <2>3, <2>4 DEF IInv
  <1> QED BY <1>1, <1>2, <1>3, <1>4, <1>5 DEF Next

-----------------------------------------------------------------------------
(* The theorems.                                                           *)

(* The invariant by which a build has the lock, the client's view of it    *)
(* and the lines still on their way agree, after any number of builds.     *)
THEOREM IInvIsInvariant ==
  Spec => []IInv
  <1>1. Init => IInv
    BY InitEstablishesIInv
  <1>2. IInv /\ [Next]_vars => IInv'
    BY NextKeepsIInv
  <1> QED BY <1>1, <1>2, PTL DEF Spec

(* The lock is held by the build that is under way and by no other; pipes  *)
(* never hold more than they can.                                          *)
THEOREM TypeCorrect ==
  Spec => []TypeOK
  <1>1. IInv => TypeOK
    BY DEF IInv
  <1> QED BY <1>1, IInvIsInvariant, PTL

(* build_engine's lock keeps builds apart as the client sees them, although*)
(* the log threads send without it: however many builds, whatever they     *)
(* write, whichever thread panics.                                         *)
THEOREM BuildsStayInBlocks ==
  Spec => []BuildsInBlocks
  <1>1. IInv => BuildsInBlocks
    BY DEF IInv
  <1> QED BY <1>1, IInvIsInvariant, PTL

(* No line of TeX's output is shown twice, out of order or with a gap      *)
(* before it, for pipes of any size.                                       *)
THEOREM LinesStayInOrder ==
  Spec => []LinesInOrder
  <1>1. IInv => LinesInOrder
    BY DEF IInv
  <1> QED BY <1>1, IInvIsInvariant, PTL

-----------------------------------------------------------------------------
(* The refinement.                                                         *)

(* Where a step takes the worker is where it takes the contract's build.   *)
LEMMA StepIsAdvance ==
  ASSUME IInv, NEW b \in Builds, NEW from, NEW to, Goto(b, from, to)
  PROVE  /\ stages[b] = StageOf(from)
         /\ Contract!Advance(b, StageOf(from), StageOf(to))
         /\ StageOf(from) = StageOf(to) => UNCHANGED stages
  <1>1. phase \in [Builds -> Phases]
    BY DEF IInv, TypeOK, Phases
  <1>2. phase[b] = from /\ phase' = [phase EXCEPT ![b] = to]
    BY DEF Goto
  <1>3. stages[b] = StageOf(from)
    BY <1>2 DEF stages
  <1>4. stages' = [stages EXCEPT ![b] = StageOf(to)]
    BY <1>1, <1>2 DEF stages
  <1>5. StageOf(from) = StageOf(to) => stages' = stages
    BY <1>3, <1>4 DEF stages
  <1> QED BY <1>3, <1>4, <1>5 DEF Contract!Advance

LEMMA StageValues ==
  /\ StageOf("called") = "called" /\ StageOf("returned") = "returned"
  /\ \A p \in {"checking", "creating"} : StageOf(p) = "started"
  /\ \A p \in {"spawning", "waiting", "joining"} : StageOf(p) = "running"
  /\ StageOf("reporting") = "ending" /\ StageOf("unlocking") = "over"
  BY DEF StageOf

(* With what the worker does, a build takes the contract's step, or none   *)
(* that the client could see.                                              *)
LEMMA WorkerRefines ==
  ASSUME IInv, NEW b \in Builds, Worker(b)
  PROVE  [Contract!Next]_(Contract!vars)
  <1> USE StepIsAdvance, StageValues DEF Contract!vars
  <1>1. CASE Lock(b)
    <2>1. \A c \in Builds : stages[c] \in {"called", "returned"}
      BY <1>1, NoBuildIsNone DEF Lock, IInv, TypeOK, StageOf, stages
    <2>2. Contract!Start(b)
      BY <1>1, <2>1 DEF Lock, Contract!Start, Contract!Resting
    <2> QED BY <2>2 DEF Contract!Next
  <1>2. CASE Check(b)
    <2>1. CASE Goto(b, "checking", "unlocking")
      <3>1. Contract!Refuse(b)
        BY <1>2, <2>1 DEF Check, Contract!Refuse
      <3> QED BY <3>1 DEF Contract!Next
    <2>2. CASE progress /\ Goto(b, "checking", "creating")
      BY <1>2, <2>2 DEF Check
    <2>3. CASE ~progress /\ Goto(b, "checking", "spawning")
      <3>1. Contract!Begin(b)
        BY <1>2, <2>3 DEF Check, Contract!Begin, Contract!Announce
      <3> QED BY <3>1 DEF Contract!Next
    <2> QED BY <1>2, <2>1, <2>2, <2>3 DEF Check
  <1>3. CASE Create(b)
    <2>1. CASE Goto(b, "creating", "spawning") /\ seen' = Append(seen, Notice(b, "begin"))
      <3>1. progress
        BY <2>1 DEF IInv, Stages, Goto
      <3>2. Contract!Begin(b)
        BY <1>3, <2>1, <3>1 DEF Create, Contract!Begin, Contract!Announce, Contract!Notice, Notice
      <3> QED BY <3>2 DEF Contract!Next
    <2>2. CASE Goto(b, "creating", "reporting") /\ UNCHANGED seen
      <3>1. Contract!Stop(b)
        BY <1>3, <2>2 DEF Create, Contract!Stop
      <3> QED BY <3>1 DEF Contract!Next
    <2> QED BY <1>3, <2>1, <2>2 DEF Create
  <1>4. CASE SpawnFails(b) \/ JoinLogger(b)
    <2>1. Contract!Stop(b)
      BY <1>4 DEF SpawnFails, JoinLogger, Contract!Stop
    <2> QED BY <2>1 DEF Contract!Next
  <1>5. CASE Spawn(b) \/ Wait(b)
    BY <1>5 DEF Spawn, Wait
  <1>6. CASE DropReporter(b)
    <2>1. Contract!End(b)
      BY <1>6 DEF DropReporter, Contract!End, Contract!Announce, Contract!Notice, Notice
    <2> QED BY <2>1 DEF Contract!Next
  <1>7. CASE Unlock(b)
    <2>1. Contract!Return(b)
      BY <1>7 DEF Unlock, Contract!Return
    <2> QED BY <2>1 DEF Contract!Next
  <1> QED BY <1>1, <1>2, <1>3, <1>4, <1>5, <1>6, <1>7 DEF Worker

(* A line the log thread shows is the next one of its stream.              *)
LEMMA ForwardLineRefines ==
  ASSUME IInv, NEW b \in Builds, ForwardLine(b)
  PROVE  Contract!Next
  <1>1. /\ logger[b] = "running" /\ log[b] # <<>>
        /\ seen' = Append(seen, LogNotice(b, log[b][1]))
        /\ UNCHANGED <<progress, phase>>
    BY DEF ForwardLine, buildVars, IInv, TypeOK
  <1>2. log[b][1] \in LineSet
    BY <1>1 DEF IInv, TypeOK
  <1>3. PICK s \in Streams, n \in 1..MaxLines : log[b][1] = Line(s, n)
    BY <1>2, LinesAreTyped
  <1>4. stages[b] = "running"
    BY <1>1 DEF IInv, Stages, StageOf, stages
  <1>5. Contract!LinesShown(b, s) = 1..n - 1
    <2>1. ASSUME NEW x \in 1..MaxLines, NEW i \in DOMAIN seen, seen[i] = Contract!LogNotice(b, s, x)
          PROVE  x \in 1..n - 1
      <3>1. seen[i].build = b /\ seen[i].kind = "log" /\ seen[i].line.stream = s /\ seen[i].line.number = x
        BY <2>1 DEF Contract!LogNotice
      <3>2. x < n
        BY <1>1, <1>3, <3>1, FirstLineFollowsShown
      <3> QED BY <3>2, SizesAreNat
    <2>2. ASSUME NEW x \in 1..n - 1
          PROVE  x \in 1..MaxLines /\ \E i \in DOMAIN seen : seen[i] = Contract!LogNotice(b, s, x)
      <3>1. \E i \in DOMAIN seen : seen[i] = LogNotice(b, Line(s, x))
        BY <1>1, <1>3, FirstLineFollowsShown
      <3> QED BY <3>1, SizesAreNat DEF LogNotice, Line, Contract!LogNotice
    <2> QED BY <2>1, <2>2 DEF Contract!LinesShown
  <1>6. seen' = Append(seen, Contract!LogNotice(b, s, n))
    BY <1>1, <1>3 DEF LogNotice, Line, Contract!LogNotice
  <1>7. UNCHANGED stages
    BY <1>1 DEF stages
  <1>8. Contract!Show(b, s, n)
    BY <1>1, <1>4, <1>5, <1>6, <1>7 DEF Contract!Show
  <1> QED BY <1>3, <1>8 DEF Contract!Next

(* Whatever the threads of a build do to each other, the client sees what  *)
(* BuildContract allows: for any number of builds, any output of the TeX   *)
(* processes and pipes of any size.                                        *)
THEOREM BuildEngineImplementsContract ==
  Spec => ImplementsBuildContract
  <1>1. Init => Contract!Init
    BY DEF Init, Contract!Init, StageOf, stages
  <1>2. IInv /\ [Next]_vars => [Contract!Next]_(Contract!vars)
    <2> SUFFICES ASSUME IInv, [Next]_vars
                 PROVE  [Contract!Next]_(Contract!vars)
      OBVIOUS
    <2>1. ASSUME NEW b \in Builds, Worker(b)
          PROVE  [Contract!Next]_(Contract!vars)
      BY <2>1, WorkerRefines
    <2>2. ASSUME NEW b \in Builds, ForwardLine(b)
          PROVE  [Contract!Next]_(Contract!vars)
      BY <2>2, ForwardLineRefines
    <2>3. ASSUME NEW b \in Builds,
                 Process(b) \/ LoggerEnds(b) \/ \E s \in Streams : TrackLine(b, s) \/ TrackEnd(b, s)
          PROVE  UNCHANGED <<progress, phase, seen>>
      BY <2>3
      DEF Process, WriteLine, BrokenPipe, ProcessEnds, LoggerEnds, TrackLine, TrackEnd, buildVars
    <2>4. CASE UNCHANGED <<progress, phase, seen>>
      BY <2>4 DEF Contract!vars, stages
    <2>5. CASE UNCHANGED vars
      BY <2>4, <2>5 DEF vars, buildVars
    <2> QED BY <2>1, <2>2, <2>3, <2>4, <2>5 DEF Next
  <1> QED BY <1>1, <1>2, IInvIsInvariant, PTL DEF Spec, ImplementsBuildContract, Contract!Spec
=============================================================================
