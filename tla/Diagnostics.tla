---------------------------- MODULE Diagnostics ----------------------------
(***************************************************************************)
(* From a new text of a document to the diagnostics the client shows: two  *)
(* debouncers (static analysis and ChkTeX), each a thread that turns       *)
(* messages into tasks of a pool of its own; a task sleeps for the delay,  *)
(* then analyses and publishes under the one mutex of the diagnostics      *)
(* manager.                                                                *)
(*                                                                         *)
(* A text is its version number.  Time is a number of ticks: what counts   *)
(* is only how long a task still sleeps and whether the last task of a     *)
(* file woke less than the delay ago.                                      *)
(***************************************************************************)
EXTENDS Naturals, Sequences, FiniteSets

CONSTANTS
  Files,       \* documents
  Delay,       \* ticks of diagnostics_delay
  PoolSize,    \* workers of each debouncer's pool
  MaxMessages, \* bound: messages sent to the debouncers by edits and saves
  MaxTasks,    \* bound: tasks of both debouncers that exist at once
  Free,        \* no task in this slot
  Nobody       \* the manager's mutex is free

Debouncers == {"static", "chktex"}
Slots == 1..MaxTasks

ASSUME BoundsArePositive ==
  /\ Delay \in Nat \ {0} /\ PoolSize \in Nat \ {0}
  /\ MaxMessages \in Nat /\ MaxTasks \in Nat
ASSUME NobodyIsNoSlot == Nobody \notin Nat

VARIABLES
  text,     \* file -> version of its text in the workspace
  messages, \* messages sent so far
  channel,  \* debouncer -> messages it has not received
  age,      \* debouncer -> file -> ticks since its last task woke, Delay: longer
  task,     \* slot -> the task of an accepted message
  mutex,    \* the task that holds the manager
  poisoned, \* a task has panicked while it held the manager
  results,  \* manager: debouncer -> file -> version last analysed
  shown     \* client: debouncer -> file -> version last published

vars == <<text, messages, channel, age, task, mutex, poisoned, results, shown>>

Versions == 0..MaxMessages
Message(f, v) == [file |-> f, version |-> v]

TaskSet ==
  [debouncer : Debouncers, file : Files, version : Versions, left : 0..Delay,
   stage : {"queued", "sleeping", "woken", "analysed"}]

ASSUME FreeIsNoTask == Free \notin TaskSet

TypeOK ==
  /\ text \in [Files -> Versions]
  /\ messages \in 0..MaxMessages
  /\ channel \in [Debouncers -> Seq([file : Files, version : Versions])]
  /\ age \in [Debouncers -> [Files -> 0..Delay]]
  /\ task \in [Slots -> TaskSet \cup {Free}]
  /\ mutex \in Slots \cup {Nobody}
  /\ mutex # Nobody => task[mutex] # Free
  /\ poisoned \in BOOLEAN
  /\ results \in [Debouncers -> [Files -> Versions]]
  /\ shown \in [Debouncers -> [Files -> Versions]]

Init ==
  /\ text = [f \in Files |-> 0]
  /\ messages = 0
  /\ channel = [d \in Debouncers |-> <<>>]
  /\ age = [d \in Debouncers |-> [f \in Files |-> Delay]]
  /\ task = [i \in Slots |-> Free]
  /\ mutex = Nobody
  /\ poisoned = FALSE
  /\ results = [d \in Debouncers |-> [f \in Files |-> 0]]
  /\ shown = [d \in Debouncers |-> [f \in Files |-> 0]]

-----------------------------------------------------------------------------
(* Storage::open has inserted a new text and runs the diagnostics handler; *)
(* didChange also lints when chktex.onEdit is set.                         *)
Edit(f) ==
  /\ messages < MaxMessages
  /\ messages' = messages + 1
  /\ text' = [text EXCEPT ![f] = @ + 1]
  /\ \E ds \in {{"static"}, Debouncers} :
       channel' = [d \in Debouncers |->
         IF d \in ds THEN Append(channel[d], Message(f, text[f] + 1)) ELSE channel[d]]
  /\ UNCHANGED <<age, task, mutex, poisoned, results, shown>>

(* didSave with chktex.onOpenAndSave lints the text as it is.              *)
Save(f) ==
  /\ messages < MaxMessages
  /\ messages' = messages + 1
  /\ channel' = [channel EXCEPT !["chktex"] = Append(@, Message(f, text[f]))]
  /\ UNCHANGED <<text, age, task, mutex, poisoned, results, shown>>

-----------------------------------------------------------------------------
(* The debouncer's thread: a message that comes less than the delay after  *)
(* the last task of its file woke is dropped; any other becomes a task.    *)

FirstFree == CHOOSE i \in Slots : task[i] = Free /\ \A k \in 1..(i - 1) : task[k] # Free

Receive(d) ==
  /\ channel[d] # <<>>
  /\ LET m == Head(channel[d]) IN
       IF age[d][m.file] < Delay
         THEN UNCHANGED task
         ELSE /\ \E i \in Slots : task[i] = Free
              /\ task' = [task EXCEPT ![FirstFree] =
                   [debouncer |-> d, file |-> m.file, version |-> m.version,
                    left |-> Delay, stage |-> "queued"]]
  /\ channel' = [channel EXCEPT ![d] = Tail(@)]
  /\ UNCHANGED <<text, messages, age, mutex, poisoned, results, shown>>

-----------------------------------------------------------------------------
(* The tasks, on the workers of the debouncer's pool.                      *)

At(i, stage) == task[i] # Free /\ task[i].stage = stage

StartTask(i) ==
  /\ At(i, "queued")
  /\ Cardinality({k \in Slots : task[k] # Free /\ task[k].debouncer = task[i].debouncer
                                /\ task[k].stage # "queued"}) < PoolSize
  /\ task' = [task EXCEPT ![i].stage = "sleeping"]
  /\ UNCHANGED <<text, messages, channel, age, mutex, poisoned, results, shown>>

(* thread::sleep returns; the time is noted before the analysis.           *)
Wake(i) ==
  /\ At(i, "sleeping") /\ task[i].left = 0
  /\ age' = [age EXCEPT ![task[i].debouncer][task[i].file] = 0]
  /\ task' = [task EXCEPT ![i].stage = "woken"]
  /\ UNCHANGED <<text, messages, channel, mutex, poisoned, results, shown>>

(* Mutant: the text that came with the message is analysed.                *)
AnalyseMessage(i) ==
  /\ At(i, "woken")
  /\ IF poisoned
       THEN /\ task' = [task EXCEPT ![i] = Free]
            /\ UNCHANGED <<mutex, results>>
       ELSE /\ mutex = Nobody
            /\ mutex' = i
            /\ results' = [results EXCEPT ![task[i].debouncer][task[i].file] = task[i].version]
            /\ task' = [task EXCEPT ![i].stage = "analysed"]
  /\ UNCHANGED <<text, messages, channel, age, poisoned, shown>>

(* Mutant: the manager is unlocked between the analysis and the publishing.*)
AnalyseAndUnlock(i) ==
  /\ At(i, "woken")
  /\ IF poisoned
       THEN /\ task' = [task EXCEPT ![i] = Free]
            /\ UNCHANGED <<mutex, results>>
       ELSE /\ mutex = Nobody
            /\ UNCHANGED mutex
            /\ results' = [results EXCEPT ![task[i].debouncer][task[i].file] = text[task[i].file]]
            /\ task' = [task EXCEPT ![i].stage = "analysed"]
  /\ UNCHANGED <<text, messages, channel, age, poisoned, shown>>

(* Mutant: a task whose text has been replaced leaves it to the next task. *)
AnalyseIfCurrent(i) ==
  /\ At(i, "woken")
  /\ IF poisoned \/ task[i].version # text[task[i].file]
       THEN /\ task' = [task EXCEPT ![i] = Free]
            /\ UNCHANGED <<mutex, results>>
       ELSE /\ mutex = Nobody
            /\ mutex' = i
            /\ results' = [results EXCEPT ![task[i].debouncer][task[i].file] = text[task[i].file]]
            /\ task' = [task EXCEPT ![i].stage = "analysed"]
  /\ UNCHANGED <<text, messages, channel, age, poisoned, shown>>

(* manager.lock().unwrap(): with a poisoned mutex the task panics, too.    *)
(* Otherwise the file is analysed as the workspace has it now, not as it   *)
(* was when the message was sent.                                          *)
Analyse(i) ==
  /\ At(i, "woken")
  /\ IF poisoned
       THEN /\ task' = [task EXCEPT ![i] = Free]
            /\ UNCHANGED <<mutex, results>>
       ELSE /\ mutex = Nobody
            /\ mutex' = i
            /\ results' = [results EXCEPT ![task[i].debouncer][task[i].file] = text[task[i].file]]
            /\ task' = [task EXCEPT ![i].stage = "analysed"]
  /\ UNCHANGED <<text, messages, channel, age, poisoned, shown>>

(* lint: a line of ChkTeX's output that does not have the format it was    *)
(* asked for is an unwrap of None, with the manager locked.                *)
LintPanic(i) ==
  /\ At(i, "woken") /\ task[i].debouncer = "chktex"
  /\ mutex = Nobody /\ ~poisoned
  /\ poisoned' = TRUE
  /\ task' = [task EXCEPT ![i] = Free]
  /\ UNCHANGED <<text, messages, channel, age, mutex, results, shown>>

(* Mutant: the guard outlives the task.                                    *)
PublishAndKeep(i) ==
  /\ At(i, "analysed")
  /\ shown' = results
  /\ task' = [task EXCEPT ![i] = Free]
  /\ UNCHANGED <<text, messages, channel, age, mutex, poisoned, results>>

(* publish_diagnostics sends what the manager has for every document.      *)
Publish(i) ==
  /\ At(i, "analysed")
  /\ shown' = results
  /\ mutex' = Nobody
  /\ task' = [task EXCEPT ![i] = Free]
  /\ UNCHANGED <<text, messages, channel, age, poisoned, results>>

TaskStep(i) == StartTask(i) \/ Wake(i) \/ Analyse(i) \/ Publish(i)

Sleeping(i) == At(i, "sleeping") /\ task[i].left > 0

Tick ==
  /\ \/ \E i \in Slots : Sleeping(i)
     \/ \E d \in Debouncers, f \in Files : age[d][f] < Delay
  /\ task' = [i \in Slots |-> IF Sleeping(i) THEN [task[i] EXCEPT !.left = @ - 1] ELSE task[i]]
  /\ age' = [d \in Debouncers |-> [f \in Files |->
               IF age[d][f] < Delay THEN age[d][f] + 1 ELSE Delay]]
  /\ UNCHANGED <<text, messages, channel, mutex, poisoned, results, shown>>

Next ==
  \/ \E f \in Files : Edit(f) \/ Save(f)
  \/ \E d \in Debouncers : Receive(d)
  \/ \E i \in Slots : TaskStep(i) \/ LintPanic(i)
  \/ Tick

Spec == Init /\ [][Next]_vars

(* Time passes, and every thread runs; nobody holds the mutex for ever, so *)
(* that a waiting task gets it (the tasks are finitely many).              *)
FairSpec ==
  /\ Spec
  /\ WF_vars(Tick)
  /\ \A d \in Debouncers : WF_vars(Receive(d))
  /\ \A i \in Slots : WF_vars(TaskStep(i))

-----------------------------------------------------------------------------
(* Correctness.                                                            *)

(* What the client shows never goes back to an older text, in whatever     *)
(* order the tasks of a file wake and get the mutex.                       *)
NeverOlder ==
  [][\A d \in Debouncers, f \in Files : shown'[d][f] >= shown[d][f]]_vars

(* "Ensure that there is at most one instance of ChkTeX running": tasks    *)
(* analyse one at a time, and what the client shows is complete when none  *)
(* does: no task leaves an analysis in the manager unpublished.            *)
PublishedWhenFree ==
  /\ Cardinality({i \in Slots : At(i, "analysed")}) <= 1
  /\ mutex = Nobody => shown = results

(* What the two need: a message stands for an edit or a save, the task that*)
(* holds the manager is the one that has analysed and not yet published,   *)
(* and neither the manager nor the client is ahead of the text.            *)
EditsAreCounted == \A f \in Files : text[f] <= messages

HolderHasAnalysed == \A i \in Slots : At(i, "analysed") <=> mutex = i

NothingFromTheFuture ==
  \A d \in Debouncers, f \in Files :
    shown[d][f] <= results[d][f] /\ results[d][f] <= text[f]

(* The inductive invariant: from a state of this kind, which need not be   *)
(* reachable, every step leads to another.                                 *)
IInv ==
  /\ TypeOK
  /\ EditsAreCounted
  /\ HolderHasAnalysed
  /\ PublishedWhenFree
  /\ NothingFromTheFuture

TaskFor(d, f, v) ==
  \E i \in Slots :
    task[i] # Free /\ task[i].debouncer = d /\ task[i].file = f /\ task[i].version = v

(* A message that became a task leads to diagnostics at least as new as    *)
(* the text it was sent for, unless ChkTeX has taken the manager down.     *)
AcceptedIsShown ==
  \A d \in Debouncers, f \in Files, v \in Versions \ {0} :
    TaskFor(d, f, v) ~> shown[d][f] >= v \/ poisoned

(* "Delay in milliseconds before reporting diagnostics" (options.md:130):  *)
(* the delay postpones the report on a text, it does not suppress it.      *)
EveryTextIsReported ==
  \A f \in Files, v \in Versions : text[f] = v ~> shown["static"][f] >= v \/ poisoned
=============================================================================
