----------------------------- MODULE ServerLoop -----------------------------
(***************************************************************************)
(* The message loop of the server, the thread pool it hands work to, and   *)
(* the two halves of its request queue: requests of the client that the    *)
(* server answers (incoming) and requests of the server that the client    *)
(* answers (outgoing).                                                     *)
(*                                                                         *)
(* The main thread takes messages off the connection one at a time.  It    *)
(* never waits for a job; jobs wait for each other (the build lock) and    *)
(* for the client (send_request blocks on a reply channel that only the    *)
(* main thread fills).                                                     *)
(***************************************************************************)
EXTENDS Naturals, Sequences, FiniteSets, Functions

CONSTANTS
  Plain,      \* feature requests handled by a job of their own (hover, ...)
  Builds,     \* textDocument/build requests
  Faulty,     \* the plain requests whose handler panics (an unwrap on None)
  Unbuilt,    \* requests of a feature the build leaves out (semanticTokens/range)
  Saves,      \* didSave notifications of documents built on save
  Reconfigs,  \* didChangeConfiguration notifications
  Startup,    \* the job that `initialize` queues
  PoolSize,   \* number of worker threads of the pool
  InboxSize,  \* bound: messages the transport buffers before the client waits
  NoJob       \* the build lock is free

Requests == Plain \cup Builds
BuildJobs == Builds \cup Saves
Jobs == Requests \cup Saves \cup Reconfigs \cup {Startup}

(* The requests the server sends: client/registerCapability,               *)
(* workspace/configuration, window/workDoneProgress/create.                *)
Kinds == {"register", "configuration", "progress"}

(* An id of the outgoing half. The code draws ids from a counter; here an  *)
(* id is named after the job that asks and what it asks for.               *)
Asks == Jobs \X Kinds

ASSUME JobsAreDistinct ==
  /\ Plain \cap Builds = {}
  /\ Requests \cap (Saves \cup Reconfigs) = {}
  /\ Saves \cap Reconfigs = {}
  /\ Startup \notin Requests \cup Saves \cup Reconfigs
  /\ NoJob \notin Jobs

ASSUME FaultyArePlain == Faulty \cup Unbuilt \subseteq Plain

ASSUME SizesPositive == PoolSize \in Nat \ {0} /\ InboxSize \in Nat \ {0}

VARIABLES
  caps,       \* which of the server's requests the client supports
  client,     \* "open", "shutdown" (sent the shutdown request), "closed"
              \* (sent exit), "gone" (its end of the connection is closed)
  sent,       \* requests and notifications the client has sent
  renounced,  \* requests the client has sent $/cancelRequest for
  asked,      \* server requests the client has received and not answered
  inbox,      \* messages to the main thread, in order
  main,       \* where the main thread is
  incoming,   \* req_queue.incoming: requests whose token can be signalled
  signalled,  \* requests whose cancellation token is signalled
  outgoing,   \* req_queue.outgoing: ids whose reply channel is registered
  delivered,  \* ids whose reply lies in the job's reply channel
  queue,      \* jobs given to the pool that no worker has taken
  step,       \* where each job is
  todo,       \* the server requests each job still has to make, in order
  lock,       \* the job that holds BuildEngine.lock
  poisoned,   \* a job panicked while it held BuildEngine.lock
  answers     \* responses sent, by request

clientVars == <<client, sent, renounced, asked>>
mainVars == <<main, incoming, signalled>>
askVars == <<outgoing, delivered>>
poolVars == <<queue, step, todo, lock, poisoned>>
vars == <<caps, clientVars, inbox, mainVars, askVars, poolVars, answers>>

MainStates == {"loop", "exiting", "joining", "stopped", "failed", "panicked"}

(* idle: not created; lock: waits for BuildEngine.lock; work: runs;        *)
(* registered: its reply channel is registered, the request is not sent;   *)
(* waiting: blocked in receiver.recv(); finish: the work is done.          *)
Steps == {"idle", "queued", "lock", "work", "registered", "waiting",
          "finish", "done", "panicked"}

Outcomes == {"result", "error", "cancelled"}

Message(k, i) == [kind |-> k, id |-> i]

MessageSet ==
  [kind : {"request"}, id : Requests] \cup [kind : {"cancel"}, id : Requests]
  \cup [kind : {"save"}, id : Saves] \cup [kind : {"config"}, id : Reconfigs]
  \cup [kind : {"response"}, id : Asks]
  \cup [kind : {"shutdown", "exit"}, id : {NoJob}]

Occupying == {j \in Jobs : step[j] \in {"lock", "work", "registered", "waiting", "finish"}}

TypeOK ==
  /\ caps \in SUBSET Kinds
  /\ client \in {"open", "shutdown", "closed", "gone"}
  /\ sent \in SUBSET (Jobs \ {Startup})
  /\ renounced \in SUBSET Requests
  /\ asked \in SUBSET Asks
  /\ inbox \in Seq(MessageSet)
  /\ main \in MainStates
  /\ incoming \in SUBSET Requests
  /\ signalled \in SUBSET Requests
  /\ outgoing \in SUBSET Asks
  /\ delivered \in SUBSET Asks
  /\ queue \in Seq(Jobs)
  /\ step \in [Jobs -> Steps]
  /\ todo \in [Jobs -> Seq(Kinds)]
  /\ lock \in Jobs \cup {NoJob}
  /\ poisoned \in BOOLEAN
  /\ answers \in [Requests -> Seq(Outcomes)]

-----------------------------------------------------------------------------
(* `<<k>>` if the client supports k and nothing otherwise.                 *)
IfSupported(k) == IF k \in caps THEN <<k>> ELSE <<>>

(* The requests a job makes: the startup job registers for configuration   *)
(* changes before it pulls the configuration, a configuration change pulls *)
(* it (or pushes it on the main thread, and only reparses in the job).     *)
AsksOf(j) ==
  CASE j = Startup -> IfSupported("register") \o IfSupported("configuration")
    [] j \in Reconfigs -> IfSupported("configuration")
    [] OTHER -> <<>>

(* The server after `initialize`: the startup job is in the pool's queue.  *)
(* (The distribution detection job touches nothing modelled here.)         *)
Init ==
  /\ caps \in SUBSET Kinds
  /\ client = "open"
  /\ sent = {} /\ renounced = {} /\ asked = {}
  /\ inbox = <<>>
  /\ main = "loop"
  /\ incoming = {} /\ signalled = {}
  /\ outgoing = {} /\ delivered = {}
  /\ queue = <<Startup>>
  /\ step = [j \in Jobs |-> IF j = Startup THEN "queued" ELSE "idle"]
  /\ todo = [j \in Jobs |-> IF j = Startup THEN AsksOf(j) ELSE <<>>]
  /\ lock = NoJob
  /\ poisoned = FALSE
  /\ answers = [r \in Requests |-> <<>>]

-----------------------------------------------------------------------------
(* The client. It behaves as the protocol demands: one response for each   *)
(* request it received, no request after shutdown, nothing after exit.     *)

Post(m) == Len(inbox) < InboxSize /\ inbox' = Append(inbox, m)

SendRequest(r) ==
  /\ client = "open" /\ r \in Requests \ sent
  /\ Post(Message("request", r))
  /\ sent' = sent \cup {r}
  /\ UNCHANGED <<caps, client, renounced, asked, mainVars, askVars, poolVars, answers>>

SendCancel(r) ==
  /\ client = "open" /\ r \in (sent \cap Requests) \ renounced
  /\ Post(Message("cancel", r))
  /\ renounced' = renounced \cup {r}
  /\ UNCHANGED <<caps, client, sent, asked, mainVars, askVars, poolVars, answers>>

SendSave(s) ==
  /\ client = "open" /\ s \in Saves \ sent
  /\ Post(Message("save", s))
  /\ sent' = sent \cup {s}
  /\ UNCHANGED <<caps, client, renounced, asked, mainVars, askVars, poolVars, answers>>

SendConfig(c) ==
  /\ client = "open" /\ c \in Reconfigs \ sent
  /\ Post(Message("config", c))
  /\ sent' = sent \cup {c}
  /\ UNCHANGED <<caps, client, renounced, asked, mainVars, askVars, poolVars, answers>>

SendResponse(a) ==
  /\ client \in {"open", "shutdown"} /\ a \in asked
  /\ Post(Message("response", a))
  /\ asked' = asked \ {a}
  /\ UNCHANGED <<caps, client, sent, renounced, mainVars, askVars, poolVars, answers>>

SendShutdown ==
  /\ client = "open"
  /\ client' = "shutdown"
  /\ Post(Message("shutdown", NoJob))
  /\ UNCHANGED <<caps, sent, renounced, asked, mainVars, askVars, poolVars, answers>>

SendExit ==
  /\ client \in {"open", "shutdown"}
  /\ client' = "closed"
  /\ Post(Message("exit", NoJob))
  /\ UNCHANGED <<caps, sent, renounced, asked, mainVars, askVars, poolVars, answers>>

(* The client closes its end of the connection, or dies, with or without   *)
(* an exit. What it has sent is still read; what is sent to it may be lost *)
(* without a sign, or the send fails: the transport's writer thread ends   *)
(* with the first write that fails, and its end of the channel with it.    *)
Hangup ==
  /\ client # "gone"
  /\ client' = "gone"
  /\ UNCHANGED <<caps, sent, renounced, asked, inbox, mainVars, askVars, poolVars, answers>>

Client ==
  \/ \E r \in Requests : SendRequest(r) \/ SendCancel(r)
  \/ \E s \in Saves : SendSave(s)
  \/ \E c \in Reconfigs : SendConfig(c)
  \/ \E a \in Asks : SendResponse(a)
  \/ SendShutdown \/ SendExit \/ Hangup

-----------------------------------------------------------------------------
(* The main thread: Server::process_messages, then Server::run.            *)

Received(k) == inbox # <<>> /\ Head(inbox).kind = k

(* pool.execute: a worker takes the job off the queue later.               *)
Enqueue(j, asks) ==
  /\ queue' = Append(queue, j)
  /\ step' = [step EXCEPT ![j] = "queued"]
  /\ todo' = [todo EXCEPT ![j] = asks]
  /\ UNCHANGED <<lock, poisoned>>

(* A send to the client may fail.                                          *)
Unreachable == client = "gone"

(* Mutant: the refusal does not return, the request becomes a job as well. *)
HandleRequestTwice ==
  /\ main = "loop" /\ Received("request")
  /\ LET r == Head(inbox).id IN
       /\ incoming' = incoming \cup {r}
       /\ Enqueue(r, AsksOf(r))
       /\ answers' = [answers EXCEPT ![r] = Append(@, "error")]
  /\ inbox' = Tail(inbox)
  /\ UNCHANGED <<caps, clientVars, main, signalled, askVars>>

(* Every request is registered first; then it is refused on the spot (no   *)
(* handler for its method, or no such document) or becomes a job. When the *)
(* refusal cannot be sent the loop ends with an error. A request of a      *)
(* feature that is not in the build is taken, and nothing is done.         *)
HandleRequest ==
  /\ main = "loop" /\ Received("request")
  /\ LET r == Head(inbox).id IN
       /\ incoming' = incoming \cup {r}
       /\ \/ /\ r \notin Unbuilt
             /\ answers' = [answers EXCEPT ![r] = Append(@, "error")]
             /\ UNCHANGED <<main, poolVars>>
          \/ /\ r \notin Unbuilt /\ Unreachable
             /\ main' = "failed"
             /\ UNCHANGED <<poolVars, answers>>
          \/ /\ r \notin Unbuilt
             /\ Enqueue(r, AsksOf(r))
             /\ UNCHANGED <<main, answers>>
          \/ /\ r \in Unbuilt
             /\ UNCHANGED <<main, poolVars, answers>>
  /\ inbox' = Tail(inbox)
  /\ UNCHANGED <<caps, clientVars, signalled, askVars>>

(* $/cancelRequest: the entry goes and its token is signalled. Entries of  *)
(* answered requests are still there: answering does not complete them.    *)
HandleCancel ==
  /\ main = "loop" /\ Received("cancel")
  /\ LET r == Head(inbox).id IN
       /\ signalled' = signalled \cup ({r} \cap incoming)
       /\ incoming' = incoming \ {r}
  /\ inbox' = Tail(inbox)
  /\ UNCHANGED <<caps, clientVars, main, askVars, poolVars, answers>>

(* didSave: a build job, if build.onSave is set and the document is known. *)
HandleSave ==
  /\ main = "loop" /\ Received("save")
  /\ LET s == Head(inbox).id IN Enqueue(s, AsksOf(s)) \/ UNCHANGED poolVars
  /\ inbox' = Tail(inbox)
  /\ UNCHANGED <<caps, clientVars, mainVars, askVars, answers>>

HandleConfig ==
  /\ main = "loop" /\ Received("config")
  /\ LET c == Head(inbox).id IN Enqueue(c, AsksOf(c))
  /\ inbox' = Tail(inbox)
  /\ UNCHANGED <<caps, clientVars, mainVars, askVars, answers>>

(* ReqQueue::complete unwraps: a response nobody registered for is a panic *)
(* of the main thread. Otherwise the reply goes into the reply channel.    *)
HandleResponse ==
  /\ main = "loop" /\ Received("response")
  /\ LET a == Head(inbox).id IN
       IF a \in outgoing
         THEN /\ outgoing' = outgoing \ {a}
              /\ delivered' = delivered \cup {a}
              /\ UNCHANGED main
         ELSE /\ main' = "panicked"
              /\ UNCHANGED askVars
  /\ inbox' = Tail(inbox)
  /\ UNCHANGED <<caps, clientVars, incoming, signalled, poolVars, answers>>

(* Connection::handle_shutdown answers the shutdown request, then waits up *)
(* to 30 seconds for the exit notification.                                *)
HandleShutdown ==
  /\ main = "loop" /\ Received("shutdown")
  /\ main' = "exiting"
  /\ inbox' = Tail(inbox)
  /\ UNCHANGED <<caps, clientVars, incoming, signalled, askVars, poolVars, answers>>

(* An exit without a shutdown is an unknown notification: only logged.     *)
IgnoreExit ==
  /\ main = "loop" /\ Received("exit")
  /\ inbox' = Tail(inbox)
  /\ UNCHANGED <<caps, clientVars, mainVars, askVars, poolVars, answers>>

(* The connection has ended: the `for` loop over its messages ends too.    *)
EndOfInput ==
  /\ main = "loop" /\ client \in {"closed", "gone"} /\ inbox = <<>>
  /\ main' = "joining"
  /\ UNCHANGED <<caps, clientVars, inbox, incoming, signalled, askVars, poolVars, answers>>

AwaitExit ==
  /\ main = "exiting" /\ inbox # <<>>
  /\ main' = IF Received("exit") THEN "joining" ELSE "failed"
  /\ inbox' = Tail(inbox)
  /\ UNCHANGED <<caps, clientVars, incoming, signalled, askVars, poolVars, answers>>

(* The 30 seconds are over, or the connection has ended without an exit.   *)
ExitTimeout ==
  /\ main = "exiting" /\ inbox = <<>>
  /\ main' = "failed"
  /\ UNCHANGED <<caps, clientVars, inbox, incoming, signalled, askVars, poolVars, answers>>

(* Mutant: waits for the queue to drain, not for the jobs that run.        *)
JoinQueueOnly ==
  /\ main = "joining" /\ queue = <<>>
  /\ main' = "stopped"
  /\ UNCHANGED <<caps, clientVars, inbox, incoming, signalled, askVars, poolVars, answers>>

(* pool.join: returns when no job is queued and none runs.                 *)
Join ==
  /\ main = "joining"
  /\ queue = <<>> /\ Occupying = {}
  /\ main' = "stopped"
  /\ UNCHANGED <<caps, clientVars, inbox, incoming, signalled, askVars, poolVars, answers>>

Main ==
  \/ HandleRequest \/ HandleCancel \/ HandleSave \/ HandleConfig
  \/ HandleResponse \/ HandleShutdown \/ IgnoreExit \/ EndOfInput
  \/ AwaitExit \/ ExitTimeout \/ Join

-----------------------------------------------------------------------------
(* The jobs, on the pool's workers. When the main thread has returned with *)
(* an error (or panicked) the process ends and takes the workers with it.  *)

Alive == main \notin {"failed", "panicked"}

(* Mutant: the workers stop taking jobs when the main thread stops.        *)
StartJobWhileServing ==
  /\ main \in {"loop", "exiting"} /\ queue # <<>>
  /\ Cardinality(Occupying) < PoolSize
  /\ LET j == Head(queue) IN
       step' = [step EXCEPT ![j] = IF j \in BuildJobs THEN "lock" ELSE "work"]
  /\ queue' = Tail(queue)
  /\ UNCHANGED <<caps, clientVars, inbox, mainVars, askVars, todo, lock, poisoned, answers>>

(* Mutant: the job is looked at but not taken off the queue.               *)
StartJobAgain ==
  /\ Alive /\ queue # <<>>
  /\ Cardinality(Occupying) < PoolSize
  /\ LET j == Head(queue) IN
       step' = [step EXCEPT ![j] = IF j \in BuildJobs THEN "lock" ELSE "work"]
  /\ UNCHANGED <<caps, clientVars, inbox, mainVars, askVars, queue, todo, lock, poisoned, answers>>

StartJob ==
  /\ Alive /\ queue # <<>>
  /\ Cardinality(Occupying) < PoolSize
  /\ LET j == Head(queue) IN
       step' = [step EXCEPT ![j] = IF j \in BuildJobs THEN "lock" ELSE "work"]
  /\ queue' = Tail(queue)
  /\ UNCHANGED <<caps, clientVars, inbox, mainVars, askVars, todo, lock, poisoned, answers>>

(* Mutant: the lock is taken whoever holds it.                             *)
AcquireHeldLock(j) ==
  /\ Alive /\ step[j] = "lock"
  /\ lock' = j
  /\ step' = [step EXCEPT ![j] = "work"]
  /\ \E asks \in {<<>>, IfSupported("progress")} : todo' = [todo EXCEPT ![j] = asks]
  /\ UNCHANGED <<caps, clientVars, inbox, mainVars, askVars, queue, poisoned, answers>>

(* BuildEngine::build takes the lock; a document that is LaTeX and a file  *)
(* is then announced to a client that supports progress.                   *)
AcquireLock(j) ==
  /\ Alive /\ step[j] = "lock" /\ lock = NoJob /\ ~poisoned
  /\ lock' = j
  /\ step' = [step EXCEPT ![j] = "work"]
  /\ \E asks \in {<<>>, IfSupported("progress")} : todo' = [todo EXCEPT ![j] = asks]
  /\ UNCHANGED <<caps, clientVars, inbox, mainVars, askVars, queue, poisoned, answers>>

(* Mutant: one slot for the pending request instead of a table of them.    *)
RegisterInOneSlot(j) ==
  /\ Alive /\ step[j] = "work" /\ todo[j] # <<>>
  /\ outgoing' = {<<j, Head(todo[j])>>}
  /\ step' = [step EXCEPT ![j] = "registered"]
  /\ UNCHANGED <<caps, clientVars, inbox, mainVars, delivered, queue, todo, lock, poisoned, answers>>

(* lock().unwrap() on a poisoned lock panics, too.                         *)
MeetPoison(j) ==
  /\ Alive /\ step[j] = "lock" /\ lock = NoJob /\ poisoned
  /\ step' = [step EXCEPT ![j] = "panicked"]
  /\ UNCHANGED <<caps, clientVars, inbox, mainVars, askVars, queue, todo, lock, poisoned, answers>>

(* register_outgoing_request: the channel is registered under the queue's  *)
(* mutex; the request is sent after the mutex is released.                 *)
RegisterAsk(j) ==
  /\ Alive /\ step[j] = "work" /\ todo[j] # <<>>
  /\ outgoing' = outgoing \cup {<<j, Head(todo[j])>>}
  /\ step' = [step EXCEPT ![j] = "registered"]
  /\ UNCHANGED <<caps, clientVars, inbox, mainVars, delivered, queue, todo, lock, poisoned, answers>>

SendAsk(j) ==
  /\ Alive /\ step[j] = "registered"
  /\ asked' = asked \cup {<<j, Head(todo[j])>>}
  /\ step' = [step EXCEPT ![j] = "waiting"]
  /\ UNCHANGED <<caps, client, sent, renounced, inbox, mainVars, askVars, queue, todo, lock, poisoned, answers>>

(* A send that fails is an error of send_request: a pull and a             *)
(* registration are logged and the job goes on, a build ends. The entry    *)
(* stays in the queue.                                                     *)
SendAskFails(j) ==
  /\ Alive /\ step[j] = "registered" /\ Unreachable
  /\ step' = [step EXCEPT ![j] = "work"]
  /\ todo' = [todo EXCEPT ![j] = Tail(@)]
  /\ UNCHANGED <<caps, clientVars, inbox, mainVars, askVars, queue, lock, poisoned, answers>>

(* receiver.recv() returns. An error from the client ends a build early,   *)
(* but it still drops its lock and answers, so it is not told apart here.  *)
ReceiveReply(j) ==
  /\ Alive /\ step[j] = "waiting" /\ <<j, Head(todo[j])>> \in delivered
  /\ delivered' = delivered \ {<<j, Head(todo[j])>>}
  /\ step' = [step EXCEPT ![j] = "work"]
  /\ todo' = [todo EXCEPT ![j] = Tail(@)]
  /\ UNCHANGED <<caps, clientVars, inbox, mainVars, outgoing, queue, lock, poisoned, answers>>

(* Mutant: a build keeps the lock.                                         *)
WorkAndKeepLock(j) ==
  /\ Alive /\ step[j] = "work" /\ todo[j] = <<>> /\ j \notin Faulty
  /\ step' = [step EXCEPT ![j] = "finish"]
  /\ UNCHANGED <<caps, clientVars, inbox, mainVars, askVars, queue, todo, lock, poisoned, answers>>

(* The work is done; a build releases the lock before anything else (and   *)
(* before a forward search after the build).                               *)
Work(j) ==
  /\ Alive /\ step[j] = "work" /\ todo[j] = <<>> /\ j \notin Faulty
  /\ lock' = IF j \in BuildJobs THEN NoJob ELSE lock
  /\ step' = [step EXCEPT ![j] = "finish"]
  /\ UNCHANGED <<caps, clientVars, inbox, mainVars, askVars, queue, todo, poisoned, answers>>

(* The handler panics: the pool replaces the thread, no answer is sent.    *)
Panic(j) ==
  /\ Alive /\ step[j] = "work" /\ j \in Faulty
  /\ step' = [step EXCEPT ![j] = "panicked"]
  /\ UNCHANGED <<caps, clientVars, inbox, mainVars, askVars, queue, todo, lock, poisoned, answers>>

(* The log thread of a build panics when it cannot send a line; joining it *)
(* panics as well, and the lock is dropped by the unwinding, poisoned.     *)
PanicInBuild(j) ==
  /\ Alive /\ step[j] = "work" /\ todo[j] = <<>> /\ j \in BuildJobs /\ Unreachable
  /\ step' = [step EXCEPT ![j] = "panicked"]
  /\ lock' = NoJob /\ poisoned' = TRUE
  /\ UNCHANGED <<caps, clientVars, inbox, mainVars, askVars, queue, todo, answers>>

(* The job of a request answers it, with the result or, when the token is  *)
(* signalled by now, with "canceled by client". The check and the send are *)
(* one step: a cancellation between them is one that came too late.        *)
Finish(j) ==
  /\ Alive /\ step[j] = "finish"
  /\ answers' = IF j \in Requests
                  THEN [answers EXCEPT ![j] =
                         Append(@, IF j \in signalled THEN "cancelled" ELSE "result")]
                  ELSE answers
  /\ step' = [step EXCEPT ![j] = "done"]
  /\ UNCHANGED <<caps, clientVars, inbox, mainVars, askVars, queue, todo, lock, poisoned>>

(* The answer cannot be sent: the job unwraps the error and panics.        *)
FinishFails(j) ==
  /\ Alive /\ step[j] = "finish" /\ j \in Requests /\ Unreachable
  /\ step' = [step EXCEPT ![j] = "panicked"]
  /\ UNCHANGED <<caps, clientVars, inbox, mainVars, askVars, queue, todo, lock, poisoned, answers>>

Run(j) ==
  \/ AcquireLock(j) \/ MeetPoison(j)
  \/ RegisterAsk(j) \/ SendAsk(j) \/ SendAskFails(j) \/ ReceiveReply(j)
  \/ Work(j) \/ Panic(j) \/ PanicInBuild(j)
  \/ Finish(j) \/ FinishFails(j)

Next == Client \/ Main \/ StartJob \/ \E j \in Jobs : Run(j)

Spec == Init /\ [][Next]_vars

(* The scheduler runs every thread; the main thread's 30 second timer      *)
(* fires; a job whose turn it is gets the lock (the jobs are finitely      *)
(* many, so weak fairness suffices). A live client answers what it is      *)
(* asked; it need not send anything else.                                  *)
Fairness ==
  /\ WF_vars(Main) /\ WF_vars(StartJob)
  /\ \A j \in Jobs : WF_vars(Run(j))
  /\ \A a \in Asks : WF_vars(SendResponse(a))

FairSpec == Spec /\ Fairness

-----------------------------------------------------------------------------
(* Correctness.                                                            *)

(* What the client can observe is what the contract allows: one answer per *)
(* issued request, "cancelled" only after a $/cancelRequest. The hazard is *)
(* a job answering a request the main thread has refused or answered, and  *)
(* a token signalled for the wrong request.                                *)
Contract == INSTANCE RequestContract WITH issued <- sent \cap Requests
ImplementsContract == Contract!Spec

(* A response of the client always finds its registration, although the    *)
(* job registers and sends in two steps and the client may answer at once: *)
(* the main thread never panics in ReqQueue::complete (server.rs:836), and *)
(* the reply channel it fills has a job still blocked on it, which makes   *)
(* `data.sender.send(result)?` (server.rs:841) never end the server. Only  *)
(* a request that could not be sent leaves its registration behind.        *)
ResponsesFindTheirJob ==
  /\ main # "panicked"
  /\ \A a \in outgoing \cup delivered :
       \/ step[a[1]] \in {"registered", "waiting"} /\ a[2] = Head(todo[a[1]])
       \/ a \in outgoing /\ Unreachable

(* "Prevent building the same file multiple times at once": whatever asks  *)
(* for builds (requests, saves), at most one job is past the lock and not  *)
(* past the build, also while that job waits for the client.               *)
OneBuildAtATime ==
  Cardinality({j \in BuildJobs : step[j] \in {"work", "registered", "waiting"}}) <= 1

(* run() returns only when every request the main thread accepted has been *)
(* answered and every build has let go of the lock: joining the pool       *)
(* drains its queue, too. What is owed then is what the code gives up: a   *)
(* request of a feature that is not built, one whose handler has panicked, *)
(* and, when the client has gone before the end, the answers and the       *)
(* registrations of the requests that could not be sent.                   *)
DrainedAtStop ==
  main = "stopped" =>
    /\ \A r \in (incoming \cup signalled) \ Unbuilt :
         answers[r] # <<>> \/ (step[r] = "panicked" /\ (r \in Faulty \/ Unreachable))
    /\ lock = NoJob
    /\ outgoing # {} => Unreachable

(* While the main thread serves messages, every request is answered in the *)
(* end, however jobs queue behind builds that wait for the lock or for the *)
(* client: nobody holds what the main thread needs to serve the replies.   *)
RequestsAnswered ==
  \A r \in Requests \ (Faulty \cup Unbuilt) :
    r \in sent ~> answers[r] # <<>> \/ main # "loop"

(* Once the main thread joins the pool it gets there, unless a job waits   *)
(* for the client, whose replies nobody reads any more.                    *)
JoinEnds ==
  main = "joining" ~> main = "stopped" \/ \E j \in Jobs : step[j] = "waiting"

(* The tests' ServerTester sends shutdown and exit and then joins the      *)
(* server's thread (common.rs:316): an orderly exit stops the server.      *)
ExitStopsServer == main = "exiting" /\ Received("exit") ~> main = "stopped"

-----------------------------------------------------------------------------
(* The inductive invariant behind the safety properties, in named parts.   *)

Mail == Range(inbox)
Building == {"work", "registered", "waiting"}
Created(j) == step[j] # "idle"
Underway(j) == step[j] \notin {"idle", "done"}
CurrentAsk(j) == <<j, Head(todo[j])>>

(* Nothing is in the inbox or in the pool's queue twice.                   *)
NoRepetition == IsInjective(inbox) /\ IsInjective(queue)

(* What a message that is still in the inbox says about the rest.          *)
MailIsFresh ==
  \A m \in Mail :
    /\ m.kind \in {"request", "save", "config"} =>
         m.id \in sent /\ ~Created(m.id)
    /\ m.kind = "request" =>
         m.id \notin incoming \cup signalled /\ answers[m.id] = <<>>
    /\ m.kind = "cancel" => m.id \in renounced
    /\ m.kind = "response" =>
         m.id \in outgoing \ asked /\ step[m.id[1]] = "waiting" /\ m.id = CurrentAsk(m.id[1])
    /\ m.kind = "shutdown" => client # "open"
    /\ m.kind = "exit" => client \in {"closed", "gone"}

(* Jobs and answers come from messages the client has sent.                *)
NothingFromNowhere ==
  /\ \A j \in Jobs \ {Startup} : Created(j) => j \in sent
  /\ \A r \in Requests : answers[r] # <<>> => r \in sent
  /\ incoming \subseteq sent
  /\ signalled \subseteq renounced /\ renounced \subseteq sent

QueueHoldsQueued == \A j \in Jobs : step[j] = "queued" <=> j \in Range(queue)

(* Where an id of the outgoing half is, its job waits for the reply, or    *)
(* the request could not be sent.                                          *)
AsksHaveWaiters ==
  /\ \A j \in Jobs : step[j] \in {"registered", "waiting"} => todo[j] # <<>>
  /\ \A j \in Jobs : step[j] = "registered" => CurrentAsk(j) \in outgoing
  /\ \A a \in outgoing :
       Unreachable \/ (step[a[1]] \in {"registered", "waiting"} /\ a = CurrentAsk(a[1]))
  /\ \A a \in delivered : step[a[1]] = "waiting" /\ a = CurrentAsk(a[1]) /\ a \notin outgoing
  /\ \A a \in asked : step[a[1]] = "waiting" /\ a = CurrentAsk(a[1]) /\ a \in outgoing
  /\ main # "panicked"

LockHeldByBuilder ==
  /\ \A j \in Jobs : step[j] = "lock" => j \in BuildJobs
  /\ \A j \in BuildJobs : step[j] \in Building => lock = j
  /\ lock # NoJob => lock \in BuildJobs /\ step[lock] \in Building

(* An accepted request is answered or still has its job, unless nobody     *)
(* handles it or the main thread has failed to refuse it.                  *)
AcceptedIsAnswered ==
  /\ \A r \in Requests : Underway(r) => answers[r] = <<>>
  /\ \A r \in (incoming \cup signalled) \ Unbuilt :
       answers[r] # <<>> \/ Underway(r) \/ main = "failed"
  /\ main = "stopped" => queue = <<>> /\ Occupying = {}

(* Handlers that panic do; everything else panics over a failed send.      *)
PanicsHaveReasons ==
  /\ \A j \in Jobs : step[j] = "panicked" => j \in Faulty \/ Unreachable
  /\ poisoned => Unreachable

IInv ==
  /\ TypeOK
  /\ NoRepetition
  /\ MailIsFresh
  /\ NothingFromNowhere
  /\ QueueHoldsQueued
  /\ AsksHaveWaiters
  /\ LockHeldByBuilder
  /\ AcceptedIsAnswered
  /\ PanicsHaveReasons
=============================================================================
