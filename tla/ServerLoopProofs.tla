-------------------------- MODULE ServerLoopProofs --------------------------
(***************************************************************************)
(* Proofs about ServerLoop, for every number of requests, builds, saves,   *)
(* configuration changes and workers.                                      *)
(***************************************************************************)
EXTENDS ServerLoop, QueueLemmas, FiniteSetTheorems

-----------------------------------------------------------------------------
(* About messages, mail and queues.                                        *)

(* A message is its kind and its id, and the kind tells what the id is.    *)
LEMMA MessageShape ==
  ASSUME NEW m \in MessageSet
  PROVE  /\ m = Message(m.kind, m.id)
         /\ m.kind \in {"request", "cancel"} => m.id \in Requests
         /\ m.kind = "save" => m.id \in Saves
         /\ m.kind = "config" => m.id \in Reconfigs
         /\ m.kind = "response" => m.id \in Asks
  BY DEF MessageSet, Message

(* Posting a message that is not in the inbox adds it to the mail.         *)
LEMMA Posting ==
  ASSUME inbox \in Seq(MessageSet), NoRepetition,
         NEW m \in MessageSet, m \notin Mail, Post(m)
  PROVE  /\ inbox' \in Seq(MessageSet)
         /\ Mail' = Mail \cup {m}
         /\ IsInjective(inbox')
  BY AppendToDistinct DEF Post, Mail, NoRepetition

(* Taking the next message removes it from the mail.                       *)
LEMMA Taking ==
  ASSUME inbox \in Seq(MessageSet), NoRepetition, inbox # <<>>, inbox' = Tail(inbox)
  PROVE  /\ inbox' \in Seq(MessageSet)
         /\ Head(inbox) \in MessageSet
         /\ Head(inbox) \in Mail
         /\ Mail' = Mail \ {Head(inbox)}
         /\ IsInjective(inbox')
  BY TailOfDistinct DEF Mail, NoRepetition

(* The mail is a set of messages.                                          *)
LEMMA MailTyped ==
  ASSUME inbox \in Seq(MessageSet)
  PROVE  Mail \subseteq MessageSet
  BY DEF Mail, Range

(* Queueing a job that is not in the pool's queue adds it.                 *)
LEMMA Enqueueing ==
  ASSUME queue \in Seq(Jobs), NoRepetition,
         NEW j \in Jobs, j \notin Range(queue), NEW asks, Enqueue(j, asks)
  PROVE  /\ queue' \in Seq(Jobs)
         /\ Range(queue') = Range(queue) \cup {j}
         /\ IsInjective(queue')
  BY AppendToDistinct DEF Enqueue, NoRepetition

(* A job makes its requests from the kinds there are.                      *)
LEMMA AsksTyped ==
  ASSUME TypeOK, NEW j \in Jobs
  PROVE  AsksOf(j) \in Seq(Kinds) /\ IfSupported("progress") \in Seq(Kinds)
  <1>1. \A k \in Kinds : IfSupported(k) \in Seq(Kinds)
    BY DEF IfSupported
  <1>2. <<>> \in Seq(Kinds)
    OBVIOUS
  <1>3. {"register", "configuration", "progress"} \subseteq Kinds
    BY DEF Kinds
  <1> QED BY <1>1, <1>2, <1>3 DEF AsksOf

-----------------------------------------------------------------------------
(* The server as `initialize` leaves it (server.rs:150-188): one job in the*)
(* queue, no mail, nothing registered.                                     *)
THEOREM InitEstablishesIInv == Init => IInv
  <1> SUFFICES ASSUME Init PROVE IInv
    OBVIOUS
  <1>1. Startup \in Jobs /\ NoJob \notin Jobs
    BY JobsAreDistinct DEF Jobs
  <1>2. AsksOf(Startup) \in Seq(Kinds)
    <2>1. \A k \in Kinds : IfSupported(k) \in Seq(Kinds)
      BY DEF IfSupported
    <2> QED BY <2>1 DEF AsksOf, Kinds
  <1>3. TypeOK
    <2>1. todo \in [Jobs -> Seq(Kinds)]
      BY <1>2 DEF Init
    <2>2. queue \in Seq(Jobs)
      BY <1>1 DEF Init
    <2>3. step \in [Jobs -> Steps] /\ main \in MainStates
      BY DEF Init, Steps, MainStates
    <2>4. poisoned \in BOOLEAN
      BY Zenon DEF Init
    <2>6. answers \in [Requests -> Seq(Outcomes)]
      <3>1. <<>> \in Seq(Outcomes)
        OBVIOUS
      <3>2. answers = [r \in Requests |-> <<>>]
        BY Zenon DEF Init
      <3> QED BY <3>1, <3>2
    <2>5. /\ caps \in SUBSET Kinds /\ client \in {"open", "shutdown", "closed", "gone"}
          /\ lock \in Jobs \cup {NoJob} /\ inbox \in Seq(MessageSet)
      BY DEF Init
    <2> QED BY <2>1, <2>2, <2>3, <2>4, <2>5, <2>6 DEF Init, TypeOK
  <1>4. Range(inbox) = {} /\ Range(queue) = {Startup}
    BY DEF Init, Range
  <1>5. NoRepetition
    BY DEF Init, NoRepetition, IsInjective
  <1>6. /\ MailIsFresh /\ NothingFromNowhere /\ QueueHoldsQueued
        /\ AsksHaveWaiters /\ LockHeldByBuilder /\ AcceptedIsAnswered
        /\ PanicsHaveReasons
    BY <1>1, <1>4, JobsAreDistinct
    DEF Init, PanicsHaveReasons, Mail, MailIsFresh, NothingFromNowhere, QueueHoldsQueued, AsksHaveWaiters,
        LockHeldByBuilder, AcceptedIsAnswered, Created, Underway, Building, Requests, Jobs,
        BuildJobs
  <1> QED BY <1>3, <1>5, <1>6 DEF IInv

-----------------------------------------------------------------------------
(* The client only adds to the mail and to what it has sent.               *)
LEMMA ClientKeepsIInv ==
  ASSUME IInv, Client
  PROVE  IInv'
  <1> USE DEF clientVars, mainVars, askVars, poolVars, Unreachable
  <1>1. ASSUME NEW r \in Requests, SendRequest(r) PROVE IInv'
    <2>1. /\ Message("request", r) \in MessageSet
          /\ Message("request", r) \notin Mail
      BY <1>1 DEF IInv, MailIsFresh, AsksHaveWaiters, TypeOK, MessageSet, Message, SendRequest
    <2>2. /\ inbox' \in Seq(MessageSet)
          /\ Mail' = Mail \cup {Message("request", r)}
          /\ IsInjective(inbox')
      BY <1>1, <2>1, Posting DEF IInv, TypeOK, SendRequest
    <2>3. r \in Jobs \ {Startup}
      BY JobsAreDistinct DEF Jobs, Requests
    <2>4. TypeOK'
      BY <1>1, <2>2, <2>3 DEF IInv, TypeOK, SendRequest
    <2>5. MailIsFresh'
      BY <1>1, <2>2, <2>3
      DEF IInv, TypeOK, MailIsFresh, NothingFromNowhere, AsksHaveWaiters, Message, Created,
          CurrentAsk, SendRequest
    <2>6. NothingFromNowhere' /\ QueueHoldsQueued' /\ LockHeldByBuilder' /\ PanicsHaveReasons'
      BY <1>1
      DEF IInv, TypeOK, NothingFromNowhere, QueueHoldsQueued, LockHeldByBuilder, PanicsHaveReasons,
          Created, SendRequest
    <2>7. AsksHaveWaiters' /\ AcceptedIsAnswered'
      BY <1>1
      DEF IInv, TypeOK, AsksHaveWaiters, AcceptedIsAnswered, Underway, CurrentAsk, Occupying,
          SendRequest
    <2> QED BY <1>1, <2>2, <2>4, <2>5, <2>6, <2>7 DEF IInv, NoRepetition, SendRequest
  <1>2. ASSUME NEW r \in Requests, SendCancel(r) PROVE IInv'
    <2>1. /\ Message("cancel", r) \in MessageSet
          /\ Message("cancel", r) \notin Mail
      BY <1>2 DEF IInv, MailIsFresh, AsksHaveWaiters, TypeOK, MessageSet, Message, SendCancel
    <2>2. /\ inbox' \in Seq(MessageSet)
          /\ Mail' = Mail \cup {Message("cancel", r)}
          /\ IsInjective(inbox')
      BY <1>2, <2>1, Posting DEF IInv, TypeOK, SendCancel
    <2>4. TypeOK'
      BY <1>2, <2>2 DEF IInv, TypeOK, SendCancel
    <2>5. MailIsFresh'
      BY <1>2, <2>2
      DEF IInv, TypeOK, MailIsFresh, NothingFromNowhere, AsksHaveWaiters, Message, Created,
          CurrentAsk, SendCancel
    <2>6. NothingFromNowhere' /\ QueueHoldsQueued' /\ LockHeldByBuilder' /\ PanicsHaveReasons'
      BY <1>2
      DEF IInv, TypeOK, NothingFromNowhere, QueueHoldsQueued, LockHeldByBuilder, PanicsHaveReasons,
          Created, SendCancel
    <2>7. AsksHaveWaiters' /\ AcceptedIsAnswered'
      BY <1>2
      DEF IInv, TypeOK, AsksHaveWaiters, AcceptedIsAnswered, Underway, CurrentAsk, Occupying,
          SendCancel
    <2> QED BY <1>2, <2>2, <2>4, <2>5, <2>6, <2>7 DEF IInv, NoRepetition, SendCancel
  <1>3. ASSUME NEW s \in Saves, SendSave(s) PROVE IInv'
    <2>1. /\ Message("save", s) \in MessageSet
          /\ Message("save", s) \notin Mail
      BY <1>3 DEF IInv, MailIsFresh, AsksHaveWaiters, TypeOK, MessageSet, Message, SendSave
    <2>2. /\ inbox' \in Seq(MessageSet)
          /\ Mail' = Mail \cup {Message("save", s)}
          /\ IsInjective(inbox')
      BY <1>3, <2>1, Posting DEF IInv, TypeOK, SendSave
    <2>3. s \in Jobs \ {Startup}
      BY JobsAreDistinct DEF Jobs, Requests
    <2>4. TypeOK'
      BY <1>3, <2>2, <2>3 DEF IInv, TypeOK, SendSave
    <2>5. MailIsFresh'
      BY <1>3, <2>2, <2>3
      DEF IInv, TypeOK, MailIsFresh, NothingFromNowhere, AsksHaveWaiters, Message, Created,
          CurrentAsk, SendSave
    <2>6. NothingFromNowhere' /\ QueueHoldsQueued' /\ LockHeldByBuilder' /\ PanicsHaveReasons'
      BY <1>3
      DEF IInv, TypeOK, NothingFromNowhere, QueueHoldsQueued, LockHeldByBuilder, PanicsHaveReasons,
          Created, SendSave
    <2>7. AsksHaveWaiters' /\ AcceptedIsAnswered'
      BY <1>3
      DEF IInv, TypeOK, AsksHaveWaiters, AcceptedIsAnswered, Underway, CurrentAsk, Occupying,
          SendSave
    <2> QED BY <1>3, <2>2, <2>4, <2>5, <2>6, <2>7 DEF IInv, NoRepetition, SendSave
  <1>4. ASSUME NEW c \in Reconfigs, SendConfig(c) PROVE IInv'
    <2>1. /\ Message("config", c) \in MessageSet
          /\ Message("config", c) \notin Mail
      BY <1>4 DEF IInv, MailIsFresh, AsksHaveWaiters, TypeOK, MessageSet, Message, SendConfig
    <2>2. /\ inbox' \in Seq(MessageSet)
          /\ Mail' = Mail \cup {Message("config", c)}
          /\ IsInjective(inbox')
      BY <1>4, <2>1, Posting DEF IInv, TypeOK, SendConfig
    <2>3. c \in Jobs \ {Startup}
      BY JobsAreDistinct DEF Jobs, Requests
    <2>4. TypeOK'
      BY <1>4, <2>2, <2>3 DEF IInv, TypeOK, SendConfig
    <2>5. MailIsFresh'
      BY <1>4, <2>2, <2>3
      DEF IInv, TypeOK, MailIsFresh, NothingFromNowhere, AsksHaveWaiters, Message, Created,
          CurrentAsk, SendConfig
    <2>6. NothingFromNowhere' /\ QueueHoldsQueued' /\ LockHeldByBuilder' /\ PanicsHaveReasons'
      BY <1>4
      DEF IInv, TypeOK, NothingFromNowhere, QueueHoldsQueued, LockHeldByBuilder, PanicsHaveReasons,
          Created, SendConfig
    <2>7. AsksHaveWaiters' /\ AcceptedIsAnswered'
      BY <1>4
      DEF IInv, TypeOK, AsksHaveWaiters, AcceptedIsAnswered, Underway, CurrentAsk, Occupying,
          SendConfig
    <2> QED BY <1>4, <2>2, <2>4, <2>5, <2>6, <2>7 DEF IInv, NoRepetition, SendConfig
  <1>5. ASSUME NEW a \in Asks, SendResponse(a) PROVE IInv'
    <2>1. /\ Message("response", a) \in MessageSet
          /\ Message("response", a) \notin Mail
      BY <1>5 DEF IInv, MailIsFresh, AsksHaveWaiters, TypeOK, MessageSet, Message, SendResponse
    <2>2. /\ inbox' \in Seq(MessageSet)
          /\ Mail' = Mail \cup {Message("response", a)}
          /\ IsInjective(inbox')
      BY <1>5, <2>1, Posting DEF IInv, TypeOK, SendResponse
    <2>4. TypeOK'
      BY <1>5, <2>2 DEF IInv, TypeOK, SendResponse
    <2>5. MailIsFresh'
      BY <1>5, <2>2
      DEF IInv, TypeOK, MailIsFresh, NothingFromNowhere, AsksHaveWaiters, Message, Created,
          CurrentAsk, SendResponse
    <2>6. NothingFromNowhere' /\ QueueHoldsQueued' /\ LockHeldByBuilder' /\ PanicsHaveReasons'
      BY <1>5
      DEF IInv, TypeOK, NothingFromNowhere, QueueHoldsQueued, LockHeldByBuilder, PanicsHaveReasons,
          Created, SendResponse
    <2>7. AsksHaveWaiters' /\ AcceptedIsAnswered'
      BY <1>5
      DEF IInv, TypeOK, AsksHaveWaiters, AcceptedIsAnswered, Underway, CurrentAsk, Occupying,
          SendResponse
    <2> QED BY <1>5, <2>2, <2>4, <2>5, <2>6, <2>7 DEF IInv, NoRepetition, SendResponse
  <1>6. ASSUME SendShutdown PROVE IInv'
    <2>1. /\ Message("shutdown", NoJob) \in MessageSet
          /\ Message("shutdown", NoJob) \notin Mail
      BY <1>6 DEF IInv, MailIsFresh, AsksHaveWaiters, TypeOK, MessageSet, Message, SendShutdown
    <2>2. /\ inbox' \in Seq(MessageSet)
          /\ Mail' = Mail \cup {Message("shutdown", NoJob)}
          /\ IsInjective(inbox')
      BY <1>6, <2>1, Posting DEF IInv, TypeOK, SendShutdown
    <2>4. TypeOK'
      BY <1>6, <2>2 DEF IInv, TypeOK, SendShutdown
    <2>5. MailIsFresh'
      BY <1>6, <2>2
      DEF IInv, TypeOK, MailIsFresh, NothingFromNowhere, AsksHaveWaiters, Message, Created,
          CurrentAsk, SendShutdown
    <2>6. NothingFromNowhere' /\ QueueHoldsQueued' /\ LockHeldByBuilder' /\ PanicsHaveReasons'
      BY <1>6
      DEF IInv, TypeOK, NothingFromNowhere, QueueHoldsQueued, LockHeldByBuilder, PanicsHaveReasons,
          Created, SendShutdown
    <2>7. AsksHaveWaiters' /\ AcceptedIsAnswered'
      BY <1>6
      DEF IInv, TypeOK, AsksHaveWaiters, AcceptedIsAnswered, Underway, CurrentAsk, Occupying,
          SendShutdown
    <2> QED BY <1>6, <2>2, <2>4, <2>5, <2>6, <2>7 DEF IInv, NoRepetition, SendShutdown
  <1>7. ASSUME SendExit PROVE IInv'
    <2>1. /\ Message("exit", NoJob) \in MessageSet
          /\ Message("exit", NoJob) \notin Mail
      BY <1>7 DEF IInv, MailIsFresh, AsksHaveWaiters, TypeOK, MessageSet, Message, SendExit
    <2>2. /\ inbox' \in Seq(MessageSet)
          /\ Mail' = Mail \cup {Message("exit", NoJob)}
          /\ IsInjective(inbox')
      BY <1>7, <2>1, Posting DEF IInv, TypeOK, SendExit
    <2>4. TypeOK'
      BY <1>7, <2>2 DEF IInv, TypeOK, SendExit
    <2>5. MailIsFresh'
      BY <1>7, <2>2
      DEF IInv, TypeOK, MailIsFresh, NothingFromNowhere, AsksHaveWaiters, Message, Created,
          CurrentAsk, SendExit
    <2>6. NothingFromNowhere' /\ QueueHoldsQueued' /\ LockHeldByBuilder' /\ PanicsHaveReasons'
      BY <1>7
      DEF IInv, TypeOK, NothingFromNowhere, QueueHoldsQueued, LockHeldByBuilder, PanicsHaveReasons,
          Created, SendExit
    <2>7. AsksHaveWaiters' /\ AcceptedIsAnswered'
      BY <1>7
      DEF IInv, TypeOK, AsksHaveWaiters, AcceptedIsAnswered, Underway, CurrentAsk, Occupying,
          SendExit
    <2> QED BY <1>7, <2>2, <2>4, <2>5, <2>6, <2>7 DEF IInv, NoRepetition, SendExit
  <1>8. ASSUME Hangup PROVE IInv'
    BY <1>8
    DEF IInv, TypeOK, Mail, NoRepetition, MailIsFresh, NothingFromNowhere, QueueHoldsQueued,
        AsksHaveWaiters, LockHeldByBuilder, AcceptedIsAnswered, PanicsHaveReasons, Created, Underway, CurrentAsk,
        Occupying, Hangup
  <1> QED
    BY <1>1, <1>2, <1>3, <1>4, <1>5, <1>6, <1>7, <1>8 DEF Client

-----------------------------------------------------------------------------
(* The main thread turns mail into jobs, answers, signals and replies.     *)
LEMMA MainKeepsIInv ==
  ASSUME IInv, Main
  PROVE  IInv'
  <1> USE DEF clientVars, mainVars, askVars, poolVars, Unreachable
  <1> DEFINE m == Head(inbox)
  <1>1. ASSUME HandleRequest PROVE IInv'
    <2>1. /\ inbox' \in Seq(MessageSet)
          /\ m \in MessageSet /\ m \in Mail /\ m.kind = "request"
          /\ Mail' = Mail \ {m}
          /\ IsInjective(inbox')
      BY <1>1, Taking DEF IInv, TypeOK, Received, HandleRequest
    <2>2. /\ m.id \in Jobs \ {Startup} /\ step[m.id] = "idle"
          /\ m = Message("request", m.id)
          /\ m.id \notin Range(queue) /\ AsksOf(m.id) \in Seq(Kinds)
      BY <2>1, MessageShape, AsksTyped, JobsAreDistinct
      DEF IInv, MailIsFresh, QueueHoldsQueued, Created, Jobs, Requests
    <2>others. \A n \in Mail' : n.kind \in {"request", "save", "config"} => n.id # m.id
      BY <2>1, <2>2, MailTyped, MessageShape, JobsAreDistinct DEF IInv, TypeOK, Message
    <2>3. ASSUME Enqueue(m.id, AsksOf(m.id)), UNCHANGED <<main, answers>> PROVE IInv'
      <3>1. /\ queue' \in Seq(Jobs)
            /\ Range(queue') = Range(queue) \cup {m.id}
            /\ IsInjective(queue')
        BY <2>3, <2>2, Enqueueing DEF IInv, TypeOK
      <3>2. TypeOK'
        BY <1>1, <2>1, <2>2, <2>3, <3>1, MessageShape DEF IInv, TypeOK, Steps, Enqueue,
             HandleRequest
      <3>3. MailIsFresh'
        <4>1. \A n \in Mail' : n \in Mail /\ n \in MessageSet
          BY <2>1, MailTyped DEF IInv, TypeOK
        <4>2. \A j \in Jobs : step[j] # "idle" => step'[j] = step[j] /\ todo'[j] = todo[j]
          BY <2>2, <2>3 DEF IInv, TypeOK, Enqueue
        <4>3. \A n \in Mail' : n.kind \in {"request", "save", "config"} => step'[n.id] = step[n.id]
          BY <2>2, <2>3, <2>others, <4>1, MessageShape DEF IInv, TypeOK, Enqueue, Jobs
        <4>4. \A n \in Mail' : n.kind = "response" =>
                /\ step'[n.id[1]] = step[n.id[1]] /\ CurrentAsk(n.id[1])' = CurrentAsk(n.id[1])
          BY <4>1, <4>2, MessageShape DEF IInv, MailIsFresh, CurrentAsk, Asks
        <4>5. \A n \in Mail' : n.kind = "request" => n.id # m.id
          BY <2>others
        <4> QED
          BY <1>1, <2>3, <2>others, <4>1, <4>3, <4>4, <4>5
          DEF IInv, TypeOK, MailIsFresh, Created, HandleRequest
      <3>4. NothingFromNowhere' /\ QueueHoldsQueued'
        BY <1>1, <2>1, <2>2, <2>3, <3>1
        DEF IInv, TypeOK, MailIsFresh, NothingFromNowhere, QueueHoldsQueued, Created, Enqueue, HandleRequest
      <3>5. AsksHaveWaiters'
        BY <1>1, <2>2, <2>3 DEF IInv, TypeOK, AsksHaveWaiters, CurrentAsk, Enqueue,
             HandleRequest, Asks
      <3>6. LockHeldByBuilder'
        BY <1>1, <2>2, <2>3, JobsAreDistinct
        DEF IInv, TypeOK, LockHeldByBuilder, Building, Enqueue, HandleRequest, BuildJobs, Jobs, Requests
      <3>7. AcceptedIsAnswered'
        BY <1>1, <2>1, <2>2, <2>3
        DEF IInv, TypeOK, MailIsFresh, AcceptedIsAnswered, Underway, Enqueue, HandleRequest, Requests, Jobs
      <3>8. PanicsHaveReasons'
        BY <1>1, <2>2, <2>3 DEF IInv, TypeOK, PanicsHaveReasons, Enqueue, HandleRequest
      <3> QED BY <2>1, <3>1, <3>2, <3>3, <3>4, <3>5, <3>6, <3>7, <3>8 DEF IInv, NoRepetition
    <2>4. ASSUME answers' = [answers EXCEPT ![m.id] = Append(@, "error")],
                 UNCHANGED <<main, poolVars>>
          PROVE  IInv'
      <3>fresh. m.id \in Requests /\ answers[m.id] = <<>>
        BY <2>1, MessageShape DEF IInv, MailIsFresh
      <3>single. Append(<<>>, "error") = <<"error">>
        OBVIOUS
      <3>1. /\ m.id \in Requests
            /\ answers[m.id] = <<>>
            /\ answers' = [answers EXCEPT ![m.id] = <<"error">>]
        BY <2>4, <3>fresh, <3>single
      <3>2. TypeOK'
        BY <1>1, <2>1, <2>4, <3>1 DEF IInv, TypeOK, HandleRequest, Outcomes
      <3>3. MailIsFresh'
        BY <1>1, <2>1, <2>2, <2>others, <2>4, <3>1, MessageShape, MailTyped
        DEF IInv, TypeOK, MailIsFresh, CurrentAsk, Created, HandleRequest
      <3>4. AcceptedIsAnswered'
        BY <1>1, <2>2, <2>4, <3>1
        DEF IInv, TypeOK, AcceptedIsAnswered, Underway, Occupying, HandleRequest
      <3>5. NothingFromNowhere'
        BY <1>1, <2>1, <2>4, <3>1
        DEF IInv, TypeOK, MailIsFresh, NothingFromNowhere, Created, HandleRequest
      <3>6. QueueHoldsQueued' /\ AsksHaveWaiters' /\ LockHeldByBuilder' /\ PanicsHaveReasons'
        BY <1>1, <2>4
        DEF IInv, QueueHoldsQueued, AsksHaveWaiters, LockHeldByBuilder, PanicsHaveReasons,
            CurrentAsk, HandleRequest
      <3> QED
        BY <1>1, <2>1, <2>4, <3>2, <3>3, <3>4, <3>5, <3>6 DEF IInv, NoRepetition, HandleRequest
    <2>5. ASSUME UNCHANGED <<poolVars, answers>>,
                 \/ m.id \in Unbuilt /\ main' = main
                 \/ main' = "failed"
          PROVE  IInv'
      <3>1. TypeOK'
        BY <1>1, <2>1, <2>5, MessageShape DEF IInv, TypeOK, MainStates, HandleRequest
      <3>2. MailIsFresh'
        BY <1>1, <2>1, <2>2, <2>others, <2>5, MessageShape, MailTyped
        DEF IInv, TypeOK, MailIsFresh, CurrentAsk, Created, HandleRequest
      <3>3. NothingFromNowhere'
        BY <1>1, <2>1, <2>5
        DEF IInv, TypeOK, MailIsFresh, NothingFromNowhere, Created, HandleRequest
      <3>4. AcceptedIsAnswered'
        BY <1>1, <2>5 DEF IInv, TypeOK, AcceptedIsAnswered, Underway, Occupying, HandleRequest
      <3>5. QueueHoldsQueued' /\ AsksHaveWaiters' /\ LockHeldByBuilder' /\ PanicsHaveReasons'
        BY <1>1, <2>5
        DEF IInv, QueueHoldsQueued, AsksHaveWaiters, LockHeldByBuilder, PanicsHaveReasons,
            CurrentAsk, HandleRequest
      <3> QED
        BY <1>1, <2>1, <2>5, <3>1, <3>2, <3>3, <3>4, <3>5 DEF IInv, NoRepetition, HandleRequest
    <2> QED BY <1>1, <2>3, <2>4, <2>5 DEF HandleRequest
  <1>2. ASSUME HandleCancel PROVE IInv'
    <2>1. /\ inbox' \in Seq(MessageSet)
          /\ m \in MessageSet /\ m \in Mail /\ m.kind = "cancel"
          /\ Mail' = Mail \ {m}
          /\ IsInjective(inbox')
      BY <1>2, Taking DEF IInv, TypeOK, Received, HandleCancel
    <2>2. m.id \in Requests /\ m.id \in renounced
      BY <2>1, MessageShape DEF IInv, MailIsFresh
    <2>3. TypeOK'
      BY <1>2, <2>1, <2>2 DEF IInv, TypeOK, HandleCancel
    <2>4. MailIsFresh'
      BY <1>2, <2>1, <2>2 DEF IInv, TypeOK, MailIsFresh, CurrentAsk, Created, HandleCancel
    <2> QED
      BY <1>2, <2>1, <2>2, <2>3, <2>4
      DEF IInv, NoRepetition, MailIsFresh, NothingFromNowhere, QueueHoldsQueued, AsksHaveWaiters,
          LockHeldByBuilder, AcceptedIsAnswered, PanicsHaveReasons, Created, Underway, CurrentAsk, Occupying, HandleCancel
  <1>3. ASSUME HandleSave PROVE IInv'
    <2>1. /\ inbox' \in Seq(MessageSet)
          /\ m \in MessageSet /\ m \in Mail /\ m.kind = "save"
          /\ Mail' = Mail \ {m}
          /\ IsInjective(inbox')
      BY <1>3, Taking DEF IInv, TypeOK, Received, HandleSave
    <2>2. /\ m.id \in Jobs \ {Startup} /\ step[m.id] = "idle"
          /\ m = Message("save", m.id)
          /\ m.id \notin Range(queue) /\ AsksOf(m.id) \in Seq(Kinds)
      BY <2>1, MessageShape, AsksTyped, JobsAreDistinct
      DEF IInv, MailIsFresh, QueueHoldsQueued, Created, Jobs, Requests
    <2>others. \A n \in Mail' : n.kind \in {"request", "save", "config"} => n.id # m.id
      BY <2>1, <2>2, MailTyped, MessageShape, JobsAreDistinct DEF IInv, TypeOK, Message
    <2>3. ASSUME Enqueue(m.id, AsksOf(m.id)) PROVE IInv'
      <3>1. /\ queue' \in Seq(Jobs)
            /\ Range(queue') = Range(queue) \cup {m.id}
            /\ IsInjective(queue')
        BY <2>3, <2>2, Enqueueing DEF IInv, TypeOK
      <3>2. TypeOK'
        BY <1>3, <2>1, <2>2, <2>3, <3>1, MessageShape DEF IInv, TypeOK, Steps, Enqueue, HandleSave
      <3>3. MailIsFresh'
        <4>1. \A n \in Mail' : n \in Mail /\ n \in MessageSet
          BY <2>1, MailTyped DEF IInv, TypeOK
        <4>2. \A j \in Jobs : step[j] # "idle" => step'[j] = step[j] /\ todo'[j] = todo[j]
          BY <2>2, <2>3 DEF IInv, TypeOK, Enqueue
        <4>3. \A n \in Mail' : n.kind \in {"request", "save", "config"} => step'[n.id] = step[n.id]
          BY <2>2, <2>3, <2>others, <4>1, MessageShape DEF IInv, TypeOK, Enqueue, Jobs
        <4>4. \A n \in Mail' : n.kind = "response" =>
                /\ step'[n.id[1]] = step[n.id[1]] /\ CurrentAsk(n.id[1])' = CurrentAsk(n.id[1])
          BY <4>1, <4>2, MessageShape DEF IInv, MailIsFresh, CurrentAsk, Asks
        <4>5. \A n \in Mail' : n.kind = "request" => n.id # m.id
          BY <2>others
        <4> QED
          BY <1>3, <2>3, <2>others, <4>1, <4>3, <4>4, <4>5
          DEF IInv, TypeOK, MailIsFresh, Created, HandleSave
      <3>4. NothingFromNowhere' /\ QueueHoldsQueued'
        BY <1>3, <2>1, <2>2, <2>3, <3>1
        DEF IInv, TypeOK, MailIsFresh, NothingFromNowhere, QueueHoldsQueued, Created, Enqueue, HandleSave
      <3>5. AsksHaveWaiters'
        BY <1>3, <2>2, <2>3 DEF IInv, TypeOK, AsksHaveWaiters, CurrentAsk, Enqueue, HandleSave, Asks
      <3>6. LockHeldByBuilder'
        BY <1>3, <2>2, <2>3, JobsAreDistinct
        DEF IInv, TypeOK, LockHeldByBuilder, Building, Enqueue, HandleSave, BuildJobs, Jobs, Requests
      <3>7. AcceptedIsAnswered'
        <4>1. m.id \notin Requests
          BY <2>1, MessageShape, JobsAreDistinct
        <4> QED
          BY <1>3, <2>2, <2>3, <4>1
          DEF IInv, TypeOK, AcceptedIsAnswered, Underway, Enqueue, HandleSave, Jobs
      <3>8. PanicsHaveReasons'
        BY <1>3, <2>2, <2>3 DEF IInv, TypeOK, PanicsHaveReasons, Enqueue, HandleSave
      <3> QED BY <2>1, <3>1, <3>2, <3>3, <3>4, <3>5, <3>6, <3>7, <3>8 DEF IInv, NoRepetition
    <2>4. ASSUME UNCHANGED poolVars PROVE IInv'
      BY <1>3, <2>1, <2>4
      DEF IInv, TypeOK, NoRepetition, MailIsFresh, NothingFromNowhere, QueueHoldsQueued, AsksHaveWaiters,
          LockHeldByBuilder, AcceptedIsAnswered, PanicsHaveReasons, Created, Underway, CurrentAsk, Occupying, HandleSave
    <2> QED BY <1>3, <2>3, <2>4 DEF HandleSave
  <1>4. ASSUME HandleConfig PROVE IInv'
    <2>1. /\ inbox' \in Seq(MessageSet)
          /\ m \in MessageSet /\ m \in Mail /\ m.kind = "config"
          /\ Mail' = Mail \ {m}
          /\ IsInjective(inbox')
      BY <1>4, Taking DEF IInv, TypeOK, Received, HandleConfig
    <2>2. /\ m.id \in Jobs \ {Startup} /\ step[m.id] = "idle"
          /\ m = Message("config", m.id)
          /\ m.id \notin Range(queue) /\ AsksOf(m.id) \in Seq(Kinds)
      BY <2>1, MessageShape, AsksTyped, JobsAreDistinct
      DEF IInv, MailIsFresh, QueueHoldsQueued, Created, Jobs, Requests
    <2>others. \A n \in Mail' : n.kind \in {"request", "save", "config"} => n.id # m.id
      BY <2>1, <2>2, MailTyped, MessageShape, JobsAreDistinct DEF IInv, TypeOK, Message
    <2>3. ASSUME Enqueue(m.id, AsksOf(m.id)) PROVE IInv'
      <3>1. /\ queue' \in Seq(Jobs)
            /\ Range(queue') = Range(queue) \cup {m.id}
            /\ IsInjective(queue')
        BY <2>3, <2>2, Enqueueing DEF IInv, TypeOK
      <3>2. TypeOK'
        BY <1>4, <2>1, <2>2, <2>3, <3>1, MessageShape DEF IInv, TypeOK, Steps, Enqueue, HandleConfig
      <3>3. MailIsFresh'
        <4>1. \A n \in Mail' : n \in Mail /\ n \in MessageSet
          BY <2>1, MailTyped DEF IInv, TypeOK
        <4>2. \A j \in Jobs : step[j] # "idle" => step'[j] = step[j] /\ todo'[j] = todo[j]
          BY <2>2, <2>3 DEF IInv, TypeOK, Enqueue
        <4>3. \A n \in Mail' : n.kind \in {"request", "save", "config"} => step'[n.id] = step[n.id]
          BY <2>2, <2>3, <2>others, <4>1, MessageShape DEF IInv, TypeOK, Enqueue, Jobs
        <4>4. \A n \in Mail' : n.kind = "response" =>
                /\ step'[n.id[1]] = step[n.id[1]] /\ CurrentAsk(n.id[1])' = CurrentAsk(n.id[1])
          BY <4>1, <4>2, MessageShape DEF IInv, MailIsFresh, CurrentAsk, Asks
        <4>5. \A n \in Mail' : n.kind = "request" => n.id # m.id
          BY <2>others
        <4> QED
          BY <1>4, <2>3, <2>others, <4>1, <4>3, <4>4, <4>5
          DEF IInv, TypeOK, MailIsFresh, Created, HandleConfig
      <3>4. NothingFromNowhere' /\ QueueHoldsQueued'
        BY <1>4, <2>1, <2>2, <2>3, <3>1
        DEF IInv, TypeOK, MailIsFresh, NothingFromNowhere, QueueHoldsQueued, Created, Enqueue, HandleConfig
      <3>5. AsksHaveWaiters'
        BY <1>4, <2>2, <2>3 DEF IInv, TypeOK, AsksHaveWaiters, CurrentAsk, Enqueue,
             HandleConfig, Asks
      <3>6. LockHeldByBuilder'
        BY <1>4, <2>2, <2>3, JobsAreDistinct
        DEF IInv, TypeOK, LockHeldByBuilder, Building, Enqueue, HandleConfig, BuildJobs, Jobs, Requests
      <3>7. AcceptedIsAnswered'
        <4>1. m.id \notin Requests
          BY <2>1, MessageShape, JobsAreDistinct
        <4> QED
          BY <1>4, <2>2, <2>3, <4>1
          DEF IInv, TypeOK, AcceptedIsAnswered, Underway, Enqueue, HandleConfig, Jobs
      <3>8. PanicsHaveReasons'
        BY <1>4, <2>2, <2>3 DEF IInv, TypeOK, PanicsHaveReasons, Enqueue, HandleConfig
      <3> QED BY <2>1, <3>1, <3>2, <3>3, <3>4, <3>5, <3>6, <3>7, <3>8 DEF IInv, NoRepetition
    <2> QED BY <1>4, <2>3 DEF HandleConfig
  <1>5. ASSUME HandleResponse PROVE IInv'
    <2>1. /\ inbox' \in Seq(MessageSet)
          /\ m \in MessageSet /\ m \in Mail /\ m.kind = "response"
          /\ Mail' = Mail \ {m}
          /\ IsInjective(inbox')
      BY <1>5, Taking DEF IInv, TypeOK, Received, HandleResponse
    <2>2. /\ m.id \in Asks /\ m = Message("response", m.id)
          /\ m.id \in outgoing \ asked /\ step[m.id[1]] = "waiting"
          /\ m.id = CurrentAsk(m.id[1])
      BY <2>1, MessageShape DEF IInv, MailIsFresh
    <2>3. /\ outgoing' = outgoing \ {m.id}
          /\ delivered' = delivered \cup {m.id}
          /\ main' = main
      BY <1>5, <2>2 DEF HandleResponse
    <2>4. TypeOK'
      BY <1>5, <2>1, <2>2, <2>3 DEF IInv, TypeOK, HandleResponse
    <2>5. MailIsFresh'
      <3>1. \A n \in Mail' : n.kind = "response" => n.id # m.id
        BY <2>1, <2>2, MailTyped, MessageShape DEF IInv, TypeOK
      <3> QED
        BY <1>5, <2>1, <2>2, <2>3, <3>1
        DEF IInv, TypeOK, MailIsFresh, CurrentAsk, Created, HandleResponse
    <2>6. AsksHaveWaiters'
      <3>1. PICK e \in Asks :
              /\ e \in outgoing \ asked /\ step[e[1]] = "waiting" /\ e = CurrentAsk(e[1])
              /\ outgoing' = outgoing \ {e} /\ delivered' = delivered \cup {e}
        BY <2>2, <2>3
      <3>2. /\ step' = step /\ todo' = todo /\ asked' = asked /\ client' = client
            /\ \A j \in Jobs : CurrentAsk(j)' = CurrentAsk(j)
        BY <1>5 DEF HandleResponse, CurrentAsk
      <3>3. \A j \in Jobs : step[j] = "registered" => CurrentAsk(j) # e
        BY <3>1 DEF CurrentAsk
      <3>4. \A a \in delivered : a # e
        BY <3>1 DEF IInv, AsksHaveWaiters
      <3>5. \A a \in outgoing \cup delivered \cup asked \cup {e} : a[1] \in Jobs
        BY DEF IInv, TypeOK, Asks
      <3> QED
        BY <2>3, <3>1, <3>2, <3>3, <3>4, <3>5 DEF IInv, AsksHaveWaiters
    <2> QED
      BY <1>5, <2>1, <2>3, <2>4, <2>5, <2>6
      DEF IInv, NoRepetition, MailIsFresh, NothingFromNowhere, QueueHoldsQueued, AsksHaveWaiters,
          LockHeldByBuilder, AcceptedIsAnswered, PanicsHaveReasons, Created, Underway, CurrentAsk, Occupying, HandleResponse
  <1>6. ASSUME HandleShutdown PROVE IInv'
    <2>1. /\ inbox' \in Seq(MessageSet)
          /\ m \in MessageSet /\ m \in Mail /\ m.kind = "shutdown"
          /\ Mail' = Mail \ {m}
          /\ IsInjective(inbox')
      BY <1>6, Taking DEF IInv, TypeOK, Received, HandleShutdown
    <2> QED
      BY <1>6, <2>1
      DEF IInv, TypeOK, MainStates, NoRepetition, MailIsFresh, NothingFromNowhere, QueueHoldsQueued, AsksHaveWaiters,
          LockHeldByBuilder, AcceptedIsAnswered, PanicsHaveReasons, Created, Underway, CurrentAsk, Occupying, HandleShutdown
  <1>7. ASSUME IgnoreExit PROVE IInv'
    <2>1. /\ inbox' \in Seq(MessageSet)
          /\ m \in MessageSet /\ m \in Mail /\ m.kind = "exit"
          /\ Mail' = Mail \ {m}
          /\ IsInjective(inbox')
      BY <1>7, Taking DEF IInv, TypeOK, Received, IgnoreExit
    <2> QED
      BY <1>7, <2>1
      DEF IInv, TypeOK, MainStates, NoRepetition, MailIsFresh, NothingFromNowhere, QueueHoldsQueued, AsksHaveWaiters,
          LockHeldByBuilder, AcceptedIsAnswered, PanicsHaveReasons, Created, Underway, CurrentAsk, Occupying, IgnoreExit
  <1>8. ASSUME AwaitExit PROVE IInv'
    <2>1. /\ inbox' \in Seq(MessageSet)
          /\ Mail' = Mail \ {m}
          /\ IsInjective(inbox')
      BY <1>8, Taking DEF IInv, TypeOK, AwaitExit
    <2> QED
      BY <1>8, <2>1
      DEF IInv, TypeOK, MainStates, NoRepetition, MailIsFresh, NothingFromNowhere, QueueHoldsQueued, AsksHaveWaiters,
          LockHeldByBuilder, AcceptedIsAnswered, PanicsHaveReasons, Created, Underway, CurrentAsk, Occupying, AwaitExit
  <1>9. ASSUME EndOfInput \/ ExitTimeout PROVE IInv'
    BY <1>9
    DEF IInv, TypeOK, MainStates, Mail, NoRepetition, MailIsFresh, NothingFromNowhere, QueueHoldsQueued, AsksHaveWaiters,
          LockHeldByBuilder, AcceptedIsAnswered, PanicsHaveReasons, Created, Underway, CurrentAsk, Occupying,
        EndOfInput, ExitTimeout
  <1>10. ASSUME Join PROVE IInv'
    BY <1>10
    DEF IInv, TypeOK, MainStates, Mail, NoRepetition, MailIsFresh, NothingFromNowhere,
        QueueHoldsQueued, AsksHaveWaiters, LockHeldByBuilder, AcceptedIsAnswered,
        PanicsHaveReasons, Created, Underway, CurrentAsk, Occupying, Join
  <1> QED
    BY <1>1, <1>2, <1>3, <1>4, <1>5, <1>6, <1>7, <1>8, <1>9, <1>10 DEF Main

-----------------------------------------------------------------------------
(* The workers move jobs along, make requests of the client and answer.    *)
LEMMA WorkersKeepIInv ==
  ASSUME IInv, StartJob \/ \E j \in Jobs : Run(j)
  PROVE  IInv'
  <1> USE DEF clientVars, mainVars, askVars, poolVars, Unreachable
  <1>0. ASSUME StartJob PROVE IInv'
    <2> DEFINE j == Head(queue)
    <2>1. /\ queue' \in Seq(Jobs)
          /\ j \in Jobs /\ j \in Range(queue)
          /\ Range(queue') = Range(queue) \ {j}
          /\ IsInjective(queue')
      BY <1>0, TailOfDistinct DEF IInv, TypeOK, NoRepetition, StartJob
    <2>2. /\ step[j] = "queued"
          /\ step' = [step EXCEPT ![j] = IF j \in BuildJobs THEN "lock" ELSE "work"]
      BY <1>0, <2>1 DEF IInv, QueueHoldsQueued, StartJob
    <2> HIDE DEF j
    <2>3. TypeOK'
      BY <1>0, <2>1, <2>2 DEF IInv, TypeOK, Steps, StartJob
    <2>4. MailIsFresh'
      BY <1>0, <2>1, <2>2
      DEF IInv, TypeOK, Mail, MailIsFresh, AsksHaveWaiters, CurrentAsk, Created, Asks, StartJob
    <2>5. NothingFromNowhere' /\ QueueHoldsQueued'
      BY <1>0, <2>1, <2>2
      DEF IInv, TypeOK, NothingFromNowhere, QueueHoldsQueued, Created, StartJob
    <2>6. AsksHaveWaiters'
      BY <1>0, <2>1, <2>2 DEF IInv, TypeOK, AsksHaveWaiters, CurrentAsk, Asks, StartJob
    <2>7. LockHeldByBuilder'
      BY <1>0, <2>1, <2>2 DEF IInv, TypeOK, LockHeldByBuilder, Building, BuildJobs, StartJob
    <2>8. AcceptedIsAnswered'
      BY <1>0, <2>1, <2>2 DEF IInv, TypeOK, AcceptedIsAnswered, Underway, Requests, Jobs, StartJob
    <2>p. PanicsHaveReasons'
      BY <1>0, <2>2 DEF IInv, TypeOK, PanicsHaveReasons, StartJob
    <2> QED
      BY <1>0, <2>1, <2>3, <2>4, <2>5, <2>6, <2>7, <2>8, <2>p DEF IInv, NoRepetition, StartJob
  <1> SUFFICES ASSUME NEW j \in Jobs, Run(j) PROVE IInv'
    BY <1>0
  <1>1. ASSUME AcquireLock(j) PROVE IInv'
    <2>1. TypeOK'
      <3>1. PICK asks \in {<<>>, IfSupported("progress")} : todo' = [todo EXCEPT ![j] = asks]
        BY <1>1 DEF AcquireLock
      <3>2. asks \in Seq(Kinds)
        <4>1. <<>> \in Seq(Kinds)
          OBVIOUS
        <4> QED BY <4>1, AsksTyped DEF IInv
      <3> QED BY <1>1, <3>1, <3>2 DEF IInv, TypeOK, Steps, AcquireLock
    <2>2. MailIsFresh'
      BY <1>1 DEF IInv, TypeOK, Mail, MailIsFresh, AsksHaveWaiters, NothingFromNowhere, Created,
        CurrentAsk, Asks, Outcomes, AcquireLock
    <2>3. NothingFromNowhere' /\ QueueHoldsQueued'
      BY <1>1 DEF IInv, TypeOK, NothingFromNowhere, QueueHoldsQueued, AcceptedIsAnswered, Created,
        Underway, AcquireLock
    <2>4. AsksHaveWaiters'
      BY <1>1 DEF IInv, TypeOK, AsksHaveWaiters, CurrentAsk, Asks, AcquireLock
    <2>5. LockHeldByBuilder'
      BY <1>1, JobsAreDistinct, FaultyArePlain
      DEF IInv, TypeOK, LockHeldByBuilder, Building, BuildJobs, Jobs, Requests, AcquireLock
    <2>6. AcceptedIsAnswered'
      BY <1>1, JobsAreDistinct
      DEF IInv, TypeOK, AcceptedIsAnswered, Underway, Occupying, Jobs, Requests, AcquireLock
    <2>p. PanicsHaveReasons'
      BY <1>1 DEF IInv, TypeOK, PanicsHaveReasons, AcquireLock
    <2> QED
      BY <1>1, <2>1, <2>2, <2>3, <2>4, <2>5, <2>6, <2>p DEF IInv, NoRepetition, AcquireLock
  <1>2. ASSUME RegisterAsk(j) PROVE IInv'
    <2>1. TypeOK'
      BY <1>2 DEF IInv, TypeOK, Steps, AsksHaveWaiters, Asks, RegisterAsk
    <2>2. MailIsFresh'
      BY <1>2 DEF IInv, TypeOK, Mail, MailIsFresh, AsksHaveWaiters, NothingFromNowhere, Created,
        CurrentAsk, Asks, Outcomes, RegisterAsk
    <2>3. NothingFromNowhere' /\ QueueHoldsQueued'
      BY <1>2 DEF IInv, TypeOK, NothingFromNowhere, QueueHoldsQueued, AcceptedIsAnswered, Created,
        Underway, RegisterAsk
    <2>4. AsksHaveWaiters'
      BY <1>2 DEF IInv, TypeOK, AsksHaveWaiters, CurrentAsk, Asks, RegisterAsk
    <2>5. LockHeldByBuilder'
      BY <1>2, JobsAreDistinct, FaultyArePlain
      DEF IInv, TypeOK, LockHeldByBuilder, Building, BuildJobs, Jobs, Requests, RegisterAsk
    <2>6. AcceptedIsAnswered'
      BY <1>2, JobsAreDistinct
      DEF IInv, TypeOK, AcceptedIsAnswered, Underway, Occupying, Jobs, Requests, RegisterAsk
    <2>p. PanicsHaveReasons'
      BY <1>2 DEF IInv, TypeOK, PanicsHaveReasons, RegisterAsk
    <2> QED
      BY <1>2, <2>1, <2>2, <2>3, <2>4, <2>5, <2>6, <2>p DEF IInv, NoRepetition, RegisterAsk
  <1>3. ASSUME SendAsk(j) PROVE IInv'
    <2>1. TypeOK'
      BY <1>3 DEF IInv, TypeOK, Steps, AsksHaveWaiters, Asks, SendAsk
    <2>2. MailIsFresh'
      BY <1>3 DEF IInv, TypeOK, Mail, MailIsFresh, AsksHaveWaiters, NothingFromNowhere, Created,
        CurrentAsk, Asks, Outcomes, SendAsk
    <2>3. NothingFromNowhere' /\ QueueHoldsQueued'
      BY <1>3 DEF IInv, TypeOK, NothingFromNowhere, QueueHoldsQueued, AcceptedIsAnswered, Created,
        Underway, SendAsk
    <2>4. AsksHaveWaiters'
      BY <1>3 DEF IInv, TypeOK, AsksHaveWaiters, CurrentAsk, Asks, SendAsk
    <2>5. LockHeldByBuilder'
      BY <1>3, JobsAreDistinct, FaultyArePlain
      DEF IInv, TypeOK, LockHeldByBuilder, Building, BuildJobs, Jobs, Requests, SendAsk
    <2>6. AcceptedIsAnswered'
      BY <1>3, JobsAreDistinct
      DEF IInv, TypeOK, AcceptedIsAnswered, Underway, Occupying, Jobs, Requests, SendAsk
    <2>p. PanicsHaveReasons'
      BY <1>3 DEF IInv, TypeOK, PanicsHaveReasons, SendAsk
    <2> QED
      BY <1>3, <2>1, <2>2, <2>3, <2>4, <2>5, <2>6, <2>p DEF IInv, NoRepetition, SendAsk
  <1>4. ASSUME ReceiveReply(j) PROVE IInv'
    <2>1. TypeOK'
      BY <1>4 DEF IInv, TypeOK, Steps, AsksHaveWaiters, Asks, ReceiveReply
    <2>a. CurrentAsk(j) \notin outgoing
      BY <1>4 DEF IInv, AsksHaveWaiters, CurrentAsk, ReceiveReply
    <2>b. \A a \in asked \cup delivered' : a[1] # j
      BY <1>4, <2>a DEF IInv, AsksHaveWaiters, CurrentAsk, ReceiveReply
    <2>c. \A n \in Mail : n.kind = "response" => n.id[1] # j
      BY <2>a DEF IInv, MailIsFresh
    <2>2. MailIsFresh'
      BY <1>4, <2>c, MessageShape, MailTyped
      DEF IInv, TypeOK, Mail, MailIsFresh, Created, CurrentAsk, Asks, ReceiveReply
    <2>3. NothingFromNowhere' /\ QueueHoldsQueued'
      BY <1>4 DEF IInv, TypeOK, NothingFromNowhere, QueueHoldsQueued, AcceptedIsAnswered, Created,
        Underway, ReceiveReply
    <2>4. AsksHaveWaiters'
      <3>1. \A k \in Jobs : k # j => step'[k] = step[k] /\ todo'[k] = todo[k]
        BY <1>4 DEF IInv, TypeOK, ReceiveReply
      <3>2. step'[j] = "work"
        BY <1>4 DEF IInv, TypeOK, ReceiveReply
      <3>3. /\ \A a \in outgoing \cup delivered \cup asked : a[1] \in Jobs
            /\ UNCHANGED <<outgoing, asked, main, client>>
            /\ delivered' \subseteq delivered
        BY <1>4 DEF IInv, TypeOK, Asks, ReceiveReply, askVars, mainVars, clientVars
      <3>4. /\ \A k \in Jobs : step'[k] \in {"registered", "waiting"} => todo'[k] # <<>>
            /\ \A k \in Jobs : step'[k] = "registered" => <<k, Head(todo'[k])>> \in outgoing'
        BY <3>1, <3>2, <3>3 DEF IInv, AsksHaveWaiters, CurrentAsk
      <3>5. \A a \in outgoing' :
              \/ Unreachable'
              \/ step'[a[1]] \in {"registered", "waiting"} /\ a = <<a[1], Head(todo'[a[1]])>>
        <4> SUFFICES ASSUME NEW a \in outgoing, ~Unreachable
                     PROVE  /\ step'[a[1]] \in {"registered", "waiting"}
                            /\ a = <<a[1], Head(todo'[a[1]])>>
          BY <3>3 DEF Unreachable
        <4>1. step[a[1]] \in {"registered", "waiting"} /\ a = CurrentAsk(a[1])
          BY DEF IInv, AsksHaveWaiters
        <4>2. a[1] # j
          BY <2>a, <4>1
        <4> QED BY <3>1, <3>3, <4>1, <4>2 DEF CurrentAsk
      <3>6. \A a \in delivered' :
              step'[a[1]] = "waiting" /\ a = <<a[1], Head(todo'[a[1]])>> /\ a \notin outgoing'
        BY <2>b, <3>1, <3>3 DEF IInv, AsksHaveWaiters, CurrentAsk
      <3>7. \A a \in asked' :
              step'[a[1]] = "waiting" /\ a = <<a[1], Head(todo'[a[1]])>> /\ a \in outgoing'
        BY <2>b, <3>1, <3>3 DEF IInv, AsksHaveWaiters, CurrentAsk
      <3>8. main' # "panicked"
        BY <3>3 DEF IInv, AsksHaveWaiters
      <3> QED BY <3>4, <3>5, <3>6, <3>7, <3>8 DEF AsksHaveWaiters, CurrentAsk
    <2>5. LockHeldByBuilder'
      BY <1>4, JobsAreDistinct, FaultyArePlain
      DEF IInv, TypeOK, LockHeldByBuilder, Building, BuildJobs, Jobs, Requests, ReceiveReply
    <2>6. AcceptedIsAnswered'
      BY <1>4, JobsAreDistinct
      DEF IInv, TypeOK, AcceptedIsAnswered, Underway, Occupying, Jobs, Requests, ReceiveReply
    <2>p. PanicsHaveReasons'
      BY <1>4 DEF IInv, TypeOK, PanicsHaveReasons, ReceiveReply
    <2> QED
      BY <1>4, <2>1, <2>2, <2>3, <2>4, <2>5, <2>6, <2>p DEF IInv, NoRepetition, ReceiveReply
  <1>5. ASSUME Work(j) PROVE IInv'
    <2>1. TypeOK'
      BY <1>5 DEF IInv, TypeOK, Steps, AsksHaveWaiters, Asks, Work
    <2>2. MailIsFresh'
      BY <1>5 DEF IInv, TypeOK, Mail, MailIsFresh, AsksHaveWaiters, NothingFromNowhere, Created,
        CurrentAsk, Asks, Outcomes, Work
    <2>3. NothingFromNowhere' /\ QueueHoldsQueued'
      BY <1>5 DEF IInv, TypeOK, NothingFromNowhere, QueueHoldsQueued, AcceptedIsAnswered, Created,
        Underway, Work
    <2>4. AsksHaveWaiters'
      BY <1>5 DEF IInv, TypeOK, AsksHaveWaiters, CurrentAsk, Asks, Work
    <2>5. LockHeldByBuilder'
      BY <1>5, JobsAreDistinct, FaultyArePlain
      DEF IInv, TypeOK, LockHeldByBuilder, Building, BuildJobs, Jobs, Requests, Work
    <2>6. AcceptedIsAnswered'
      BY <1>5, JobsAreDistinct
      DEF IInv, TypeOK, AcceptedIsAnswered, Underway, Occupying, Jobs, Requests, Work
    <2>p. PanicsHaveReasons'
      BY <1>5 DEF IInv, TypeOK, PanicsHaveReasons, Work
    <2> QED
      BY <1>5, <2>1, <2>2, <2>3, <2>4, <2>5, <2>6, <2>p DEF IInv, NoRepetition, Work
  <1>6. ASSUME Panic(j) PROVE IInv'
    <2>1. TypeOK'
      BY <1>6 DEF IInv, TypeOK, Steps, AsksHaveWaiters, Asks, Panic
    <2>2. MailIsFresh'
      BY <1>6 DEF IInv, TypeOK, Mail, MailIsFresh, AsksHaveWaiters, NothingFromNowhere, Created,
        CurrentAsk, Asks, Outcomes, Panic
    <2>3. NothingFromNowhere' /\ QueueHoldsQueued'
      BY <1>6 DEF IInv, TypeOK, NothingFromNowhere, QueueHoldsQueued, AcceptedIsAnswered, Created,
        Underway, Panic
    <2>4. AsksHaveWaiters'
      BY <1>6 DEF IInv, TypeOK, AsksHaveWaiters, CurrentAsk, Asks, Panic
    <2>5. LockHeldByBuilder'
      BY <1>6, JobsAreDistinct, FaultyArePlain
      DEF IInv, TypeOK, LockHeldByBuilder, Building, BuildJobs, Jobs, Requests, Panic
    <2>6. AcceptedIsAnswered'
      BY <1>6, JobsAreDistinct
      DEF IInv, TypeOK, AcceptedIsAnswered, Underway, Occupying, Jobs, Requests, Panic
    <2>p. PanicsHaveReasons'
      BY <1>6 DEF IInv, TypeOK, PanicsHaveReasons, Panic
    <2> QED
      BY <1>6, <2>1, <2>2, <2>3, <2>4, <2>5, <2>6, <2>p DEF IInv, NoRepetition, Panic
  <1>7. ASSUME Finish(j) PROVE IInv'
    <2>0. \/ /\ j \in Requests /\ answers[j] = <<>>
             /\ \E v \in Outcomes : answers' = [answers EXCEPT ![j] = <<v>>]
          \/ /\ j \notin Requests /\ answers' = answers
      <3>1. \A v \in Outcomes : Append(<<>>, v) = <<v>>
        OBVIOUS
      <3>2. j \in Requests => answers[j] = <<>>
        BY <1>7 DEF IInv, AcceptedIsAnswered, Underway, Finish
      <3> QED BY <1>7, <3>1, <3>2 DEF Finish, Outcomes
    <2>1. TypeOK'
      BY <1>7, <2>0 DEF IInv, Outcomes, TypeOK, Steps, AsksHaveWaiters, Asks, Finish
    <2>2. MailIsFresh'
      BY <1>7, <2>0 DEF IInv, TypeOK, Mail, MailIsFresh, AsksHaveWaiters, NothingFromNowhere,
           Created,
        CurrentAsk, Asks, Outcomes, Finish
    <2>3. NothingFromNowhere' /\ QueueHoldsQueued'
      BY <1>7, <2>0, JobsAreDistinct DEF IInv, TypeOK, NothingFromNowhere, QueueHoldsQueued,
           AcceptedIsAnswered, Created,
        Underway, Requests, Jobs, Finish
    <2>4. AsksHaveWaiters'
      BY <1>7 DEF IInv, TypeOK, AsksHaveWaiters, CurrentAsk, Asks, Finish
    <2>5. LockHeldByBuilder'
      BY <1>7, JobsAreDistinct, FaultyArePlain
      DEF IInv, TypeOK, LockHeldByBuilder, Building, BuildJobs, Jobs, Requests, Finish
    <2>6. AcceptedIsAnswered'
      <3>1. /\ \A r \in Requests \ {j} : answers'[r] = answers[r] /\ step'[r] = step[r]
            /\ j \in Requests => answers'[j] # <<>> /\ step'[j] = "done"
        <4>1. \A v \in Outcomes : <<v>> # <<>>
          OBVIOUS
        <4>2. \A r \in Jobs : step'[r] = IF r = j THEN "done" ELSE step[r]
          BY <1>7 DEF IInv, TypeOK, Finish
        <4>3. CASE j \notin Requests
          BY <2>0, <4>2, <4>3 DEF Jobs
        <4>4. CASE j \in Requests
          <5>1. PICK v \in Outcomes : answers' = [answers EXCEPT ![j] = <<v>>]
            BY <2>0, <4>4
          <5>2. \A r \in Requests : answers'[r] = IF r = j THEN <<v>> ELSE answers[r]
            BY <5>1 DEF IInv, TypeOK
          <5> QED BY <4>1, <4>2, <5>2 DEF Jobs
        <4> QED BY <4>3, <4>4
      <3>2. \A r \in Requests : Underway(r)' => answers'[r] = <<>>
        BY <3>1 DEF IInv, AcceptedIsAnswered, Underway
      <3>3. \A r \in ((incoming \cup signalled) \ Unbuilt)' :
              answers'[r] # <<>> \/ Underway(r)' \/ main' = "failed"
        BY <1>7, <3>1 DEF IInv, TypeOK, AcceptedIsAnswered, Underway, Finish
      <3>4. (main = "stopped" => queue = <<>> /\ Occupying = {})'
        BY <1>7 DEF IInv, TypeOK, AcceptedIsAnswered, Occupying, Finish
      <3> QED BY <3>2, <3>3, <3>4 DEF AcceptedIsAnswered
    <2>p. PanicsHaveReasons'
      BY <1>7 DEF IInv, TypeOK, PanicsHaveReasons, Finish
    <2> QED
      BY <1>7, <2>1, <2>2, <2>3, <2>4, <2>5, <2>6, <2>p DEF IInv, NoRepetition, Finish
  <1>9. ASSUME SendAskFails(j) PROVE IInv'
    <2>1. TypeOK'
      BY <1>9 DEF IInv, TypeOK, Steps, AsksHaveWaiters, Asks, SendAskFails
    <2>2. MailIsFresh'
      BY <1>9 DEF IInv, TypeOK, Mail, MailIsFresh, AsksHaveWaiters, NothingFromNowhere, Created,
        CurrentAsk, Asks, Outcomes, SendAskFails
    <2>3. NothingFromNowhere' /\ QueueHoldsQueued'
      BY <1>9 DEF IInv, TypeOK, NothingFromNowhere, QueueHoldsQueued, AcceptedIsAnswered, Created,
        Underway, SendAskFails
    <2>4. AsksHaveWaiters'
      BY <1>9 DEF IInv, TypeOK, AsksHaveWaiters, CurrentAsk, Asks, SendAskFails
    <2>5. LockHeldByBuilder'
      BY <1>9, JobsAreDistinct, FaultyArePlain
      DEF IInv, TypeOK, LockHeldByBuilder, Building, BuildJobs, Jobs, Requests, SendAskFails
    <2>6. AcceptedIsAnswered'
      BY <1>9, JobsAreDistinct
      DEF IInv, TypeOK, AcceptedIsAnswered, Underway, Occupying, Jobs, Requests, SendAskFails
    <2>p. PanicsHaveReasons'
      BY <1>9 DEF IInv, TypeOK, PanicsHaveReasons, SendAskFails
    <2> QED
      BY <1>9, <2>1, <2>2, <2>3, <2>4, <2>5, <2>6, <2>p DEF IInv, NoRepetition, SendAskFails
  <1>8. ASSUME MeetPoison(j) PROVE IInv'
    <2>1. TypeOK'
      BY <1>8 DEF IInv, TypeOK, Steps, AsksHaveWaiters, Asks, MeetPoison
    <2>2. MailIsFresh'
      BY <1>8 DEF IInv, TypeOK, Mail, MailIsFresh, AsksHaveWaiters, NothingFromNowhere, Created,
        CurrentAsk, Asks, Outcomes, MeetPoison
    <2>3. NothingFromNowhere' /\ QueueHoldsQueued'
      BY <1>8 DEF IInv, TypeOK, NothingFromNowhere, QueueHoldsQueued, AcceptedIsAnswered, Created,
        Underway, MeetPoison
    <2>4. AsksHaveWaiters'
      BY <1>8 DEF IInv, TypeOK, AsksHaveWaiters, CurrentAsk, Asks, MeetPoison
    <2>5. LockHeldByBuilder'
      BY <1>8, JobsAreDistinct, FaultyArePlain
      DEF IInv, TypeOK, LockHeldByBuilder, Building, BuildJobs, Jobs, Requests, MeetPoison
    <2>6. AcceptedIsAnswered'
      BY <1>8, JobsAreDistinct
      DEF IInv, TypeOK, AcceptedIsAnswered, Underway, Occupying, Jobs, Requests, MeetPoison
    <2>p. PanicsHaveReasons'
      BY <1>8 DEF IInv, TypeOK, PanicsHaveReasons, MeetPoison
    <2> QED
      BY <1>8, <2>1, <2>2, <2>3, <2>4, <2>5, <2>6, <2>p DEF IInv, NoRepetition, MeetPoison
  <1>10. ASSUME PanicInBuild(j) PROVE IInv'
    <2>1. TypeOK'
      BY <1>10 DEF IInv, TypeOK, Steps, AsksHaveWaiters, Asks, PanicInBuild
    <2>2. MailIsFresh'
      BY <1>10 DEF IInv, TypeOK, Mail, MailIsFresh, AsksHaveWaiters, NothingFromNowhere, Created,
        CurrentAsk, Asks, Outcomes, PanicInBuild
    <2>3. NothingFromNowhere' /\ QueueHoldsQueued'
      BY <1>10 DEF IInv, TypeOK, NothingFromNowhere, QueueHoldsQueued, AcceptedIsAnswered, Created,
        Underway, PanicInBuild
    <2>4. AsksHaveWaiters'
      BY <1>10 DEF IInv, TypeOK, AsksHaveWaiters, CurrentAsk, Asks, PanicInBuild
    <2>5. LockHeldByBuilder'
      BY <1>10, JobsAreDistinct, FaultyArePlain
      DEF IInv, TypeOK, LockHeldByBuilder, Building, BuildJobs, Jobs, Requests, PanicInBuild
    <2>6. AcceptedIsAnswered'
      BY <1>10, JobsAreDistinct
      DEF IInv, TypeOK, AcceptedIsAnswered, Underway, Occupying, Jobs, Requests, PanicInBuild
    <2>p. PanicsHaveReasons'
      BY <1>10 DEF IInv, TypeOK, PanicsHaveReasons, PanicInBuild
    <2> QED
      BY <1>10, <2>1, <2>2, <2>3, <2>4, <2>5, <2>6, <2>p DEF IInv, NoRepetition, PanicInBuild
  <1>11. ASSUME FinishFails(j) PROVE IInv'
    <2>1. TypeOK'
      BY <1>11 DEF IInv, TypeOK, Steps, AsksHaveWaiters, Asks, FinishFails
    <2>2. MailIsFresh'
      BY <1>11 DEF IInv, TypeOK, Mail, MailIsFresh, AsksHaveWaiters, NothingFromNowhere, Created,
        CurrentAsk, Asks, Outcomes, FinishFails
    <2>3. NothingFromNowhere' /\ QueueHoldsQueued'
      BY <1>11 DEF IInv, TypeOK, NothingFromNowhere, QueueHoldsQueued, AcceptedIsAnswered, Created,
        Underway, FinishFails
    <2>4. AsksHaveWaiters'
      BY <1>11 DEF IInv, TypeOK, AsksHaveWaiters, CurrentAsk, Asks, FinishFails
    <2>5. LockHeldByBuilder'
      BY <1>11, JobsAreDistinct, FaultyArePlain
      DEF IInv, TypeOK, LockHeldByBuilder, Building, BuildJobs, Jobs, Requests, FinishFails
    <2>6. AcceptedIsAnswered'
      BY <1>11, JobsAreDistinct
      DEF IInv, TypeOK, AcceptedIsAnswered, Underway, Occupying, Jobs, Requests, FinishFails
    <2>p. PanicsHaveReasons'
      BY <1>11 DEF IInv, TypeOK, PanicsHaveReasons, FinishFails
    <2> QED
      BY <1>11, <2>1, <2>2, <2>3, <2>4, <2>5, <2>6, <2>p DEF IInv, NoRepetition, FinishFails
  <1> QED
    BY <1>1, <1>2, <1>3, <1>4, <1>5, <1>6, <1>7, <1>8, <1>9, <1>10, <1>11 DEF Run

-----------------------------------------------------------------------------
(* IInv holds in every reachable state: each action, whoever takes it,     *)
(* leaves mail, jobs, outgoing ids, lock and answers in step.              *)
THEOREM IInvIsInvariant == Spec => []IInv
  <1>1. IInv /\ [Next]_vars => IInv'
    <2> SUFFICES ASSUME IInv, [Next]_vars PROVE IInv'
      OBVIOUS
    <2>1. CASE Next
      BY <2>1, ClientKeepsIInv, MainKeepsIInv, WorkersKeepIInv DEF Next
    <2>2. CASE UNCHANGED vars
      BY <2>2
      DEF vars, clientVars, mainVars, askVars, poolVars, IInv, TypeOK, NoRepetition, Mail,
          MailIsFresh, NothingFromNowhere, QueueHoldsQueued, AsksHaveWaiters, LockHeldByBuilder,
          AcceptedIsAnswered, PanicsHaveReasons, Unreachable, Created, Underway, CurrentAsk, Occupying
    <2> QED BY <2>1, <2>2
  <1> QED
    BY <1>1, InitEstablishesIInv, PTL DEF Spec

(* Type correctness.                                                       *)
THEOREM TypeCorrect == Spec => []TypeOK
  <1>1. IInv => TypeOK
    BY DEF IInv
  <1> QED
    BY <1>1, IInvIsInvariant, PTL

(* The main thread never panics on a response, and a reply channel it      *)
(* fills always has its job waiting (server.rs:834-842, client.rs:35-53).  *)
THEOREM ResponsesAreExpected == Spec => []ResponsesFindTheirJob
  <1>1. IInv => ResponsesFindTheirJob
    BY DEF IInv, TypeOK, AsksHaveWaiters, ResponsesFindTheirJob, CurrentAsk, Asks, Unreachable
  <1> QED
    BY <1>1, IInvIsInvariant, PTL

(* At most one job builds at any time (BuildEngine.lock, build.rs:115).    *)
THEOREM BuildsExcludeEachOther == Spec => []OneBuildAtATime
  <1>1. IInv => OneBuildAtATime
    <2> SUFFICES ASSUME IInv PROVE OneBuildAtATime
      OBVIOUS
    <2> DEFINE B == {j \in BuildJobs : step[j] \in {"work", "registered", "waiting"}}
    <2>1. B \subseteq {lock}
      BY DEF IInv, LockHeldByBuilder, Building
    <2>2. IsFiniteSet({lock}) /\ Cardinality({lock}) = 1
      BY FS_Singleton
    <2>3. Cardinality(B) <= 1
      BY <2>1, <2>2, FS_Subset, FS_CardinalityType
    <2> QED BY <2>3 DEF OneBuildAtATime
  <1> QED
    BY <1>1, IInvIsInvariant, PTL

(* A server that has stopped owes an answer only where the code gives it   *)
(* up, and a registration only to a client that has gone; nothing holds    *)
(* the lock (Server::run joins the pool, server.rs:848-855).               *)
THEOREM StoppedServerOwesNothing == Spec => []DrainedAtStop
  <1>1. IInv => DrainedAtStop
    <2> SUFFICES ASSUME IInv, main = "stopped" PROVE
          /\ \A r \in (incoming \cup signalled) \ Unbuilt :
               answers[r] # <<>> \/ (step[r] = "panicked" /\ (r \in Faulty \/ Unreachable))
          /\ lock = NoJob
          /\ outgoing # {} => Unreachable
      BY DEF DrainedAtStop
    <2>1. queue = <<>> /\ Occupying = {}
      BY DEF IInv, AcceptedIsAnswered
    <2>2. \A j \in Jobs : step[j] \in {"idle", "done", "panicked"}
      <3>1. Range(queue) = {}
        BY <2>1 DEF Range
      <3> QED BY <2>1, <3>1 DEF IInv, TypeOK, Steps, QueueHoldsQueued, Occupying
    <2>3. ASSUME NEW r \in (incoming \cup signalled) \ Unbuilt
          PROVE  answers[r] # <<>> \/ (step[r] = "panicked" /\ (r \in Faulty \/ Unreachable))
      <3>1. r \in Jobs
        BY DEF IInv, TypeOK, Jobs
      <3>2. answers[r] # <<>> \/ step[r] = "panicked"
        BY <2>2, <3>1 DEF IInv, AcceptedIsAnswered, Underway
      <3> QED BY <3>1, <3>2 DEF IInv, PanicsHaveReasons
    <2>4. lock = NoJob
      BY <2>2 DEF IInv, TypeOK, LockHeldByBuilder, Building
    <2>5. \A a \in outgoing : a[1] \in Jobs /\ (Unreachable \/ step[a[1]] \in {"registered", "waiting"})
      BY DEF IInv, TypeOK, AsksHaveWaiters, Asks
    <2>6. outgoing # {} => Unreachable
      BY <2>2, <2>5
    <2> QED BY <2>3, <2>4, <2>6
  <1> QED
    BY <1>1, IInvIsInvariant, PTL

-----------------------------------------------------------------------------
(* Every behaviour of the server is one the contract allows: it answers a  *)
(* request at most once, only when issued, and with "cancelled" only when  *)
(* the client asked for that.                                              *)
THEOREM ServerImplementsContract == Spec => ImplementsContract
  <1>1. Init => Contract!Init
    BY DEF Init, Contract!Init
  <1>2. IInv /\ [Next]_vars => [Contract!Next]_(Contract!vars)
    <2> SUFFICES ASSUME IInv, [Next]_vars PROVE [Contract!Next]_(Contract!vars)
      OBVIOUS
    <2> USE DEF clientVars, mainVars, askVars, poolVars, Contract!vars
    <2>1. ASSUME NEW r \in Requests, SendRequest(r) PROVE Contract!Next
      BY <2>1 DEF SendRequest, Contract!Next, Contract!Issue
    <2>2. ASSUME NEW r \in Requests, SendCancel(r) PROVE Contract!Next
      BY <2>2 DEF SendCancel, Contract!Next, Contract!Renounce
    <2>3. ASSUME HandleRequest PROVE [Contract!Next]_(Contract!vars)
      <3> DEFINE r == Head(inbox).id
      <3>1. r \in Requests /\ r \in sent /\ answers[r] = <<>>
        BY <2>3, Taking, MessageShape DEF IInv, TypeOK, MailIsFresh, Received, HandleRequest
      <3>2. CASE UNCHANGED answers
        BY <2>3, <3>2 DEF HandleRequest
      <3>3. CASE answers' = [answers EXCEPT ![r] = Append(@, "error")]
        <4>1. Append(<<>>, "error") = <<"error">>
          OBVIOUS
        <4>2. Contract!Answer(r, "error")
          BY <2>3, <3>1, <3>3, <4>1 DEF HandleRequest, Contract!Answer
        <4> QED BY <3>1, <4>2 DEF Contract!Next, Contract!Outcomes
      <3> QED BY <2>3, <3>2, <3>3 DEF HandleRequest
    <2>4. ASSUME NEW j \in Jobs, Finish(j) PROVE [Contract!Next]_(Contract!vars)
      <3>1. CASE j \notin Requests
        BY <2>4, <3>1 DEF Finish
      <3>2. CASE j \in Requests
        <4> DEFINE v == IF j \in signalled THEN "cancelled" ELSE "result"
        <4>1. answers[j] = <<>> /\ j \in sent /\ (v = "cancelled" => j \in renounced)
          BY <2>4, <3>2, JobsAreDistinct
          DEF IInv, AcceptedIsAnswered, NothingFromNowhere, Underway, Created, Requests, Finish
        <4>2. \A w : Append(<<>>, w) = <<w>>
          OBVIOUS
        <4>3. answers' = [answers EXCEPT ![j] = <<v>>]
          BY <2>4, <3>2, <4>1, <4>2 DEF Finish
        <4>4. Contract!Answer(j, v) /\ v \in Contract!Outcomes
          BY <2>4, <3>2, <4>1, <4>3 DEF Finish, Contract!Answer, Contract!Outcomes
        <4> QED BY <3>2, <4>4 DEF Contract!Next
      <3> QED BY <3>1, <3>2
    <2>5. CASE UNCHANGED vars
      BY <2>5 DEF vars
    <2>6. ASSUME NEW s \in Saves, SendSave(s) PROVE UNCHANGED Contract!vars
      BY <2>6, JobsAreDistinct DEF SendSave
    <2>7. ASSUME NEW c \in Reconfigs, SendConfig(c) PROVE UNCHANGED Contract!vars
      BY <2>7, JobsAreDistinct DEF SendConfig
    <2>8. ASSUME \/ SendShutdown \/ SendExit \/ Hangup \/ \E a \in Asks : SendResponse(a)
                 \/ HandleCancel \/ HandleSave \/ HandleConfig \/ HandleResponse
                 \/ HandleShutdown \/ IgnoreExit \/ EndOfInput \/ AwaitExit \/ ExitTimeout
                 \/ Join \/ StartJob
          PROVE  UNCHANGED Contract!vars
      BY <2>8
      DEF SendShutdown, SendExit, Hangup, SendResponse, HandleCancel, HandleSave, HandleConfig,
          HandleResponse, HandleShutdown, IgnoreExit, EndOfInput, AwaitExit, ExitTimeout, Join,
          StartJob
    <2>9. ASSUME NEW j \in Jobs,
                 \/ AcquireLock(j) \/ MeetPoison(j)
                 \/ RegisterAsk(j) \/ SendAsk(j) \/ SendAskFails(j) \/ ReceiveReply(j)
                 \/ Work(j) \/ Panic(j) \/ PanicInBuild(j) \/ FinishFails(j)
          PROVE  UNCHANGED Contract!vars
      BY <2>9
      DEF AcquireLock, MeetPoison, RegisterAsk, SendAsk, SendAskFails, ReceiveReply, Work, Panic,
          PanicInBuild, FinishFails
    <2> QED
      BY <2>1, <2>2, <2>3, <2>4, <2>5, <2>6, <2>7, <2>8, <2>9 DEF Next, Client, Main, Run
  <1> QED
    BY <1>1, <1>2, IInvIsInvariant, PTL DEF Spec, Contract!Spec, ImplementsContract
=============================================================================
