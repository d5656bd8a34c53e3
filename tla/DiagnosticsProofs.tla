------------------------- MODULE DiagnosticsProofs -------------------------
(***************************************************************************)
(* Proofs about Diagnostics, for every set of documents, every delay, any  *)
(* number of workers and any bounds on messages and tasks.                 *)
(***************************************************************************)
EXTENDS Diagnostics, QueueLemmas, FiniteSetTheorems

-----------------------------------------------------------------------------
(* About messages and tasks.                                                            *)

MessageSet == [file : Files, version : Versions]

(* A debouncer's channel gets and loses messages only.                     *)
LEMMA ChannelTyped ==
  ASSUME channel \in [Debouncers -> Seq(MessageSet)], NEW d \in Debouncers
  PROVE  /\ \A m \in MessageSet : Append(channel[d], m) \in Seq(MessageSet)
         /\ channel[d] # <<>> => /\ Head(channel[d]) \in MessageSet
                                /\ Tail(channel[d]) \in Seq(MessageSet)
  OBVIOUS

(* The first free slot is free, if there is one.                           *)
LEMMA FirstFreeIsFree ==
  ASSUME \E i \in Slots : task[i] = Free
  PROVE  FirstFree \in Slots /\ task[FirstFree] = Free
  <1> DEFINE T == {i \in Slots : task[i] = Free}
  <1>1. T \subseteq Nat /\ T # {}
    BY BoundsArePositive DEF Slots
  <1>2. PICK i \in T : \A k \in T : i <= k
    BY <1>1, LeastNatural
  <1>3. \A k \in 1..(i - 1) : k \in Slots /\ k \notin T
    BY <1>1, <1>2, BoundsArePositive DEF Slots
  <1>4. i \in Slots /\ task[i] = Free /\ \A k \in 1..(i - 1) : task[k] # Free
    BY <1>2, <1>3
  <1> QED BY <1>4 DEF FirstFree

(* A set with nothing but one element has at most one.                     *)
LEMMA AtMostOne ==
  ASSUME NEW x, NEW A, A \subseteq {x}
  PROVE  Cardinality(A) <= 1
  <1>1. IsFiniteSet({x}) /\ Cardinality({x}) = 1
    BY FS_Singleton
  <1>2. IsFiniteSet(A) /\ Cardinality(A) <= 1
    BY <1>1, FS_Subset
  <1> QED BY <1>2

(* A task that gets to another stage is at that one and no other task is   *)
(* concerned.                                                              *)
LEMMA StageMoves ==
  ASSUME TypeOK, NEW i \in Slots, task[i] # Free,
         NEW stage \in {"queued", "sleeping", "woken", "analysed"},
         task' = [task EXCEPT ![i].stage = stage]
  PROVE  /\ task' \in [Slots -> TaskSet \cup {Free}]
         /\ \A k \in Slots : task'[k] # Free <=> task[k] # Free
         /\ \A k \in Slots \ {i} : task'[k] = task[k]
         /\ task'[i].stage = stage
  <1>1. task[i] \in TaskSet
    BY DEF TypeOK
  <1>2. [task[i] EXCEPT !.stage = stage] \in TaskSet
    BY <1>1 DEF TaskSet
  <1>3. [task[i] EXCEPT !.stage = stage].stage = stage
    BY <1>1 DEF TaskSet
  <1> QED BY <1>1, <1>2, <1>3, FreeIsNoTask DEF TypeOK

-----------------------------------------------------------------------------
(* The inductive invariant.                                                *)

(* Nothing has been sent, analysed or published.                           *)
LEMMA InitEstablishesIInv == Init => IInv
  <1> SUFFICES ASSUME Init PROVE IInv
    OBVIOUS
  <1> USE DEF Init
  <1>1. TypeOK
    <2>1. 0 \in Versions /\ Delay \in 0..Delay /\ messages \in 0..MaxMessages
      BY BoundsArePositive DEF Versions
    <2>2. channel \in [Debouncers -> Seq([file : Files, version : Versions])]
      OBVIOUS
    <2>3. age \in [Debouncers -> [Files -> 0..Delay]]
      BY <2>1
    <2> QED BY <2>1, <2>2, <2>3 DEF TypeOK
  <1>2. EditsAreCounted
    BY DEF EditsAreCounted
  <1>3. HolderHasAnalysed
    BY BoundsArePositive, NobodyIsNoSlot DEF HolderHasAnalysed, At, Slots
  <1>4. PublishedWhenFree
    <2>1. {i \in Slots : At(i, "analysed")} \subseteq {mutex}
      BY <1>3 DEF HolderHasAnalysed
    <2> QED BY <2>1, AtMostOne DEF PublishedWhenFree
  <1>5. NothingFromTheFuture
    BY DEF NothingFromTheFuture
  <1> QED BY <1>1, <1>2, <1>3, <1>4, <1>5 DEF IInv

(* The workspace: a new text, or a text that is to be linted as it is.     *)
LEMMA EditKeepsIInv ==
  ASSUME IInv, NEW f \in Files, Edit(f)
  PROVE  IInv'
  <1> USE DEF Edit
  <1>1. text[f] \in Nat /\ text[f] + 1 \in Versions /\ messages \in Nat
    BY BoundsArePositive DEF IInv, TypeOK, EditsAreCounted, Versions
  <1>2. channel' \in [Debouncers -> Seq(MessageSet)]
    <2>1. Message(f, text[f] + 1) \in MessageSet
      BY <1>1 DEF Message, MessageSet
    <2>2. channel \in [Debouncers -> Seq(MessageSet)]
      BY DEF IInv, TypeOK, MessageSet
    <2> QED BY <2>1, <2>2, ChannelTyped
  <1>3. TypeOK'
    <2>1. text' \in [Files -> Versions] /\ messages' \in 0..MaxMessages
      BY <1>1, BoundsArePositive DEF IInv, TypeOK
    <2> QED BY <1>2, <2>1 DEF IInv, TypeOK, MessageSet
  <1>4. EditsAreCounted'
    BY <1>1, BoundsArePositive DEF IInv, TypeOK, EditsAreCounted, Versions
  <1>5. HolderHasAnalysed' /\ PublishedWhenFree'
    BY DEF IInv, HolderHasAnalysed, PublishedWhenFree, At
  <1>6. NothingFromTheFuture'
    BY <1>1, BoundsArePositive DEF IInv, TypeOK, NothingFromTheFuture, Versions
  <1> QED BY <1>3, <1>4, <1>5, <1>6 DEF IInv

LEMMA SaveKeepsIInv ==
  ASSUME IInv, NEW f \in Files, Save(f)
  PROVE  IInv'
  <1> USE DEF Save
  <1>1. channel' \in [Debouncers -> Seq(MessageSet)]
    <2>1. Message(f, text[f]) \in MessageSet
      BY DEF Message, MessageSet, IInv, TypeOK
    <2>2. channel \in [Debouncers -> Seq(MessageSet)]
      BY DEF IInv, TypeOK, MessageSet
    <2> QED BY <2>1, <2>2, ChannelTyped DEF Debouncers
  <1>2. TypeOK'
    <2>1. messages' \in 0..MaxMessages
      BY BoundsArePositive DEF IInv, TypeOK
    <2> QED BY <1>1, <2>1 DEF IInv, TypeOK, MessageSet
  <1>3. EditsAreCounted'
    BY BoundsArePositive DEF IInv, TypeOK, EditsAreCounted, Versions
  <1>4. HolderHasAnalysed' /\ PublishedWhenFree' /\ NothingFromTheFuture'
    BY DEF IInv, HolderHasAnalysed, PublishedWhenFree, NothingFromTheFuture, At
  <1> QED BY <1>2, <1>3, <1>4 DEF IInv

(* A debouncer: what it drops changes nothing but its channel, and a new   *)
(* task takes a slot nobody has.                                           *)
LEMMA ReceiveKeepsIInv ==
  ASSUME IInv, NEW d \in Debouncers, Receive(d)
  PROVE  IInv'
  <1> USE DEF Receive
  <1> DEFINE m == Head(channel[d])
  <1>1. channel \in [Debouncers -> Seq(MessageSet)]
    BY DEF IInv, TypeOK, MessageSet
  <1>2. m \in MessageSet /\ channel' \in [Debouncers -> Seq(MessageSet)]
    BY <1>1, ChannelTyped
  <1>3. /\ task' \in [Slots -> TaskSet \cup {Free}]
        /\ \A i \in Slots : task[i] # Free => task'[i] = task[i]
        /\ \A i \in Slots : At(i, "analysed")' <=> At(i, "analysed")
    <2>1. CASE age[d][m.file] < Delay
      BY <2>1 DEF IInv, TypeOK, At
    <2>2. CASE ~ (age[d][m.file] < Delay)
      <3> DEFINE new == [debouncer |-> d, file |-> m.file, version |-> m.version,
                         left |-> Delay, stage |-> "queued"]
      <3>1. FirstFree \in Slots /\ task[FirstFree] = Free
        BY <2>2, FirstFreeIsFree
      <3>2. task' = [task EXCEPT ![FirstFree] = new]
        BY <2>2
      <3>3. new \in TaskSet
        BY <1>2, BoundsArePositive DEF TaskSet, MessageSet
      <3>4. new.stage # "analysed"
        OBVIOUS
      <3> QED BY <3>1, <3>2, <3>3, <3>4 DEF IInv, TypeOK, At
    <2> QED BY <2>1, <2>2
  <1>4. TypeOK'
    BY <1>2, <1>3 DEF IInv, TypeOK, MessageSet
  <1>5. HolderHasAnalysed'
    BY <1>3 DEF IInv, HolderHasAnalysed
  <1>6. PublishedWhenFree'
    BY <1>3 DEF IInv, PublishedWhenFree
  <1>7. EditsAreCounted' /\ NothingFromTheFuture'
    BY DEF IInv, EditsAreCounted, NothingFromTheFuture
  <1> QED BY <1>4, <1>5, <1>6, <1>7 DEF IInv

(* A task: queued, asleep, awake. None of these steps touches the manager. *)
LEMMA StartTaskKeepsIInv ==
  ASSUME IInv, NEW i \in Slots, StartTask(i)
  PROVE  IInv'
  <1> USE DEF StartTask
  <1>1. TypeOK /\ task[i] # Free /\ task[i].stage = "queued"
    BY DEF IInv, At
  <1>2. /\ task' \in [Slots -> TaskSet \cup {Free}]
        /\ \A k \in Slots : task'[k] # Free <=> task[k] # Free
        /\ \A k \in Slots \ {i} : task'[k] = task[k]
        /\ task'[i].stage = "sleeping"
    BY <1>1, StageMoves
  <1>3. \A k \in Slots : At(k, "analysed")' <=> At(k, "analysed")
    BY <1>1, <1>2 DEF At
  <1>4. TypeOK'
    BY <1>2 DEF IInv, TypeOK
  <1>5. HolderHasAnalysed' /\ PublishedWhenFree'
    BY <1>3 DEF IInv, HolderHasAnalysed, PublishedWhenFree
  <1>6. EditsAreCounted' /\ NothingFromTheFuture'
    BY DEF IInv, EditsAreCounted, NothingFromTheFuture
  <1> QED BY <1>4, <1>5, <1>6 DEF IInv

LEMMA WakeKeepsIInv ==
  ASSUME IInv, NEW i \in Slots, Wake(i)
  PROVE  IInv'
  <1> USE DEF Wake
  <1>1. TypeOK /\ task[i] # Free /\ task[i].stage = "sleeping"
    BY DEF IInv, At
  <1>2. /\ task' \in [Slots -> TaskSet \cup {Free}]
        /\ \A k \in Slots : task'[k] # Free <=> task[k] # Free
        /\ \A k \in Slots \ {i} : task'[k] = task[k]
        /\ task'[i].stage = "woken"
    BY <1>1, StageMoves
  <1>3. \A k \in Slots : At(k, "analysed")' <=> At(k, "analysed")
    BY <1>1, <1>2 DEF At
  <1>4. age' \in [Debouncers -> [Files -> 0..Delay]]
    <2>1. 0 \in 0..Delay
      BY BoundsArePositive
    <2> QED BY <2>1 DEF IInv, TypeOK
  <1>5. TypeOK'
    BY <1>2, <1>4 DEF IInv, TypeOK
  <1>6. HolderHasAnalysed' /\ PublishedWhenFree'
    BY <1>3 DEF IInv, HolderHasAnalysed, PublishedWhenFree
  <1>7. EditsAreCounted' /\ NothingFromTheFuture'
    BY DEF IInv, EditsAreCounted, NothingFromTheFuture
  <1> QED BY <1>5, <1>6, <1>7 DEF IInv

(* A task that ends without the manager: its slot becomes free.            *)
LEMMA TaskEnds ==
  ASSUME IInv, NEW i \in Slots, ~ At(i, "analysed"),
         task' = [task EXCEPT ![i] = Free], UNCHANGED mutex
  PROVE  /\ task' \in [Slots -> TaskSet \cup {Free}]
         /\ mutex' # Nobody => task'[mutex'] # Free
         /\ \A k \in Slots : At(k, "analysed")' <=> At(k, "analysed")
  BY DEF IInv, TypeOK, HolderHasAnalysed, At

(* A task that gets the manager analyses the text as it is now: what the   *)
(* manager had was of this text or of an older one.                        *)
LEMMA AnalyseKeepsIInv ==
  ASSUME IInv, NEW i \in Slots, Analyse(i)
  PROVE  IInv'
  <1> USE DEF Analyse
  <1>1. TypeOK /\ task[i] # Free /\ task[i].stage = "woken" /\ ~ At(i, "analysed")
    BY DEF IInv, At
  <1>2. CASE poisoned
    <2>1. /\ task' \in [Slots -> TaskSet \cup {Free}]
          /\ mutex' # Nobody => task'[mutex'] # Free
          /\ \A k \in Slots : At(k, "analysed")' <=> At(k, "analysed")
      BY <1>1, <1>2, TaskEnds
    <2>2. TypeOK'
      BY <1>2, <2>1 DEF IInv, TypeOK
    <2>3. HolderHasAnalysed' /\ PublishedWhenFree'
      BY <1>2, <2>1 DEF IInv, HolderHasAnalysed, PublishedWhenFree
    <2>4. EditsAreCounted' /\ NothingFromTheFuture'
      BY <1>2 DEF IInv, EditsAreCounted, NothingFromTheFuture
    <2> QED BY <2>2, <2>3, <2>4 DEF IInv
  <1>3. CASE ~ poisoned
    <2> DEFINE d == task[i].debouncer
    <2> DEFINE f == task[i].file
    <2>1. d \in Debouncers /\ f \in Files
      BY <1>1 DEF TypeOK, TaskSet
    <2>2. /\ mutex = Nobody /\ mutex' = i
          /\ results' = [results EXCEPT ![d][f] = text[f]]
          /\ task' = [task EXCEPT ![i].stage = "analysed"]
      BY <1>3
    <2>3. /\ task' \in [Slots -> TaskSet \cup {Free}]
          /\ \A k \in Slots : task'[k] # Free <=> task[k] # Free
          /\ \A k \in Slots \ {i} : task'[k] = task[k]
          /\ task'[i].stage = "analysed"
      BY <1>1, <2>2, StageMoves
    <2>4. results' \in [Debouncers -> [Files -> Versions]]
      BY <2>1, <2>2 DEF IInv, TypeOK
    <2>5. TypeOK'
      BY <1>1, <2>2, <2>3, <2>4 DEF IInv, TypeOK
    <2>6. HolderHasAnalysed'
      <3>1. \A k \in Slots : ~ At(k, "analysed")
        BY <2>2, NobodyIsNoSlot DEF IInv, HolderHasAnalysed, Slots
      <3>2. \A k \in Slots \ {i} : ~ At(k, "analysed")'
        BY <2>3, <3>1 DEF At
      <3>3. At(i, "analysed")'
        BY <1>1, <2>3 DEF At
      <3> QED BY <2>2, <3>2, <3>3 DEF HolderHasAnalysed
    <2>7. PublishedWhenFree'
      <3>1. {k \in Slots : At(k, "analysed")'} \subseteq {mutex'}
        BY <2>6 DEF HolderHasAnalysed
      <3>2. mutex' # Nobody
        BY <2>2, NobodyIsNoSlot DEF Slots
      <3> QED BY <3>1, <3>2, AtMostOne DEF PublishedWhenFree
    <2>8. NothingFromTheFuture'
      <3>1. shown[d][f] <= text[f]
        <4>1. shown[d][f] \in Nat /\ results[d][f] \in Nat /\ text[f] \in Nat
          BY <2>1, BoundsArePositive DEF IInv, TypeOK, Versions
        <4>2. shown[d][f] <= results[d][f] /\ results[d][f] <= text[f]
          BY <2>1 DEF IInv, NothingFromTheFuture
        <4> QED BY <4>1, <4>2
      <3>2. text[f] <= text[f]
        BY <2>1 DEF IInv, TypeOK, Versions
      <3> QED BY <2>1, <2>2, <3>1, <3>2 DEF IInv, TypeOK, NothingFromTheFuture
    <2>9. EditsAreCounted'
      BY DEF IInv, EditsAreCounted
    <2> QED BY <2>5, <2>6, <2>7, <2>8, <2>9 DEF IInv
  <1> QED BY <1>2, <1>3

LEMMA LintPanicKeepsIInv ==
  ASSUME IInv, NEW i \in Slots, LintPanic(i)
  PROVE  IInv'
  <1> USE DEF LintPanic
  <1>1. ~ At(i, "analysed")
    BY DEF At
  <1>2. /\ task' \in [Slots -> TaskSet \cup {Free}]
        /\ mutex' # Nobody => task'[mutex'] # Free
        /\ \A k \in Slots : At(k, "analysed")' <=> At(k, "analysed")
    BY <1>1, TaskEnds
  <1>3. TypeOK'
    BY <1>2 DEF IInv, TypeOK
  <1>4. HolderHasAnalysed' /\ PublishedWhenFree'
    BY <1>2 DEF IInv, HolderHasAnalysed, PublishedWhenFree
  <1>5. EditsAreCounted' /\ NothingFromTheFuture'
    BY DEF IInv, EditsAreCounted, NothingFromTheFuture
  <1> QED BY <1>3, <1>4, <1>5 DEF IInv

(* Publishing: the holder is gone, and what it leaves is what is shown.    *)
LEMMA PublishKeepsIInv ==
  ASSUME IInv, NEW i \in Slots, Publish(i)
  PROVE  IInv'
  <1> USE DEF Publish
  <1>1. TypeOK /\ mutex = i /\ mutex' = Nobody
    BY DEF IInv, HolderHasAnalysed
  <1>2. task' = [task EXCEPT ![i] = Free] /\ shown' = results
    OBVIOUS
  <1>3. TypeOK'
    BY <1>1, <1>2 DEF TypeOK
  <1>4. HolderHasAnalysed'
    <2>1. \A k \in Slots \ {i} : ~ At(k, "analysed")
      BY <1>1 DEF IInv, HolderHasAnalysed
    <2>2. \A k \in Slots : ~ At(k, "analysed")'
      BY <1>1, <1>2, <2>1 DEF At, TypeOK
    <2> QED BY <1>1, <2>2, NobodyIsNoSlot DEF HolderHasAnalysed, Slots
  <1>5. PublishedWhenFree'
    <2>1. {k \in Slots : At(k, "analysed")'} \subseteq {mutex'}
      BY <1>4 DEF HolderHasAnalysed
    <2>2. shown' = results'
      OBVIOUS
    <2> QED BY <2>1, <2>2, AtMostOne DEF PublishedWhenFree
  <1>6. NothingFromTheFuture'
    BY DEF IInv, TypeOK, NothingFromTheFuture, Versions
  <1>7. EditsAreCounted'
    BY DEF IInv, EditsAreCounted
  <1> QED BY <1>3, <1>4, <1>5, <1>6, <1>7 DEF IInv

(* Time passes for the sleepers and for the ages of the tasks.             *)
LEMMA TickKeepsIInv ==
  ASSUME IInv, Tick
  PROVE  IInv'
  <1> USE DEF Tick
  <1>1. \A i \in Slots : task'[i] = IF Sleeping(i) THEN [task[i] EXCEPT !.left = @ - 1] ELSE task[i]
    OBVIOUS
  <1>2. ASSUME NEW i \in Slots
        PROVE  /\ task'[i] \in TaskSet \cup {Free}
               /\ task'[i] # Free <=> task[i] # Free
               /\ At(i, "analysed")' <=> At(i, "analysed")
    <2>1. CASE Sleeping(i)
      <3>1. task[i] \in TaskSet /\ task[i].left > 0 /\ task[i].stage = "sleeping"
        BY <2>1 DEF IInv, TypeOK, Sleeping, At
      <3>2. task[i].left - 1 \in 0..Delay
        BY <3>1, BoundsArePositive DEF TaskSet
      <3>3. task'[i] = [task[i] EXCEPT !.left = task[i].left - 1]
        BY <1>1, <2>1
      <3>4. task'[i] \in TaskSet /\ task'[i].stage = "sleeping"
        BY <3>1, <3>2, <3>3 DEF TaskSet
      <3> QED BY <2>1, <3>1, <3>4, FreeIsNoTask DEF At, Sleeping
    <2>2. CASE ~ Sleeping(i)
      BY <1>1, <2>2 DEF IInv, TypeOK, At
    <2> QED BY <2>1, <2>2
  <1>3. age' \in [Debouncers -> [Files -> 0..Delay]]
    <2>1. \A d \in Debouncers, f \in Files : age[d][f] \in 0..Delay
      BY DEF IInv, TypeOK
    <2>2. \A d \in Debouncers, f \in Files :
            (IF age[d][f] < Delay THEN age[d][f] + 1 ELSE Delay) \in 0..Delay
      BY <2>1, BoundsArePositive
    <2> QED BY <2>2
  <1>4. TypeOK'
    <2>1. task' \in [Slots -> TaskSet \cup {Free}]
      BY <1>2
    <2>2. mutex' # Nobody => task'[mutex'] # Free
      BY <1>2 DEF IInv, TypeOK
    <2> QED BY <1>3, <2>1, <2>2 DEF IInv, TypeOK
  <1>5. HolderHasAnalysed' /\ PublishedWhenFree'
    BY <1>2 DEF IInv, HolderHasAnalysed, PublishedWhenFree
  <1>6. EditsAreCounted' /\ NothingFromTheFuture'
    BY DEF IInv, EditsAreCounted, NothingFromTheFuture
  <1> QED BY <1>4, <1>5, <1>6 DEF IInv

-----------------------------------------------------------------------------
(* The theorems.                                                           *)

(* Every step of a debouncer, a task, the client or the clock leads from a *)
(* state that satisfies the inductive invariant to another                 *)
(* (debouncer.rs, diagnostics.rs).                                         *)
THEOREM IInvIsInvariant == Spec => []IInv
  <1>1. Init => IInv
    BY InitEstablishesIInv
  <1>2. IInv /\ [Next]_vars => IInv'
    <2> SUFFICES ASSUME IInv, [Next]_vars PROVE IInv'
      OBVIOUS
    <2>1. ASSUME NEW f \in Files, Edit(f) PROVE IInv'
      BY <2>1, EditKeepsIInv
    <2>2. ASSUME NEW f \in Files, Save(f) PROVE IInv'
      BY <2>2, SaveKeepsIInv
    <2>3. ASSUME NEW d \in Debouncers, Receive(d) PROVE IInv'
      BY <2>3, ReceiveKeepsIInv
    <2>4. ASSUME NEW i \in Slots, StartTask(i) PROVE IInv'
      BY <2>4, StartTaskKeepsIInv
    <2>5. ASSUME NEW i \in Slots, Wake(i) PROVE IInv'
      BY <2>5, WakeKeepsIInv
    <2>6. ASSUME NEW i \in Slots, Analyse(i) PROVE IInv'
      BY <2>6, AnalyseKeepsIInv
    <2>7. ASSUME NEW i \in Slots, Publish(i) PROVE IInv'
      BY <2>7, PublishKeepsIInv
    <2>8. ASSUME NEW i \in Slots, LintPanic(i) PROVE IInv'
      BY <2>8, LintPanicKeepsIInv
    <2>9. CASE Tick
      BY <2>9, TickKeepsIInv
    <2>10. CASE UNCHANGED vars
      BY <2>10 DEF vars, IInv, TypeOK, EditsAreCounted, HolderHasAnalysed, PublishedWhenFree,
                   NothingFromTheFuture, At
    <2> QED BY <2>1, <2>2, <2>3, <2>4, <2>5, <2>6, <2>7, <2>8, <2>9, <2>10 DEF Next, TaskStep
  <1> QED BY <1>1, <1>2, PTL DEF Spec

(* Types, for any number of messages and tasks.                            *)
THEOREM TypeCorrect == Spec => []TypeOK
  <1>1. IInv => TypeOK
    BY DEF IInv
  <1> QED BY <1>1, IInvIsInvariant, PTL

(* One task analyses at a time, and no analysis stays unpublished          *)
(* (diagnostics.rs: the manager is locked from analyse to publish).        *)
THEOREM AnalysesArePublished == Spec => []PublishedWhenFree
  <1>1. IInv => PublishedWhenFree
    BY DEF IInv
  <1> QED BY <1>1, IInvIsInvariant, PTL

(* The client never sees diagnostics of an older text after those of a     *)
(* newer one, whatever the order in which the tasks of a file wake.        *)
THEOREM DiagnosticsNeverGoBack == Spec => NeverOlder
  <1> DEFINE Newer == \A d \in Debouncers, f \in Files : shown'[d][f] >= shown[d][f]
  <1>1. IInv /\ [Next]_vars => [Newer]_vars
    <2> SUFFICES ASSUME IInv, [Next]_vars PROVE Newer
      OBVIOUS
    <2>1. \A d \in Debouncers, f \in Files :
            /\ shown[d][f] \in Nat /\ results[d][f] \in Nat
            /\ shown[d][f] <= results[d][f]
      BY BoundsArePositive DEF IInv, TypeOK, NothingFromTheFuture, Versions
    <2>2. CASE UNCHANGED shown
      BY <2>1, <2>2
    <2>3. CASE shown' = results
      BY <2>1, <2>3
    <2>4. UNCHANGED shown \/ shown' = results
      BY DEF Next, TaskStep, Edit, Save, Receive, StartTask, Wake, Analyse, Publish, LintPanic,
             Tick, vars
    <2> QED BY <2>2, <2>3, <2>4
  <1> QED BY <1>1, IInvIsInvariant, PTL DEF Spec, NeverOlder
=============================================================================
