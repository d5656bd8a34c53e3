--------------------------- MODULE DiscoveryProofs ---------------------------
(***************************************************************************)
(* Proofs about Discovery, for every project, every set of files the       *)
(* client opens and any number of pool jobs: the newest options come into  *)
(* force, the documents follow them, what they link to is loaded, a root   *)
(* document is found for what the client opens, and the folders are        *)
(* watched.  A document is connected with another if no set of documents   *)
(* that links neither leave nor enter tells them apart; so nothing here    *)
(* is said by induction over the length of a path.                         *)
(***************************************************************************)
EXTENDS Discovery, TLAPS

LEMMA VersionsAreNumbers ==
  /\ 0 \in Versions /\ Versions \subseteq Nat /\ Failed \notin Versions /\ Empty \notin Versions
  /\ \A n \in Versions : n < Newest => n + 1 \in Versions
  <1>1. PICK n \in Nat : n = Newest
    BY VersionsFromZero
  <1>2. Versions = 0..n
    BY <1>1, VersionsFromZero
  <1> QED BY <1>1, <1>2 DEF Failed, Empty

(* A list leads to at most one file: the first that is there.              *)
LEMMA ChildrenAreFiles ==
  ASSUME NEW p \in Files, NEW v \in Versions
  PROVE  /\ Children[p][v] \subseteq Files
         /\ \A i \in Followed(p, v) : FirstIn(Lists[p][v][i], Files) \subseteq Children[p][v]
  <1>1. Children[p][v] = UNION {FirstIn(Lists[p][v][i], Files) : i \in Followed(p, v)}
    BY DEF Children
  <1>2. \A i : FirstIn(Lists[p][v][i], Files) \subseteq Files
    BY DEF FirstIn
  <1> QED BY <1>1, <1>2

(* What a step of a worker changes is what it says.                        *)
LEMMA LoadsAreTyped ==
  ASSUME NEW o \in Openers, NEW by \in Files \cup {NoFile}, NEW q \in Files, NEW w \in BOOLEAN
  PROVE  /\ Load(o, by, q, w) \in LoadSet
         /\ Load(o, by, q, w).target = q
  BY VersionsAreNumbers DEF Load, LoadSet

LEMMA KeysAreDocuments ==
  ASSUME TypeOK
  PROVE  /\ Keys = {p \in Files : docs[p] # Absent}
         /\ \A p \in Keys : p \in Files /\ docs[p] \in Versions
  BY DEF TypeOK, Keys

(* Whatever fails: what was watched or refused still is, and so is what    *)
(* was to be watched.                                                      *)
LEMMA WatchTries ==
  ASSUME NEW some, Watch(some)
  PROVE  /\ watched \cup refused \cup some \subseteq watched' \cup refused'
         /\ watched' \subseteq watched \cup some /\ refused' \subseteq refused \cup some
  <1>1. PICK fails \in SUBSET ((some \ watched) \cap Fragile) :
           /\ watched' = watched \cup (some \ fails)
           /\ refused' = (refused \ some) \cup fails
    BY DEF Watch
  <1> QED BY <1>1

LEMMA WatchKeepsTypes ==
  ASSUME TypeOK, NEW some \in SUBSET WatchedFolders, Watch(some) \/ UNCHANGED folderVars
  PROVE  watched' \subseteq WatchedFolders /\ refused' \subseteq WatchedFolders
  BY WatchTries DEF TypeOK, folderVars

LEMMA AuxFoldersAreWatchable ==
  ASSUME NEW v \in Versions
  PROVE  AuxFolder(v) \in SUBSET WatchedFolders
  BY DEF WatchedFolders

-----------------------------------------------------------------------------
(* The type invariant.                                                     *)

LEMMA InsertKeepsTypes ==
  ASSUME TypeOK, NEW o \in Openers, NEW p \in Files, NEW v \in Versions, NEW others \in SUBSET loads,
         Insert(o, p, v, others)
  PROVE  /\ docs' \in [Files -> Versions \cup {Absent}]
         /\ Keys' = Keys \cup {p}
         /\ late' \subseteq Keys'
         /\ loads' \subseteq LoadSet
  <1>1. docs' = [docs EXCEPT ![p] = v] /\ late' \subseteq late \cup {p}
    BY DEF Insert
  <1>2. docs' \in [Files -> Versions \cup {Absent}]
    BY <1>1 DEF TypeOK
  <1>3. Keys' = Keys \cup {p}
    BY <1>1, AbsentIsNoVersion DEF TypeOK, Keys
  <1>4. \A q \in Children[p][v] : Load(o, p, q, FALSE) \in LoadSet
    BY ChildrenAreFiles, LoadsAreTyped
  <1>5. loads' \subseteq LoadSet
    BY <1>4 DEF Insert, TypeOK
  <1> QED BY <1>1, <1>2, <1>3, <1>5 DEF TypeOK

LEMMA StartOpenIsTyped ==
  ASSUME TypeOK, NEW p \in Files
  PROVE  /\ StartOpen(p) \in CallSet
         /\ StartOpen(p).step = "insert" /\ StartOpen(p).file = p
  BY VersionsAreNumbers DEF StartOpen, Idle, CallSet, TypeOK

LEMMA LoaderKeepsTypes ==
  ASSUME TypeOK, NEW l \in loads, Loader(l)
  PROVE  TypeOK'
  <1>1. l \in LoadSet
    BY DEF TypeOK
  <1>2. CASE LoadParse(l)
    <2>1. [l EXCEPT !.step = "insert", !.seen = options] \in LoadSet
      BY <1>1 DEF LoadSet, TypeOK
    <2>2. loads' \subseteq LoadSet
      BY <1>2, <2>1 DEF LoadParse, Replace, TypeOK
    <2>3. Keys' = Keys
      BY <1>2 DEF LoadParse, Keys
    <2> QED BY <1>2, <2>2, <2>3 DEF LoadParse, clientVars, configVars, pullVars, folderVars, TypeOK
  <1>3. CASE LoadInsert(l)
    <2>1. l.opener \in Openers /\ l.target \in Files /\ l.seen \in Versions
      BY <1>1 DEF LoadSet
    <2>2. Insert(l.opener, l.target, l.seen, loads \ {l})
      BY <1>3 DEF LoadInsert
    <2>3. /\ docs' \in [Files -> Versions \cup {Absent}]
          /\ late' \subseteq Keys' /\ loads' \subseteq LoadSet
      BY <2>1, <2>2, InsertKeepsTypes
    <2>4. watched' \subseteq WatchedFolders /\ refused' \subseteq WatchedFolders
      <3>1. {PathOf[l.target].folder} \in SUBSET WatchedFolders
        BY <2>1 DEF WatchedFolders
      <3> QED BY <1>3, <3>1, WatchKeepsTypes DEF LoadInsert
    <2> QED BY <1>3, <2>3, <2>4 DEF LoadInsert, clientVars, configVars, pullVars, TypeOK
  <1> QED BY <1>2, <1>3 DEF Loader

LEMMA OpenerKeepsTypes ==
  ASSUME TypeOK, NEW o \in Openers, Opener(o)
  PROVE  TypeOK'
  <1>1. PICK c \in CallSet : c = call[o]
    BY DEF TypeOK
  <1>2. CASE OpenInsert(o)
    <2>1. c.file \in Files /\ c.seen \in Versions
      BY <1>1, <1>2 DEF OpenInsert, At, CallSet, TypeOK
    <2>2. Insert(o, c.file, c.seen, loads)
      BY <1>1, <1>2 DEF OpenInsert
    <2>3. /\ docs' \in [Files -> Versions \cup {Absent}]
          /\ late' \subseteq Keys' /\ loads' \subseteq LoadSet
      BY <2>1, <2>2, InsertKeepsTypes
    <2>4. call' = [call EXCEPT ![o] = [c EXCEPT !.step = "climb", !.seen = 0]]
      BY <1>1, <1>2 DEF OpenInsert
    <2>5. call' \in [Openers -> CallSet] /\ \A a \in Openers : call'[a].step # "idle" => call'[a].file \in Files
      BY <1>1, <2>1, <2>4, VersionsAreNumbers DEF CallSet, TypeOK
    <2> QED BY <1>2, <2>3, <2>5 DEF OpenInsert, clientVars, configVars, pullVars, folderVars, TypeOK
  <1>3. CASE Climb(o)
    <2>1. c.file \in Files /\ c.step = "climb"
      BY <1>1, <1>3 DEF Climb, TypeOK
    <2>2. watched' \subseteq WatchedFolders /\ refused' \subseteq WatchedFolders
      <3>1. Watch({PathOf[c.file].folder}) \/ UNCHANGED folderVars
        BY <1>1, <1>3, <2>1, AboveStartsBelow DEF Climb
      <3>2. {PathOf[c.file].folder} \in SUBSET WatchedFolders
        BY <2>1 DEF WatchedFolders
      <3> QED BY <3>1, <3>2, WatchKeepsTypes
    <2>3. call' = [call EXCEPT ![o] = Idle] \/ call' = [call EXCEPT ![o] = [c EXCEPT !.level = @ + 1]]
      BY <1>1, <1>3 DEF Climb
    <2>4. Idle \in CallSet /\ Idle.step = "idle" /\ [c EXCEPT !.level = @ + 1] \in CallSet
      BY <1>1, VersionsAreNumbers DEF Idle, CallSet
    <2>5. [c EXCEPT !.level = @ + 1].file \in Files
      BY <2>1, <1>1 DEF CallSet
    <2>6. call' \in [Openers -> CallSet] /\ \A a \in Openers : call'[a].step # "idle" => call'[a].file \in Files
      BY <1>1, <2>1, <2>3, <2>4, <2>5 DEF TypeOK
    <2>7. loads' \subseteq LoadSet
      <3>1. PICK folder : loads' \subseteq {Load(o, NoFile, f, TRUE) : f \in FilesIn(folder)} \cup loads
        BY <1>3 DEF Climb
      <3>2. \A f \in FilesIn(folder) : Load(o, NoFile, f, TRUE) \in LoadSet
        BY LoadsAreTyped DEF FilesIn
      <3> QED BY <3>1, <3>2 DEF TypeOK
    <2>8. Keys' = Keys
      BY <1>3 DEF Climb, Keys
    <2>9. astray' \subseteq Editable
      BY <1>3 DEF Climb, EndSearch, TypeOK
    <2> QED BY <1>3, <2>1, <2>2, <2>6, <2>7, <2>8, <2>9
           DEF Climb, clientVars, configVars, pullVars, TypeOK
  <1> QED BY <1>2, <1>3 DEF Opener

(* The actions of the client, the main thread and the jobs leave the       *)
(* documents and the loads alone.                                          *)
LEMMA ConfigKeepsTypes ==
  ASSUME TypeOK,
         \/ ClientChanges
         \/ \E p \in Editable : DidOpen(p)
         \/ \E j \in Jobs : DidChangeConfiguration(j) \/ Reply(j) \/ Job(j)
  PROVE  TypeOK'
  <1>1. ASSUME UNCHANGED docs PROVE Keys' = Keys
    BY <1>1 DEF Keys
  <1>2. ASSUME NEW j \in Jobs, NEW r \in JobSet, job' = [job EXCEPT ![j] = r]
        PROVE  job' \in [Jobs -> JobSet]
    BY <1>2 DEF TypeOK
  <1>3. ASSUME NEW j \in Jobs,
               NEW s \in {"none", "new", "asked", "replied", "configured", "watched", "reparse", "done"},
               NEW a \in Versions \cup {Failed, Empty}, NEW t \in SUBSET Files
        PROVE  /\ [job[j] EXCEPT !.step = s] \in JobSet
               /\ [job[j] EXCEPT !.step = s, !.answer = a] \in JobSet
               /\ [job[j] EXCEPT !.step = s, !.todo = t] \in JobSet
               /\ [job[j] EXCEPT !.todo = t] \in JobSet
    <2>1. job[j] \in JobSet
      BY DEF TypeOK
    <2> QED BY <2>1 DEF JobSet
  <1>4. ASSUME NEW o \in Openers, NEW p \in Files, call' = [call EXCEPT ![o] = StartOpen(p)]
        PROVE  /\ call' \in [Openers -> CallSet]
               /\ \A a \in Openers : call'[a].step # "idle" => call'[a].file \in Files
    BY <1>4, StartOpenIsTyped DEF TypeOK
  <1>5. CASE ClientChanges
    <2>1. wanted' \in Versions /\ notices' \in Seq(Versions)
      BY <1>5, VersionsAreNumbers DEF ClientChanges, TypeOK
    <2> QED BY <1>1, <1>5, <2>1 DEF ClientChanges, folderVars, TypeOK
  <1>6. ASSUME NEW p \in Editable, DidOpen(p)
        PROVE  TypeOK'
    <2>1. p \in Files /\ Main \in Openers
      BY EditableExist DEF Openers
    <2> QED BY <1>1, <1>4, <1>6, <2>1 DEF DidOpen, configVars, pullVars, folderVars, TypeOK
  <1>7. ASSUME NEW j \in Jobs, DidChangeConfiguration(j)
        PROVE  TypeOK'
    <2>1. notices' \in Seq(Versions) /\ Head(notices) \in Versions
      BY <1>7 DEF DidChangeConfiguration, TypeOK
    <2>2. job' \in [Jobs -> JobSet]
      <3>1. \/ job' = [job EXCEPT ![j] = [job[j] EXCEPT !.step = "new"]]
            \/ job' = [job EXCEPT ![j] = [job[j] EXCEPT !.step = "watched"]]
        BY <1>7 DEF DidChangeConfiguration
      <3> QED BY <1>2, <1>3, <3>1
    <2>3. options' \in Versions
      BY <1>7, <2>1 DEF DidChangeConfiguration, TypeOK
    <2>4. watched' \subseteq WatchedFolders /\ refused' \subseteq WatchedFolders
      <3>1. AuxFolder(options') \in SUBSET WatchedFolders
        BY <2>3, AuxFoldersAreWatchable DEF AuxFolder
      <3>2. Watch(AuxFolder(options')) \/ UNCHANGED folderVars
        BY <1>7 DEF DidChangeConfiguration, AuxFolder
      <3> QED BY <3>1, <3>2, WatchKeepsTypes
    <2> QED BY <1>1, <1>7, <2>1, <2>2, <2>3, <2>4 DEF DidChangeConfiguration, pullVars, TypeOK
  <1>8. ASSUME NEW j \in Jobs, Ask(j)
        PROVE  TypeOK'
    <2>1. job' \in [Jobs -> JobSet]
      <3>1. \/ job' = [job EXCEPT ![j] = [job[j] EXCEPT !.step = "asked"]]
            \/ job' = [job EXCEPT ![j] = [job[j] EXCEPT !.step = "configured"]]
        BY <1>8 DEF Ask
      <3> QED BY <1>2, <1>3, <3>1
    <2> QED BY <1>1, <1>8, <2>1 DEF Ask, clientVars, pullVars, folderVars, TypeOK
  <1>9. ASSUME NEW j \in Jobs, Reply(j)
        PROVE  TypeOK'
    <2>1. PICK answer \in {wanted, Failed, Empty} :
             /\ job' = [job EXCEPT ![j] = [job[j] EXCEPT !.step = "replied", !.answer = answer]]
             /\ failed' = (failed \/ answer # wanted)
      BY <1>9 DEF Reply
    <2>2. answer \in Versions \cup {Failed, Empty}
      BY DEF TypeOK
    <2>3. job' \in [Jobs -> JobSet] /\ failed' \in BOOLEAN
      BY <1>2, <1>3, <2>1, <2>2 DEF TypeOK
    <2> QED BY <1>1, <1>9, <2>3 DEF Reply, clientVars, folderVars, TypeOK
  <1>10. ASSUME NEW j \in Jobs, Configure(j)
         PROVE  TypeOK'
    <2>1. \/ job' = [job EXCEPT ![j] = [job[j] EXCEPT !.step = "configured", !.answer = 0]]
          \/ job' = [job EXCEPT ![j] = [job[j] EXCEPT !.step = "done", !.answer = 0]]
      BY <1>10 DEF Configure
    <2>2. job' \in [Jobs -> JobSet]
      BY <1>2, <1>3, <2>1, VersionsAreNumbers
    <2>3. options' \in Versions /\ overtaken' \in BOOLEAN /\ applied' \in Versions
      <3>1. CASE job[j].answer \in Versions
        <4>1. PICK a \in Versions : a = job[j].answer
          BY <3>1
        <4>2. /\ options' = IF a \in Valid THEN a ELSE 0
              /\ overtaken' = (a < applied)
              /\ applied' = IF a < applied THEN applied ELSE a
          BY <1>10, <4>1 DEF Configure, Adopted
        <4>3. applied' \in {a, applied} /\ options' \in {a, 0}
          BY <4>2
        <4> QED BY <4>1, <4>2, <4>3, VersionsAreNumbers DEF TypeOK
      <3>2. CASE job[j].answer \notin Versions
        BY <1>10, <3>2 DEF Configure, TypeOK
      <3> QED BY <3>1, <3>2
    <2> QED BY <1>1, <1>10, <2>2, <2>3 DEF Configure, clientVars, folderVars, TypeOK
  <1>11. ASSUME NEW j \in Jobs, WatchAux(j)
         PROVE  TypeOK'
    <2>1. job' = [job EXCEPT ![j] = [job[j] EXCEPT !.step = "watched"]]
      BY <1>11 DEF WatchAux
    <2>2. job' \in [Jobs -> JobSet]
      BY <1>2, <1>3, <2>1
    <2>3. watched' \subseteq WatchedFolders /\ refused' \subseteq WatchedFolders
      <3>1. AuxFolder(options) \in SUBSET WatchedFolders
        BY AuxFoldersAreWatchable DEF TypeOK
      <3> QED BY <1>11, <3>1, WatchKeepsTypes DEF WatchAux
    <2> QED BY <1>1, <1>11, <2>2, <2>3 DEF WatchAux, clientVars, pullVars, TypeOK
  <1>12. ASSUME NEW j \in Jobs, Collect(j)
         PROVE  TypeOK'
    <2>1. job' = [job EXCEPT ![j] = [job[j] EXCEPT !.step = "reparse", !.todo = Keys]]
      BY <1>12 DEF Collect
    <2>2. job' \in [Jobs -> JobSet]
      BY <1>2, <1>3, <2>1, KeysAreDocuments
    <2> QED BY <1>1, <1>12, <2>2 DEF Collect, clientVars, pullVars, folderVars, TypeOK
  <1>13. ASSUME NEW j \in Jobs, Reopen(j)
         PROVE  TypeOK'
    <2>1. PICK p \in job[j].todo :
             /\ job' = [job EXCEPT ![j] = [job[j] EXCEPT !.todo = job[j].todo \ {p}]]
             /\ call' = [call EXCEPT ![j] = StartOpen(p)]
      BY <1>13 DEF Reopen
    <2>2. job[j].todo \in SUBSET Files /\ job[j].todo \ {p} \in SUBSET Files /\ j \in Openers
      BY DEF TypeOK, JobSet, Openers
    <2>3. job' \in [Jobs -> JobSet]
      <3>1. [job[j] EXCEPT !.todo = job[j].todo \ {p}] \in JobSet
        BY <2>2 DEF TypeOK, JobSet
      <3> QED BY <1>2, <2>1, <3>1
    <2> QED BY <1>1, <1>4, <1>13, <2>1, <2>2, <2>3
           DEF Reopen, clientVars, pullVars, folderVars, TypeOK
  <1>14. ASSUME NEW j \in Jobs, JobEnds(j)
         PROVE  TypeOK'
    <2>1. job' = [job EXCEPT ![j] = [job[j] EXCEPT !.step = "done"]]
      BY <1>14 DEF JobEnds
    <2>2. job' \in [Jobs -> JobSet]
      BY <1>2, <1>3, <2>1
    <2> QED BY <1>1, <1>14, <2>2 DEF JobEnds, clientVars, pullVars, folderVars, TypeOK
  <1> QED BY <1>5, <1>6, <1>7, <1>8, <1>9, <1>10, <1>11, <1>12, <1>13, <1>14 DEF Job

-----------------------------------------------------------------------------
(* The options.  Only the client, the main thread and the first three      *)
(* steps of a job have to do with them.                                    *)

(* A job that goes from one step to another.                               *)
LEMMA JobGoesOn ==
  ASSUME TypeOK, NEW j \in Jobs, NEW r \in JobSet, job' = [job EXCEPT ![j] = r]
  PROVE  /\ job'[j] = r
         /\ \A k \in Jobs \ {j} : job'[k] = job[k]
  BY DEF TypeOK

(* Nothing is answered that the client has not asked for before.           *)
LEMMA AnswersAreOld ==
  ASSUME IInv, NEW j \in Jobs
  PROVE  /\ job[j].step \in {"asked", "replied"} => pulls
         /\ job[j].answer \in Versions => job[j].answer <= wanted
  <1>1. IsOldAnswer(j)
    BY DEF IInv, NewestComes
  <1> QED BY <1>1 DEF IsOldAnswer

LEMMA LateStepsKeepOptions ==
  ASSUME IInv,
         UNCHANGED <<pulls, wanted, notices, options, applied, failed, overtaken>>,
         \/ UNCHANGED job
         \/ \E j \in Jobs :
              /\ job[j].step \in {"configured", "watched", "reparse"}
              /\ job'[j].step \in {"watched", "reparse", "done"} /\ job'[j].answer = job[j].answer
              /\ \A k \in Jobs \ {j} : job'[k] = job[k]
  PROVE  NewestComes'
  <1>1. \A k \in Jobs : /\ job'[k].answer = job[k].answer
                        /\ \A s \in {"new", "asked", "replied"} : job'[k].step = s <=> job[k].step = s
    <2>1. ASSUME NEW j \in Jobs,
                 job[j].step \in {"configured", "watched", "reparse"},
                 job'[j].step \in {"watched", "reparse", "done"}, job'[j].answer = job[j].answer,
                 \A k \in Jobs \ {j} : job'[k] = job[k],
                 NEW k \in Jobs
          PROVE  /\ job'[k].answer = job[k].answer
                 /\ \A s \in {"new", "asked", "replied"} : job'[k].step = s <=> job[k].step = s
      BY <2>1
    <2> QED BY <2>1
  <1>2. Some({"new", "asked"})' <=> Some({"new", "asked"})
    BY <1>1 DEF Some
  <1>3. IsNewestValid(options, wanted - Len(notices))' <=> IsNewestValid(options, wanted - Len(notices))
    BY DEF IsNewestValid
  <1>4. \A k \in Jobs : IsOldAnswer(k)'
    BY <1>1, AnswersAreOld DEF IsOldAnswer
  <1> QED BY <1>1, <1>2, <1>3, <1>4 DEF IInv, NewestComes, Adopted

(* The notifications are those of the last versions, one after the other.  *)
LEMMA NoticesAreNumbers ==
  ASSUME IInv
  PROVE  /\ wanted \in Nat /\ applied \in Nat /\ Len(notices) \in Nat /\ Len(notices) <= wanted
         /\ notices \in Seq(Versions) /\ Valid \subseteq Nat
         /\ notices # <<>> => Len(notices) > 0 /\ Head(notices) = wanted - Len(notices) + 1
  <1>1. notices \in Seq(Versions) /\ wanted \in Versions /\ applied \in Versions
    BY DEF IInv, TypeOK
  <1>2. PICK n \in Nat : n = Len(notices)
    BY <1>1
  <1>3. n <= wanted /\ \A i \in 1..n : notices[i] = wanted - n + i
    BY <1>2 DEF IInv, NewestComes
  <1>4. notices # <<>> => n > 0 /\ Head(notices) = notices[1]
    BY <1>1, <1>2
  <1>5. n > 0 => notices[1] = wanted - n + 1
    BY <1>3
  <1> QED BY <1>1, <1>2, <1>3, <1>4, <1>5, VersionsAreNumbers, DefaultIsValid

LEMMA ClientChangesKeepsOptions ==
  ASSUME IInv, ClientChanges
  PROVE  NewestComes'
  <1>1. PICK w \in Nat, n \in Nat : w = wanted /\ n = Len(notices) /\ n <= w
    BY NoticesAreNumbers
  <1>2. /\ wanted' = w + 1 /\ notices' = Append(notices, w + 1)
        /\ UNCHANGED <<pulls, options, job, applied, overtaken>>
    BY <1>1 DEF ClientChanges
  <1>3. /\ Len(notices') = n + 1 /\ notices' # <<>> /\ notices'[n + 1] = w + 1
        /\ \A i \in 1..n : notices'[i] = notices[i]
    BY <1>1, <1>2, NoticesAreNumbers
  <1>4. \A i \in 1..n + 1 : notices'[i] = (w + 1) - (n + 1) + i
    <2>1. \A i \in 1..n : notices[i] = w - n + i
      BY <1>1 DEF IInv, NewestComes
    <2> QED BY <1>1, <1>3, <2>1
  <1>5. applied <= w + 1
    BY <1>1, NoticesAreNumbers DEF IInv, NewestComes
  <1>6. ASSUME NEW j \in Jobs
        PROVE  IsOldAnswer(j)'
    <2>1. ASSUME NEW a \in Versions, a <= wanted PROVE a <= w + 1
      BY <1>1, <2>1, VersionsAreNumbers
    <2>2. job[j].answer \in Versions => job[j].answer <= wanted
      BY AnswersAreOld
    <2>3. job[j].answer \in Versions => job[j].answer <= w + 1
      BY <2>1, <2>2, Zenon
    <2> QED BY <1>2, <2>3, AnswersAreOld DEF IsOldAnswer
  <1>7. ~pulls => IsNewestValid(options, (w + 1) - (n + 1))
    <2>1. (w + 1) - (n + 1) = w - n
      BY <1>1
    <2> QED BY <1>1, <2>1 DEF IInv, NewestComes
  <1>8. pulls /\ ~overtaken => options = Adopted(applied)
    BY DEF IInv, NewestComes
  <1>9. n + 1 <= w + 1
    BY <1>1
  <1> QED BY <1>2, <1>3, <1>4, <1>5, <1>6, <1>7, <1>8, <1>9 DEF NewestComes, Adopted, IsNewestValid

LEMMA NoticeKeepsOptions ==
  ASSUME IInv, NEW j \in Jobs, DidChangeConfiguration(j)
  PROVE  NewestComes'
  <1>1. PICK w \in Nat, n \in Nat :
           /\ w = wanted /\ n = Len(notices) /\ n <= w /\ n > 0
           /\ Head(notices) = w - n + 1
    BY NoticesAreNumbers DEF DidChangeConfiguration
  <1>2. /\ notices # <<>> /\ notices' = Tail(notices)
        /\ UNCHANGED <<pulls, wanted, applied, failed, overtaken>>
    BY DEF DidChangeConfiguration, pullVars
  <1>3. Len(notices') = n - 1 /\ \A i \in 1..n - 1 : notices'[i] = notices[i + 1]
    BY <1>1, <1>2, NoticesAreNumbers
  <1>4. \A i \in 1..n - 1 : notices'[i] = w - (n - 1) + i
    <2>1. \A i \in 1..n : notices[i] = w - n + i
      BY <1>1 DEF IInv, NewestComes
    <2>2. ASSUME NEW i \in 1..n - 1 PROVE notices[i + 1] = w - n + (i + 1)
      BY <1>1, <2>1
    <2>3. \A i \in 1..n - 1 : w - n + (i + 1) = w - (n - 1) + i
      BY <1>1
    <2> QED BY <1>3, <2>2, <2>3
  <1>5. /\ job'[j].answer = job[j].answer
        /\ job'[j].step = IF pulls THEN "new" ELSE "watched"
        /\ \A k \in Jobs \ {j} : job'[k] = job[k]
    <2>1. job[j] \in JobSet
      BY DEF IInv, TypeOK
    <2>2. PICK r : r = [job[j] EXCEPT !.step = IF pulls THEN "new" ELSE "watched"]
      OBVIOUS
    <2>3. r \in JobSet /\ r.answer = job[j].answer /\ r.step = IF pulls THEN "new" ELSE "watched"
      BY <2>1, <2>2 DEF JobSet
    <2>4. job' = [job EXCEPT ![j] = r]
      BY <2>2 DEF DidChangeConfiguration
    <2> QED BY <2>3, <2>4, JobGoesOn DEF IInv
  <1>6. \A k \in Jobs : IsOldAnswer(k)'
    <2>1. ASSUME NEW k \in Jobs
          PROVE  (job'[k].step \in {"asked", "replied"} => job[k].step = job'[k].step) /\ job'[k].answer = job[k].answer
      BY <1>5
    <2> QED BY <1>2, <2>1, AnswersAreOld DEF IsOldAnswer
  <1>7. n - 1 <= w
    BY <1>1
  <1>8. CASE pulls
    <2>1. UNCHANGED options
      BY <1>8 DEF DidChangeConfiguration
    <2>2. Some({"new", "asked"})'
      BY <1>5, <1>8 DEF Some
    <2>3. ~overtaken => options' = Adopted(applied)'
      BY <1>2, <1>8, <2>1 DEF IInv, NewestComes, Adopted
    <2>4. applied <= wanted
      BY DEF IInv, NewestComes
    <2> QED BY <1>1, <1>2, <1>3, <1>4, <1>6, <1>7, <1>8, <2>2, <2>3, <2>4 DEF NewestComes
  <1>9. CASE ~pulls
    <2>1. options' = IF Head(notices) \in Valid THEN Head(notices) ELSE options
      BY <1>9 DEF DidChangeConfiguration
    <2>2. PICK m \in Nat : m = w - n /\ m + 1 = w - (n - 1) /\ Head(notices) = m + 1
      <3>1. w - n \in Nat /\ w - n + 1 = w - (n - 1)
        BY <1>1
      <3> QED BY <1>1, <3>1
    <2>3. IsNewestValid(options, m)
      BY <1>1, <1>9, <2>2 DEF IInv, NewestComes
    <2>4. IsNewestValid(options, m + 1)'
      <3>1. /\ options \in Valid /\ options \in Nat /\ options <= m
            /\ \A v \in Valid : v <= m => v <= options
        BY <2>3, NoticesAreNumbers DEF IsNewestValid
      <3>2. \A v \in Valid : v \in Nat /\ (v <= m + 1 => v <= m \/ v = m + 1)
        BY <2>2, NoticesAreNumbers
      <3>3. CASE m + 1 \in Valid
        <4>1. \A v \in Valid : v <= m + 1 => v <= m + 1
          OBVIOUS
        <4> QED BY <2>1, <2>2, <3>3, <4>1 DEF IsNewestValid
      <3>4. CASE m + 1 \notin Valid
        <4>1. options' = options /\ options <= m + 1
          BY <2>1, <2>2, <3>1, <3>4
        <4>2. \A v \in Valid : v <= m + 1 => v <= options
          BY <3>1, <3>2, <3>4
        <4> QED BY <3>1, <4>1, <4>2 DEF IsNewestValid
      <3> QED BY <3>3, <3>4
    <2>5. applied <= wanted
      BY DEF IInv, NewestComes
    <2>6. IsNewestValid(options, wanted - Len(notices))'
      BY <1>1, <1>2, <1>3, <2>2, <2>4
    <2> QED BY <1>1, <1>2, <1>3, <1>4, <1>6, <1>7, <1>9, <2>5, <2>6 DEF NewestComes
  <1> QED BY <1>8, <1>9

LEMMA AskKeepsOptions ==
  ASSUME IInv, NEW j \in Jobs, Ask(j)
  PROVE  NewestComes'
  <1>1. /\ job[j].step = "new"
        /\ job' = [job EXCEPT ![j] = [job[j] EXCEPT !.step = IF pulls THEN "asked" ELSE "configured"]]
        /\ UNCHANGED <<pulls, wanted, notices, options, applied, failed, overtaken>>
    BY DEF Ask, clientVars, pullVars
  <1>2. /\ job'[j].step = (IF pulls THEN "asked" ELSE "configured") /\ job'[j].answer = job[j].answer
        /\ \A k \in Jobs \ {j} : job'[k] = job[k]
    <2>1. job[j] \in JobSet
      BY DEF IInv, TypeOK
    <2>2. PICK r : r = [job[j] EXCEPT !.step = IF pulls THEN "asked" ELSE "configured"]
      OBVIOUS
    <2>3. r \in JobSet /\ r.answer = job[j].answer /\ r.step = IF pulls THEN "asked" ELSE "configured"
      BY <2>1, <2>2 DEF JobSet
    <2> QED BY <1>1, <2>2, <2>3, JobGoesOn DEF IInv
  <1>3. pulls => Some({"new", "asked"})'
    BY <1>2 DEF Some
  <1>4. \A k \in Jobs : IsOldAnswer(k)'
    <2>1. ASSUME NEW k \in Jobs
          PROVE  /\ job'[k].step \in {"asked", "replied"} => job[k].step = job'[k].step \/ pulls
                 /\ job'[k].answer = job[k].answer
      BY <1>2
    <2> QED BY <1>1, <2>1, AnswersAreOld DEF IsOldAnswer
  <1>5. IsNewestValid(options, wanted - Len(notices))' <=> IsNewestValid(options, wanted - Len(notices))
    BY <1>1 DEF IsNewestValid
  <1> QED BY <1>1, <1>3, <1>4, <1>5 DEF IInv, NewestComes, Adopted

LEMMA ReplyKeepsOptions ==
  ASSUME IInv, NEW j \in Jobs, Reply(j)
  PROVE  NewestComes'
  <1>1. PICK answer \in {wanted, Failed, Empty} :
           /\ job' = [job EXCEPT ![j] = [job[j] EXCEPT !.step = "replied", !.answer = answer]]
           /\ failed' = (failed \/ answer # wanted)
    BY DEF Reply
  <1>2. job[j].step = "asked" /\ UNCHANGED <<pulls, wanted, notices, options, applied, overtaken>>
    BY DEF Reply, clientVars
  <1>3. /\ job'[j].step = "replied" /\ job'[j].answer = answer
        /\ \A k \in Jobs \ {j} : job'[k] = job[k]
    <2>1. job[j] \in JobSet /\ answer \in Versions \cup {Failed, Empty}
      BY DEF IInv, TypeOK
    <2>2. PICK r : r = [job[j] EXCEPT !.step = "replied", !.answer = answer]
      OBVIOUS
    <2>3. r \in JobSet /\ r.step = "replied" /\ r.answer = answer
      BY <2>1, <2>2 DEF JobSet
    <2> QED BY <1>1, <2>2, <2>3, JobGoesOn DEF IInv
  <1>4. failed' \/ \E k \in Jobs : job'[k].step = "replied" /\ job'[k].answer = wanted
    BY <1>1, <1>3
  <1>5. answer \in Versions => answer <= wanted
    BY <1>1, VersionsAreNumbers DEF IInv, TypeOK
  <1>6. \A k \in Jobs : IsOldAnswer(k)'
    <2>1. ASSUME NEW k \in Jobs \ {j}
          PROVE  /\ job'[k].step \in {"asked", "replied"} => pulls
                 /\ job'[k].answer \in Versions => job'[k].answer <= wanted
      BY <1>3, AnswersAreOld
    <2>2. pulls
      BY <1>2, AnswersAreOld
    <2> QED BY <1>2, <1>3, <1>5, <2>1, <2>2 DEF IsOldAnswer
  <1>7. IsNewestValid(options, wanted - Len(notices))' <=> IsNewestValid(options, wanted - Len(notices))
    BY <1>2 DEF IsNewestValid
  <1> QED BY <1>2, <1>4, <1>6, <1>7 DEF IInv, NewestComes, Adopted

LEMMA ConfigureKeepsOptions ==
  ASSUME IInv, NEW j \in Jobs, Configure(j)
  PROVE  NewestComes'
  <1>1. job[j].step = "replied" /\ UNCHANGED <<pulls, wanted, notices, failed>>
    BY DEF Configure, clientVars
  <1>2. pulls /\ applied <= wanted /\ applied \in Nat /\ wanted \in Nat /\ wanted \in Versions
    <2>1. applied <= wanted /\ wanted \in Versions
      BY DEF IInv, TypeOK, NewestComes
    <2> QED BY <1>1, <2>1, AnswersAreOld, NoticesAreNumbers
  <1>3. /\ job'[j].step \in {"configured", "done"} /\ job'[j].answer = 0
        /\ \A k \in Jobs \ {j} : job'[k] = job[k]
    <2>1. job[j] \in JobSet
      BY DEF IInv, TypeOK
    <2>2. ASSUME NEW s \in {"configured", "done"}
          PROVE  LET r == [job[j] EXCEPT !.step = s, !.answer = 0]
                 IN  r \in JobSet /\ r.step = s /\ r.answer = 0
      BY <2>1, VersionsAreNumbers DEF JobSet
    <2>3. PICK s \in {"configured", "done"} :
             job' = [job EXCEPT ![j] = [job[j] EXCEPT !.step = s, !.answer = 0]]
      BY DEF Configure
    <2> QED BY <2>2, <2>3, JobGoesOn DEF IInv
  <1>4. \A k \in Jobs : IsOldAnswer(k)'
    <2>1. ASSUME NEW k \in Jobs \ {j}
          PROVE  /\ job'[k].step \in {"asked", "replied"} => pulls
                 /\ job'[k].answer \in Versions => job'[k].answer <= wanted
      BY <1>3, AnswersAreOld
    <2> QED BY <1>1, <1>2, <1>3, <2>1 DEF IsOldAnswer
  <1>5. ASSUME NEW k \in Jobs \ {j}, job[k].step \in {"new", "asked", "replied"}
        PROVE  job'[k].step = job[k].step /\ job'[k].answer = job[k].answer
    BY <1>3
  <1>6. CASE job[j].answer \in Versions
    <2>1. PICK a \in Versions : a = job[j].answer /\ a <= wanted /\ a \in Nat
      BY <1>6, VersionsAreNumbers, AnswersAreOld
    <2>2. /\ options' = Adopted(a)
          /\ overtaken' = (a < applied)
          /\ applied' = IF a < applied THEN applied ELSE a
      BY <1>6, <2>1 DEF Configure
    <2>3. applied' <= wanted /\ (~overtaken' => applied' = a)
      BY <1>2, <2>1, <2>2
    <2>4. a = wanted \/ applied = wanted => applied' = wanted
      BY <1>2, <2>1, <2>2
    <2>5. \/ notices' # <<>> \/ Some({"new", "asked"})' \/ failed'
          \/ \E k \in Jobs : job'[k].step = "replied" /\ job'[k].answer = wanted
          \/ applied' = wanted
      <3>1. CASE Some({"new", "asked"})
        BY <1>1, <1>5, <3>1 DEF Some
      <3>2. CASE \E k \in Jobs : job[k].step = "replied" /\ job[k].answer = wanted
        <4>1. PICK k \in Jobs : job[k].step = "replied" /\ job[k].answer = wanted
          BY <3>2
        <4>2. CASE k = j
          BY <2>1, <2>4, <4>1, <4>2
        <4>3. CASE k # j
          BY <1>5, <4>1, <4>3
        <4> QED BY <4>2, <4>3
      <3> QED BY <1>1, <1>2, <2>4, <3>1, <3>2 DEF IInv, NewestComes
    <2>6. ~overtaken' => options' = Adopted(applied)'
      BY <2>2, <2>3 DEF Adopted
    <2> QED BY <1>1, <1>2, <1>4, <2>3, <2>5, <2>6 DEF IInv, NewestComes
  <1>7. CASE job[j].answer \notin Versions
    <2>1. UNCHANGED <<options, overtaken, applied>>
      BY <1>7 DEF Configure
    <2>2. \/ notices' # <<>> \/ Some({"new", "asked"})' \/ failed'
          \/ \E k \in Jobs : job'[k].step = "replied" /\ job'[k].answer = wanted
          \/ applied' = wanted
      <3>1. CASE Some({"new", "asked"})
        BY <1>1, <1>5, <3>1 DEF Some
      <3>2. CASE \E k \in Jobs : job[k].step = "replied" /\ job[k].answer = wanted
        BY <1>2, <1>5, <1>7, <3>2
      <3> QED BY <1>1, <1>2, <2>1, <3>1, <3>2 DEF IInv, NewestComes
    <2> QED BY <1>1, <1>2, <1>4, <2>1, <2>2 DEF IInv, NewestComes, Adopted
  <1> QED BY <1>6, <1>7

-----------------------------------------------------------------------------
(* The documents follow the options.                                       *)

LEMMA InsertKeepsReparsing ==
  ASSUME IInv, NEW o \in Openers, NEW p \in Files, NEW v \in Versions, NEW others \in SUBSET loads,
         Insert(o, p, v, others),
         UNCHANGED <<options, job>>,
         UNCHANGED call \/ (call[o].file = p /\ \A a \in Openers \ {o} : call'[a] = call[a])
  PROVE  OthersAreReparsed'
  <1>1. /\ docs' = [docs EXCEPT ![p] = v]
        /\ late' = IF IsLate(p, v) THEN late \cup {p} ELSE late \ {p}
    BY DEF Insert
  <1>2. Keys' = Keys \cup {p}
    BY InsertKeepsTypes DEF IInv
  <1>3. docs'[p] = v /\ \A q \in Files \ {p} : docs'[q] = docs[q]
    BY <1>1 DEF IInv, TypeOK
  <1>4. ASSUME NEW q \in Keys' \ late', Language(q) = "latex", docs'[q] # options
        PROVE  IsReparsed(q)'
    <2>1. q # p
      BY <1>1, <1>3, <1>4 DEF IsLate
    <2>2. q \in Keys \ late /\ docs[q] # options
      BY <1>1, <1>2, <1>3, <1>4, <2>1, KeysAreDocuments DEF IInv
    <2>3. IsReparsed(q)
      BY <1>4, <2>2 DEF IInv, OthersAreReparsed
    <2>4. CASE Some({"configured", "watched"})
      BY <2>4 DEF IsReparsed, Some
    <2>5. CASE \E j \in Jobs : job[j].step = "reparse" /\ q \in job[j].todo
      BY <2>5 DEF IsReparsed
    <2>6. CASE \E j \in Jobs : call[j].step = "insert" /\ call[j].file = q
      <3>1. PICK j \in Jobs : call[j].step = "insert" /\ call[j].file = q
        BY <2>6
      <3>2. call'[j] = call[j]
        BY <2>1, <3>1 DEF Openers
      <3> QED BY <3>1, <3>2 DEF IsReparsed
    <2> QED BY <2>3, <2>4, <2>5, <2>6 DEF IsReparsed
  <1>5. \A j \in Jobs : job'[j].todo # {} => job'[j].step = "reparse"
    BY DEF IInv, OthersAreReparsed
  <1> QED BY <1>4, <1>5 DEF OthersAreReparsed

(* A step that inserts nothing keeps it, if the jobs that were to open a   *)
(* document again still are, and one is when the options have changed.     *)
LEMMA ReparsingStays ==
  ASSUME IInv, UNCHANGED <<docs, late>>,
         \/ Some({"configured", "watched"})'
         \/ options' = options /\ \A q \in Keys : IsReparsed(q) => IsReparsed(q)',
         \A j \in Jobs : job'[j].todo # {} => job'[j].step = "reparse"
  PROVE  OthersAreReparsed'
  <1>1. Keys' = Keys
    BY DEF Keys
  <1>2. ASSUME NEW q \in Keys \ late, Language(q) = "latex", docs[q] # options'
        PROVE  IsReparsed(q)'
    <2>1. CASE Some({"configured", "watched"})'
      BY <2>1 DEF IsReparsed
    <2>2. CASE options' = options /\ \A r \in Keys : IsReparsed(r) => IsReparsed(r)'
      BY <1>2, <2>2 DEF IInv, OthersAreReparsed
    <2> QED BY <2>1, <2>2
  <1> QED BY <1>1, <1>2 DEF OthersAreReparsed

LEMMA LoaderKeepsReparsing ==
  ASSUME IInv, NEW l \in loads, Loader(l)
  PROVE  OthersAreReparsed'
  <1>1. CASE LoadParse(l)
    <2>1. UNCHANGED <<docs, late, options, job, call>>
      BY <1>1 DEF LoadParse, configVars
    <2>2. \A q \in Keys : IsReparsed(q)' <=> IsReparsed(q)
      BY <2>1 DEF IsReparsed, Some
    <2> QED BY <2>1, <2>2, ReparsingStays DEF IInv, OthersAreReparsed
  <1>2. CASE LoadInsert(l)
    <2>1. l.opener \in Openers /\ l.target \in Files /\ l.seen \in Versions
      BY DEF IInv, TypeOK, LoadSet
    <2>2. Insert(l.opener, l.target, l.seen, loads \ {l}) /\ UNCHANGED <<options, job, call>>
      BY <1>2 DEF LoadInsert, configVars
    <2> QED BY <2>1, <2>2, InsertKeepsReparsing
  <1> QED BY <1>1, <1>2 DEF Loader

LEMMA OpenerKeepsReparsing ==
  ASSUME IInv, NEW o \in Openers, Opener(o)
  PROVE  OthersAreReparsed'
  <1>1. CASE OpenInsert(o)
    <2>1. call[o].file \in Files /\ call[o].seen \in Versions
      BY <1>1 DEF OpenInsert, At, IInv, TypeOK, CallSet
    <2>2. /\ Insert(o, call[o].file, call[o].seen, loads) /\ UNCHANGED <<options, job>>
          /\ call' = [call EXCEPT ![o].step = "climb", ![o].seen = 0]
      BY <1>1 DEF OpenInsert, configVars
    <2>3. \A a \in Openers \ {o} : call'[a] = call[a]
      BY <2>2 DEF IInv, TypeOK
    <2> QED BY <2>1, <2>2, <2>3, InsertKeepsReparsing
  <1>2. CASE Climb(o)
    <2>1. UNCHANGED <<docs, late, options, job>> /\ call[o].step = "climb"
      BY <1>2 DEF Climb, configVars
    <2>2. \A a \in Openers \ {o} : call'[a] = call[a]
      <3>1. call' = [call EXCEPT ![o] = Idle] \/ call' = [call EXCEPT ![o].level = @ + 1]
        BY <1>2 DEF Climb
      <3> QED BY <3>1 DEF IInv, TypeOK
    <2>3. \A j \in Jobs : call[j].step = "insert" => call'[j] = call[j]
      BY <2>1, <2>2 DEF Openers
    <2>4. \A q \in Keys : IsReparsed(q) => IsReparsed(q)'
      BY <2>1, <2>3 DEF IsReparsed, Some
    <2> QED BY <2>1, <2>4, ReparsingStays DEF IInv, OthersAreReparsed
  <1> QED BY <1>1, <1>2 DEF Opener

(* A job that goes on without having collected documents.                  *)
LEMMA ShortStepKeepsReparsing ==
  ASSUME IInv, NEW j \in Jobs, NEW s \in {"new", "asked", "replied", "configured", "watched", "done"},
         UNCHANGED <<docs, late, call>>,
         job[j].step \in {"none", "new", "asked", "replied", "configured"},
         job'[j].step = s, job'[j].todo = job[j].todo,
         \A k \in Jobs \ {j} : job'[k] = job[k],
         (job[j].step # "configured" /\ options' = options) \/ s \in {"configured", "watched"}
  PROVE  OthersAreReparsed'
  <1>1. \A k \in Jobs : job'[k].todo # {} => job'[k].step = "reparse"
    BY DEF IInv, OthersAreReparsed
  <1>2. CASE s \in {"configured", "watched"}
    <2>1. Some({"configured", "watched"})'
      BY <1>2 DEF Some
    <2> QED BY <1>1, <2>1, ReparsingStays
  <1>3. CASE s \notin {"configured", "watched"}
    <2>1. ASSUME NEW q \in Keys, IsReparsed(q)
          PROVE  IsReparsed(q)'
      <3>1. CASE Some({"configured", "watched"})
        <4>1. PICK k \in Jobs : job[k].step \in {"configured", "watched"}
          BY <3>1 DEF Some
        <4> QED BY <1>3, <4>1 DEF IsReparsed, Some
      <3>2. CASE \E k \in Jobs : job[k].step = "reparse" /\ q \in job[k].todo
        BY <3>2 DEF IsReparsed
      <3>3. CASE \E k \in Jobs : call[k].step = "insert" /\ call[k].file = q
        BY <3>3 DEF IsReparsed
      <3> QED BY <2>1, <3>1, <3>2, <3>3 DEF IsReparsed
    <2> QED BY <1>1, <1>3, <2>1, ReparsingStays
  <1> QED BY <1>2, <1>3

LEMMA ConfigKeepsReparsing ==
  ASSUME IInv,
         \/ ClientChanges
         \/ \E p \in Editable : DidOpen(p)
         \/ \E j \in Jobs : DidChangeConfiguration(j) \/ Reply(j) \/ Job(j)
  PROVE  OthersAreReparsed'
  <1>1. CASE ClientChanges
    <2>1. UNCHANGED <<docs, late, options, job, call>>
      BY <1>1 DEF ClientChanges, configVars
    <2>2. \A q \in Keys : IsReparsed(q)' <=> IsReparsed(q)
      BY <2>1 DEF IsReparsed, Some
    <2> QED BY <2>1, <2>2, ReparsingStays DEF IInv, OthersAreReparsed
  <1>2. ASSUME NEW p \in Editable, DidOpen(p)
        PROVE  OthersAreReparsed'
    <2>1. UNCHANGED <<docs, late, options, job>> /\ call[Main].step = "idle"
      BY <1>2 DEF DidOpen, configVars, At
    <2>2. \A a \in Openers \ {Main} : call'[a] = call[a]
      BY <1>2 DEF DidOpen, IInv, TypeOK
    <2>3. \A j \in Jobs : call[j].step = "insert" => call'[j] = call[j]
      BY <2>1, <2>2 DEF Openers
    <2>4. \A q \in Keys : IsReparsed(q) => IsReparsed(q)'
      BY <2>1, <2>3 DEF IsReparsed, Some
    <2> QED BY <2>1, <2>4, ReparsingStays DEF IInv, OthersAreReparsed
  <1>3. ASSUME NEW j \in Jobs, NEW s \in {"new", "asked", "replied", "configured", "watched", "done"}, NEW a,
               \/ job' = [job EXCEPT ![j].step = s]
               \/ job' = [job EXCEPT ![j].step = s, ![j].answer = a]
        PROVE  /\ job'[j].step = s /\ job'[j].todo = job[j].todo
               /\ \A k \in Jobs \ {j} : job'[k] = job[k]
    BY <1>3 DEF IInv, TypeOK, JobSet
  <1>4. ASSUME NEW j \in Jobs, DidChangeConfiguration(j)
        PROVE  OthersAreReparsed'
    <2>1. /\ job[j].step = "none" /\ UNCHANGED <<docs, late, call>>
          /\ \/ options' = options /\ job' = [job EXCEPT ![j].step = "new"]
             \/ job' = [job EXCEPT ![j].step = "watched"]
      BY <1>4 DEF DidChangeConfiguration
    <2> QED BY <1>3, <2>1, ShortStepKeepsReparsing
  <1>5. ASSUME NEW j \in Jobs, Ask(j)
        PROVE  OthersAreReparsed'
    <2>1. /\ job[j].step = "new" /\ UNCHANGED <<docs, late, call, options>>
          /\ \/ job' = [job EXCEPT ![j].step = "asked"]
             \/ job' = [job EXCEPT ![j].step = "configured"]
      BY <1>5 DEF Ask
    <2> QED BY <1>3, <2>1, ShortStepKeepsReparsing
  <1>6. ASSUME NEW j \in Jobs, Reply(j)
        PROVE  OthersAreReparsed'
    <2>1. /\ job[j].step = "asked" /\ UNCHANGED <<docs, late, call, options>>
          /\ \E a : job' = [job EXCEPT ![j].step = "replied", ![j].answer = a]
      BY <1>6 DEF Reply
    <2> QED BY <1>3, <2>1, ShortStepKeepsReparsing
  <1>7. ASSUME NEW j \in Jobs, Configure(j)
        PROVE  OthersAreReparsed'
    <2>1. /\ job[j].step = "replied" /\ UNCHANGED <<docs, late, call>>
          /\ \/ job' = [job EXCEPT ![j].step = "configured", ![j].answer = 0]
             \/ options' = options /\ job' = [job EXCEPT ![j].step = "done", ![j].answer = 0]
      BY <1>7, VersionsAreNumbers DEF Configure
    <2> QED BY <1>3, <2>1, ShortStepKeepsReparsing
  <1>8. ASSUME NEW j \in Jobs, WatchAux(j)
        PROVE  OthersAreReparsed'
    <2>1. /\ job[j].step = "configured" /\ UNCHANGED <<docs, late, call>>
          /\ job' = [job EXCEPT ![j].step = "watched"]
      BY <1>8 DEF WatchAux
    <2> QED BY <1>3, <2>1, ShortStepKeepsReparsing
  <1>9. ASSUME NEW j \in Jobs, Collect(j)
        PROVE  OthersAreReparsed'
    <2>1. /\ UNCHANGED <<docs, late, call, options>>
          /\ job' = [job EXCEPT ![j].step = "reparse", ![j].todo = Keys]
      BY <1>9 DEF Collect
    <2>2. /\ job'[j].step = "reparse" /\ job'[j].todo = Keys
          /\ \A k \in Jobs \ {j} : job'[k] = job[k]
      BY <2>1 DEF IInv, TypeOK, JobSet
    <2>3. \A q \in Keys : IsReparsed(q)'
      BY <2>2 DEF IsReparsed
    <2>4. \A k \in Jobs : job'[k].todo # {} => job'[k].step = "reparse"
      BY <2>2 DEF IInv, OthersAreReparsed
    <2> QED BY <2>1, <2>3, <2>4, ReparsingStays
  <1>10. ASSUME NEW j \in Jobs, Reopen(j)
         PROVE  OthersAreReparsed'
    <2>1. PICK p \in job[j].todo :
             /\ job' = [job EXCEPT ![j].todo = @ \ {p}]
             /\ call' = [call EXCEPT ![j] = StartOpen(p)]
      BY <1>10 DEF Reopen
    <2>2. /\ UNCHANGED <<docs, late, options>>
          /\ job[j].step = "reparse" /\ call[j].step = "idle" /\ p \in Files
      BY <1>10, <2>1 DEF Reopen, At, IInv, OthersAreReparsed, TypeOK, JobSet
    <2>3. /\ job'[j].step = "reparse" /\ job'[j].todo = job[j].todo \ {p}
          /\ \A k \in Jobs \ {j} : job'[k] = job[k]
      BY <2>1, <2>2 DEF IInv, TypeOK, JobSet
    <2>4. /\ call'[j].step = "insert" /\ call'[j].file = p
          /\ \A k \in Jobs \ {j} : call'[k] = call[k]
      BY <2>1, <2>2, StartOpenIsTyped DEF IInv, TypeOK, Openers
    <2>5. ASSUME NEW q \in Keys, IsReparsed(q)
          PROVE  IsReparsed(q)'
      <3>1. CASE Some({"configured", "watched"})
        <4>1. PICK k \in Jobs : job[k].step \in {"configured", "watched"}
          BY <3>1 DEF Some
        <4> QED BY <2>2, <2>3, <4>1 DEF IsReparsed, Some
      <3>2. CASE \E k \in Jobs : job[k].step = "reparse" /\ q \in job[k].todo
        BY <2>3, <2>4, <3>2 DEF IsReparsed
      <3>3. CASE \E k \in Jobs : call[k].step = "insert" /\ call[k].file = q
        BY <2>2, <2>4, <3>3 DEF IsReparsed
      <3> QED BY <2>5, <3>1, <3>2, <3>3 DEF IsReparsed
    <2>6. \A k \in Jobs : job'[k].todo # {} => job'[k].step = "reparse"
      BY <2>3 DEF IInv, OthersAreReparsed
    <2> QED BY <2>2, <2>5, <2>6, ReparsingStays
  <1>11. ASSUME NEW j \in Jobs, JobEnds(j)
         PROVE  OthersAreReparsed'
    <2>1. /\ UNCHANGED <<docs, late, call, options>>
          /\ job[j].step = "reparse" /\ job[j].todo = {}
          /\ job' = [job EXCEPT ![j].step = "done"]
      BY <1>11 DEF JobEnds
    <2>2. /\ job'[j].step = "done" /\ job'[j].todo = {}
          /\ \A k \in Jobs \ {j} : job'[k] = job[k]
      BY <2>1 DEF IInv, TypeOK, JobSet
    <2>3. ASSUME NEW q \in Keys, IsReparsed(q)
          PROVE  IsReparsed(q)'
      <3>1. CASE Some({"configured", "watched"})
        <4>1. PICK k \in Jobs : job[k].step \in {"configured", "watched"}
          BY <3>1 DEF Some
        <4> QED BY <2>1, <2>2, <4>1 DEF IsReparsed, Some
      <3>2. CASE \E k \in Jobs : job[k].step = "reparse" /\ q \in job[k].todo
        BY <2>1, <2>2, <3>2 DEF IsReparsed
      <3>3. CASE \E k \in Jobs : call[k].step = "insert" /\ call[k].file = q
        BY <2>1, <3>3 DEF IsReparsed
      <3> QED BY <2>3, <3>1, <3>2, <3>3 DEF IsReparsed
    <2>4. \A k \in Jobs : job'[k].todo # {} => job'[k].step = "reparse"
      BY <2>2 DEF IInv, OthersAreReparsed
    <2> QED BY <2>1, <2>3, <2>4, ReparsingStays
  <1> QED BY <1>1, <1>2, <1>4, <1>5, <1>6, <1>7, <1>8, <1>9, <1>10, <1>11 DEF Job

-----------------------------------------------------------------------------
(* What documents lead to is loaded.                                       *)

LEMMA InsertKeepsTargets ==
  ASSUME IInv, NEW o \in Openers, NEW p \in Files, NEW v \in Versions, NEW others \in SUBSET loads,
         Insert(o, p, v, others),
         \A l \in loads \ others : l.target = p
  PROVE  TargetsAreLoaded'
  <1>1. Keys' = Keys \cup {p}
    BY InsertKeepsTypes DEF IInv
  <1>2. docs'[p] = v /\ \A q \in Files \ {p} : docs'[q] = docs[q]
    BY DEF Insert, IInv, TypeOK
  <1>3. ASSUME NEW f \in Keys', NEW q \in Children[f][docs'[f]], Language(q) # "none"
        PROVE  q \in Keys' \/ \E l \in loads' : l.target = q
    <2>1. CASE f = p
      <3>1. q \in Files
        BY <1>2, <1>3, <2>1, ChildrenAreFiles
      <3>2. q \in Children[p][v]
        BY <1>2, <1>3, <2>1
      <3>3. Load(o, p, q, FALSE) \in loads'
        BY <3>2 DEF Insert
      <3>4. Load(o, p, q, FALSE).target = q
        BY <3>1, LoadsAreTyped
      <3> QED BY <3>3, <3>4
    <2>2. CASE f # p
      <3>1. f \in Keys /\ docs'[f] = docs[f]
        BY <1>1, <1>2, <1>3, <2>2, KeysAreDocuments DEF IInv
      <3>2. q \in Keys \/ \E l \in loads : l.target = q
        BY <1>3, <3>1 DEF IInv, TargetsAreLoaded
      <3>3. ASSUME NEW l \in loads, l.target = q
            PROVE  q \in Keys' \/ l \in loads'
        BY <1>1, <3>3 DEF Insert
      <3> QED BY <1>1, <3>2, <3>3
    <2> QED BY <2>1, <2>2
  <1> QED BY <1>3 DEF TargetsAreLoaded

LEMMA LoaderKeepsTargets ==
  ASSUME IInv, NEW l \in loads, Loader(l)
  PROVE  TargetsAreLoaded'
  <1>1. l \in LoadSet
    BY DEF IInv, TypeOK
  <1>2. CASE LoadParse(l)
    <2>1. UNCHANGED docs /\ Keys' = Keys
      BY <1>2 DEF LoadParse, Keys
    <2>2. PICK new : new = [l EXCEPT !.step = "insert", !.seen = options]
      OBVIOUS
    <2>3. new.target = l.target
      BY <1>1, <2>2 DEF LoadSet
    <2>4. loads' = (loads \ {l}) \cup (IF docs[l.target] # Absent \/ Language(l.target) = "none" THEN {} ELSE {new})
      BY <1>2, <2>2 DEF LoadParse, Replace
    <2>5. l.target \in Files
      BY <1>1 DEF LoadSet
    <2>6. ASSUME NEW q, Language(q) # "none", \E m \in loads : m.target = q
          PROVE  q \in Keys \/ \E m \in loads' : m.target = q
      <3>1. PICK m \in loads : m.target = q
        BY <2>6
      <3>2. CASE m # l
        BY <2>4, <3>1, <3>2
      <3>3. CASE m = l
        BY <2>3, <2>4, <2>5, <2>6, <3>1, <3>3, KeysAreDocuments DEF IInv
      <3> QED BY <3>2, <3>3
    <2>7. ASSUME NEW f \in Keys, NEW q \in Children[f][docs[f]], Language(q) # "none"
          PROVE  q \in Keys \/ \E m \in loads' : m.target = q
      BY <2>6, <2>7 DEF IInv, TargetsAreLoaded
    <2> QED BY <2>1, <2>7 DEF TargetsAreLoaded
  <1>3. CASE LoadInsert(l)
    <2>1. l.opener \in Openers /\ l.target \in Files /\ l.seen \in Versions
      BY <1>1 DEF LoadSet
    <2>2. Insert(l.opener, l.target, l.seen, loads \ {l})
      BY <1>3 DEF LoadInsert
    <2> QED BY <2>1, <2>2, InsertKeepsTargets
  <1> QED BY <1>2, <1>3 DEF Loader

LEMMA TargetsStayLoaded ==
  ASSUME IInv, UNCHANGED docs, loads \subseteq loads'
  PROVE  TargetsAreLoaded'
  <1>1. Keys' = Keys
    BY DEF Keys
  <1>2. ASSUME NEW f \in Keys, NEW q \in Children[f][docs[f]], Language(q) # "none"
        PROVE  q \in Keys \/ \E l \in loads' : l.target = q
    BY <1>2 DEF IInv, TargetsAreLoaded
  <1> QED BY <1>1, <1>2 DEF TargetsAreLoaded

LEMMA OpenerKeepsTargets ==
  ASSUME IInv, NEW o \in Openers, Opener(o)
  PROVE  TargetsAreLoaded'
  <1>1. CASE OpenInsert(o)
    <2>1. call[o].file \in Files /\ call[o].seen \in Versions
      BY <1>1 DEF OpenInsert, At, IInv, TypeOK, CallSet
    <2>2. Insert(o, call[o].file, call[o].seen, loads)
      BY <1>1 DEF OpenInsert
    <2> QED BY <2>1, <2>2, InsertKeepsTargets
  <1>2. CASE Climb(o)
    BY <1>2, TargetsStayLoaded DEF Climb
  <1> QED BY <1>1, <1>2 DEF Opener

LEMMA ConfigKeepsTargets ==
  ASSUME IInv,
         \/ ClientChanges
         \/ \E p \in Editable : DidOpen(p)
         \/ \E j \in Jobs : DidChangeConfiguration(j) \/ Reply(j) \/ Job(j)
  PROVE  TargetsAreLoaded'
  <1>1. CASE ClientChanges \/ \E p \in Editable : DidOpen(p)
    BY <1>1, TargetsStayLoaded DEF ClientChanges, DidOpen
  <1>2. ASSUME NEW j \in Jobs, DidChangeConfiguration(j) \/ Reply(j)
        PROVE  TargetsAreLoaded'
    BY <1>2, TargetsStayLoaded DEF DidChangeConfiguration, Reply
  <1>3. ASSUME NEW j \in Jobs, Job(j)
        PROVE  TargetsAreLoaded'
    BY <1>3, TargetsStayLoaded DEF Job, Ask, Configure, WatchAux, Collect, Reopen, JobEnds
  <1> QED BY <1>1, <1>2, <1>3

-----------------------------------------------------------------------------
(* The folders are watched.                                                *)

(* A step after which no less is watched, or was refused, and that keeps   *)
(* the options, or a job to watch their folder.                            *)
LEMMA WatchingGoesOn ==
  ASSUME IInv, watched \cup refused \subseteq watched' \cup refused',
         \/ AuxFolder(options') \subseteq watched' \cup refused'
         \/ Some({"configured"})'
         \/ /\ options' = options
            /\ \A j \in Jobs : job[j].step = "configured" => job'[j] = job[j],
         \A p \in Editable \ toOpen' :
           \/ p \notin toOpen /\ (IsOpening(p) => IsOpening(p)' \/ PathOf[p].folder \in watched' \cup refused')
           \/ IsOpening(p)'
  PROVE  FoldersGetWatched'
  <1>1. AuxFolder(options') \subseteq watched' \cup refused' \/ Some({"configured"})'
    <2>1. CASE options' = options /\ \A j \in Jobs : job[j].step = "configured" => job'[j] = job[j]
      BY <2>1 DEF IInv, FoldersGetWatched, Some
    <2> QED BY <2>1
  <1>2. ASSUME NEW p \in Editable \ toOpen'
        PROVE  PathOf[p].folder \in watched' \cup refused' \/ IsOpening(p)'
    BY <1>2 DEF IInv, FoldersGetWatched, IsOpening
  <1> QED BY <1>1, <1>2 DEF FoldersGetWatched, AuxFolder, IsOpening

LEMMA WorkingKeepsWatching ==
  ASSUME IInv, Working
  PROVE  FoldersGetWatched'
  <1>1. ASSUME NEW l \in loads, Loader(l)
        PROVE  FoldersGetWatched'
    <2>1. UNCHANGED <<options, job, toOpen, call>>
      BY <1>1 DEF Loader, LoadParse, LoadInsert, clientVars, configVars
    <2>2. watched \cup refused \subseteq watched' \cup refused'
      BY <1>1, WatchTries DEF Loader, LoadParse, LoadInsert, folderVars
    <2> QED BY <2>1, <2>2, WatchingGoesOn DEF IsOpening
  <1>2. ASSUME NEW o \in Openers, OpenInsert(o)
        PROVE  FoldersGetWatched'
    <2>1. /\ UNCHANGED <<watched, refused, options, job, toOpen>> /\ call[o].step = "insert"
          /\ call' = [call EXCEPT ![o].step = "climb", ![o].seen = 0]
      BY <1>2 DEF OpenInsert, At, clientVars, configVars, folderVars
    <2>2. Main \in Openers
      BY DEF Openers
    <2>3. \A p : IsOpening(p) => IsOpening(p)'
      BY <2>1, <2>2 DEF IsOpening, IInv, TypeOK, CallSet
    <2> QED BY <2>1, <2>3, WatchingGoesOn
  <1>3. ASSUME NEW o \in Openers, Climb(o)
        PROVE  FoldersGetWatched'
    <2>1. /\ UNCHANGED <<options, job, toOpen>> /\ call[o].step = "climb"
          /\ \/ call' = [call EXCEPT ![o] = Idle]
             \/ call' = [call EXCEPT ![o].level = @ + 1]
      BY <1>3 DEF Climb, clientVars, configVars
    <2>2. Main \in Openers /\ call[o].file \in Files
      BY <2>1 DEF Openers, IInv, TypeOK
    <2>3. Head(Above[PathOf[call[o].file].folder]) = PathOf[call[o].file].folder
      BY <2>2, AboveStartsBelow
    <2>4. /\ watched \cup refused \subseteq watched' \cup refused'
          /\ call[o].level = 0 => PathOf[call[o].file].folder \in watched' \cup refused'
      BY <1>3, <2>3, WatchTries DEF Climb, folderVars
    <2>5. Main # o => call'[Main] = call[Main]
      BY <2>1, <2>2 DEF IInv, TypeOK
    <2>6. ASSUME NEW p, IsOpening(p)
          PROVE  IsOpening(p)' \/ PathOf[p].folder \in watched' \cup refused'
      BY <2>1, <2>4, <2>5, <2>6 DEF IsOpening
    <2> QED BY <2>1, <2>4, <2>6, WatchingGoesOn
  <1> QED BY <1>1, <1>2, <1>3 DEF Working, Opener

LEMMA ConfigKeepsWatching ==
  ASSUME IInv,
         \/ ClientChanges
         \/ \E p \in Editable : DidOpen(p)
         \/ \E j \in Jobs : DidChangeConfiguration(j) \/ Reply(j) \/ Job(j)
  PROVE  FoldersGetWatched'
  <1>1. CASE ClientChanges
    BY <1>1, WatchingGoesOn DEF ClientChanges, folderVars, IsOpening
  <1>2. ASSUME NEW p \in Editable, DidOpen(p)
        PROVE  FoldersGetWatched'
    <2>1. /\ UNCHANGED <<options, job, watched, refused>> /\ call[Main].step = "idle"
          /\ toOpen' = toOpen \ {p} /\ call' = [call EXCEPT ![Main] = StartOpen(p)]
      BY <1>2 DEF DidOpen, configVars, folderVars, At
    <2>2. call'[Main].step = "insert" /\ call'[Main].file = p /\ call'[Main].level = 0
      BY <2>1 DEF StartOpen, Idle, IInv, TypeOK, Openers
    <2>3. IsOpening(p)' /\ \A q : ~IsOpening(q)
      BY <2>1, <2>2 DEF IsOpening
    <2> QED BY <2>1, <2>3, WatchingGoesOn
  <1>3. ASSUME NEW j \in Jobs, DidChangeConfiguration(j)
        PROVE  FoldersGetWatched'
    <2>1. job[j].step = "none" /\ UNCHANGED <<toOpen, call>>
      BY <1>3 DEF DidChangeConfiguration
    <2>2. CASE pulls
      <3>1. /\ UNCHANGED <<options, watched, refused>>
            /\ job' = [job EXCEPT ![j].step = "new"]
        BY <1>3, <2>2 DEF DidChangeConfiguration, folderVars
      <3>2. \A k \in Jobs \ {j} : job'[k] = job[k]
        BY <3>1 DEF IInv, TypeOK
      <3> QED BY <2>1, <3>1, <3>2, WatchingGoesOn DEF IsOpening
    <2>3. CASE ~pulls
      <3>1. Watch(AuxFolder(options'))
        BY <1>3, <2>3 DEF DidChangeConfiguration, AuxFolder
      <3>2. watched \cup refused \cup AuxFolder(options') \subseteq watched' \cup refused'
        BY <3>1, WatchTries
      <3> QED BY <2>1, <3>2, WatchingGoesOn DEF IsOpening
    <2> QED BY <2>2, <2>3
  <1>4. ASSUME NEW j \in Jobs, Ask(j) \/ Reply(j) \/ Configure(j)
        PROVE  FoldersGetWatched'
    <2>1. /\ UNCHANGED <<toOpen, call, watched, refused>>
          /\ job[j].step \in {"new", "asked", "replied"}
      BY <1>4 DEF Ask, Reply, Configure, clientVars, folderVars
    <2>2. \A k \in Jobs \ {j} : job'[k] = job[k]
      BY <1>4 DEF Ask, Reply, Configure, IInv, TypeOK
    <2>3. options' = options \/ job'[j].step = "configured"
      <3>1. CASE Configure(j)
        BY <3>1, VersionsAreNumbers DEF Configure, IInv, TypeOK, JobSet
      <3>2. CASE Ask(j) \/ Reply(j)
        BY <3>2 DEF Ask, Reply
      <3> QED BY <1>4, <3>1, <3>2
    <2>4. Some({"configured"})' \/ options' = options
      BY <2>3 DEF Some
    <2> QED BY <2>1, <2>2, <2>4, WatchingGoesOn DEF IsOpening
  <1>5. ASSUME NEW j \in Jobs, WatchAux(j)
        PROVE  FoldersGetWatched'
    <2>1. UNCHANGED <<toOpen, call, options>> /\ Watch(AuxFolder(options))
      BY <1>5 DEF WatchAux, clientVars
    <2>2. watched \cup refused \cup AuxFolder(options) \subseteq watched' \cup refused'
      BY <2>1, WatchTries
    <2> QED BY <2>1, <2>2, WatchingGoesOn DEF IsOpening, AuxFolder
  <1>6. ASSUME NEW j \in Jobs, Collect(j) \/ Reopen(j) \/ JobEnds(j)
        PROVE  FoldersGetWatched'
    <2>1. UNCHANGED <<toOpen, watched, refused, options>> /\ job[j].step \in {"watched", "reparse"}
      BY <1>6 DEF Collect, Reopen, JobEnds, clientVars, folderVars, IInv, OthersAreReparsed
    <2>2. \A k \in Jobs \ {j} : job'[k] = job[k]
      BY <1>6 DEF Collect, Reopen, JobEnds, IInv, TypeOK
    <2>3. \A p : IsOpening(p) => IsOpening(p)'
      <3>1. UNCHANGED call \/ (call[j].step = "idle" /\ \A k \in Openers \ {j} : call'[k] = call[k])
        BY <1>6 DEF Collect, Reopen, JobEnds, At, IInv, TypeOK
      <3> QED BY <3>1 DEF Openers, IsOpening
    <2> QED BY <2>1, <2>2, <2>3, WatchingGoesOn
  <1> QED BY <1>1, <1>2, <1>3, <1>4, <1>5, <1>6 DEF Job

-----------------------------------------------------------------------------
(* The documents the client opens are connected with a root.               *)

(* The file is a document, or is being loaded.                             *)
Comes(f) == f \in Keys \/ \E l \in loads : l.target = f

LEMMA InsertKeepsComing ==
  ASSUME IInv, NEW o \in Openers, NEW p \in Files, NEW v \in Versions, NEW others \in SUBSET loads,
         Insert(o, p, v, others),
         \A l \in loads \ others : l.target = p
  PROVE  Keys \subseteq Keys' /\ p \in Keys' /\ \A f : Comes(f) => Comes(f)'
  <1>1. Keys' = Keys \cup {p}
    BY InsertKeepsTypes DEF IInv
  <1>2. others \subseteq loads'
    BY DEF Insert
  <1> QED BY <1>1, <1>2 DEF Comes

LEMMA LoaderKeepsComing ==
  ASSUME IInv, NEW l \in loads, Loader(l)
  PROVE  /\ Keys \subseteq Keys'
         /\ \A f \in Files : Language(f) # "none" /\ Comes(f) => Comes(f)'
  <1>1. l \in LoadSet
    BY DEF IInv, TypeOK
  <1>2. CASE LoadParse(l)
    <2>1. Keys' = Keys
      BY <1>2 DEF LoadParse, Keys
    <2>2. PICK new : new = [l EXCEPT !.step = "insert", !.seen = options]
      OBVIOUS
    <2>3. new.target = l.target /\ l.target \in Files
      BY <1>1, <2>2 DEF LoadSet
    <2>4. loads' = (loads \ {l}) \cup (IF docs[l.target] # Absent \/ Language(l.target) = "none" THEN {} ELSE {new})
      BY <1>2, <2>2 DEF LoadParse, Replace
    <2>5. ASSUME NEW f \in Files, Language(f) # "none", NEW m \in loads, m.target = f
          PROVE  Comes(f)'
      <3>1. CASE m # l
        BY <2>4, <2>5, <3>1 DEF Comes
      <3>2. CASE m = l
        BY <2>1, <2>3, <2>4, <2>5, <3>2, KeysAreDocuments DEF IInv, Comes
      <3> QED BY <3>1, <3>2
    <2> QED BY <2>1, <2>5 DEF Comes
  <1>3. CASE LoadInsert(l)
    <2>1. l.opener \in Openers /\ l.target \in Files /\ l.seen \in Versions
      BY <1>1 DEF LoadSet
    <2>2. Insert(l.opener, l.target, l.seen, loads \ {l})
      BY <1>3 DEF LoadInsert
    <2> QED BY <2>1, <2>2, InsertKeepsComing
  <1> QED BY <1>2, <1>3 DEF Loader

(* No document goes, and what comes still comes.                           *)
LEMMA ComingStays ==
  ASSUME IInv, [Next]_vars
  PROVE  /\ Keys \subseteq Keys'
         /\ \A f \in Files : Language(f) # "none" /\ Comes(f) => Comes(f)'
  <1>1. ASSUME UNCHANGED docs, loads \subseteq loads'
        PROVE  Keys \subseteq Keys' /\ \A f : Comes(f) => Comes(f)'
    <2>1. Keys' = Keys
      BY <1>1 DEF Keys
    <2> QED BY <1>1, <2>1 DEF Comes
  <1>2. ASSUME NEW l \in loads, Loader(l)
        PROVE  /\ Keys \subseteq Keys'
               /\ \A f \in Files : Language(f) # "none" /\ Comes(f) => Comes(f)'
    BY <1>2, LoaderKeepsComing
  <1>3. ASSUME NEW o \in Openers, OpenInsert(o)
        PROVE  Keys \subseteq Keys' /\ \A f : Comes(f) => Comes(f)'
    <2>1. call[o].file \in Files /\ call[o].seen \in Versions
      BY <1>3 DEF OpenInsert, At, IInv, TypeOK, CallSet
    <2>2. Insert(o, call[o].file, call[o].seen, loads)
      BY <1>3 DEF OpenInsert
    <2> QED BY <2>1, <2>2, InsertKeepsComing
  <1>4. ASSUME NEW o \in Openers, Climb(o)
        PROVE  UNCHANGED docs /\ loads \subseteq loads'
    BY <1>4 DEF Climb
  <1>5. ASSUME NEW j \in Jobs, DidChangeConfiguration(j) \/ Reply(j) \/ Job(j)
        PROVE  UNCHANGED <<docs, loads>>
    BY <1>5 DEF DidChangeConfiguration, Reply, Job, Ask, Configure, WatchAux, Collect, Reopen, JobEnds
  <1>6. ASSUME ClientChanges \/ (\E p \in Editable : DidOpen(p)) \/ UNCHANGED vars
        PROVE  UNCHANGED <<docs, loads>>
    BY <1>6 DEF ClientChanges, DidOpen, vars
  <1> QED BY <1>1, <1>2, <1>3, <1>4, <1>5, <1>6 DEF Next, Working, Opener

LEMMA AreLoadedStays ==
  ASSUME IInv, [Next]_vars, NEW p, NEW n, AreLoaded(p, n)
  PROVE  AreLoaded(p, n)'
  <1> SUFFICES ASSUME NEW i \in 1..n, NEW f \in Files, Language(f) = "latex",
                      PathOf[f].folder = Above[PathOf[p].folder][i]
               PROVE  Comes(f)'
    BY DEF AreLoaded, Comes
  <1>1. Comes(f)
    BY DEF AreLoaded, Comes
  <1> QED BY <1>1, ComingStays

(* A set that no link of a larger set of documents leaves cuts out of a    *)
(* smaller one a set that no link leaves there.                            *)
LEMMA FoundStays ==
  ASSUME Keys \subseteq Keys', options' = options, NEW p \in Keys, FoundForGood(p)
  PROVE  FoundForGood(p)'
  <1>1. PICK g \in Connected(Keys, LastingLinks, p) : IsRoot(g)
    BY DEF FoundForGood
  <1>2. LastingLinks \subseteq LastingLinks'
    BY DEF LastingLinks
  <1>3. \A e \in LastingLinks : e[1] \in Keys /\ e[2] \in Keys
    BY DEF LastingLinks
  <1>4. ASSUME NEW some \in ClosedUnder(LastingLinks', Keys', p)
        PROVE  g \in some
    <2>1. some \cap Keys \in ClosedUnder(LastingLinks, Keys, p)
      BY <1>2, <1>3, <1>4 DEF ClosedUnder
    <2> QED BY <1>1, <2>1 DEF Connected
  <1>5. g \in Keys'
    BY <1>1 DEF Connected
  <1>6. g \in Connected(Keys', LastingLinks', p)
    BY <1>4, <1>5 DEF Connected
  <1> QED BY <1>1, <1>6 DEF FoundForGood

LEMMA NothingIsAboveZero ==
  ASSUME NEW p
  PROVE  AreLoaded(p, 0) /\ AreLoaded(p, 0)'
  BY DEF AreLoaded

(* An opener has searched the folders up to where it is.                   *)
CallIsUp(o) == call[o].step # "idle" => AreLoaded(call[o].file, call[o].level)

(* What a step has to leave so that the parents are still sought.          *)
LEMMA SeekingGoesOn ==
  ASSUME IInv, [Next]_vars,
         \A o \in Openers :
           \/ CallIsUp(o)'
           \/ /\ call'[o].step # "idle" => call[o].step # "idle"
              /\ call'[o].file = call[o].file /\ call'[o].level = call[o].level,
         \A p \in Editable \ toOpen' :
           \/ p \notin toOpen /\ (call[Main].step = "insert" /\ call[Main].file = p =>
                                    p \in Keys' \/ (call'[Main].step = "insert" /\ call'[Main].file = p))
           \/ call'[Main].step = "insert" /\ call'[Main].file = p,
         options' = options \/ Some({"configured", "watched"})',
         \A p \in Editable \ toOpen : p \in astray \/ IsSought(p) =>
           \/ p \in astray' \/ IsSought(p)'
           \/ AreLoaded(p, Len(Above[PathOf[p].folder])) \/ (p \in Keys /\ FoundForGood(p))
  PROVE  ParentsAreSought'
  <1>1. ASSUME NEW o \in Openers
        PROVE  CallIsUp(o)'
    <2> SUFFICES ASSUME call[o].step # "idle", call'[o].file = call[o].file, call'[o].level = call[o].level
                 PROVE  CallIsUp(o)'
      BY DEF CallIsUp
    <2>1. PICK p, n : p = call[o].file /\ n = call[o].level
      OBVIOUS
    <2>2. AreLoaded(p, n)
      BY <2>1 DEF IInv, ParentsAreSought
    <2>3. AreLoaded(p, n)'
      BY <2>2, AreLoadedStays
    <2>4. p = call'[o].file /\ n = call'[o].level
      BY <2>1
    <2> QED BY <2>3, <2>4 DEF CallIsUp
  <1>2. ASSUME NEW p \in Editable \ toOpen'
        PROVE  p \in Keys' \/ (call'[Main].step = "insert" /\ call'[Main].file = p)
    BY <1>2, ComingStays DEF IInv, ParentsAreSought
  <1>3. ASSUME NEW p \in Editable \ toOpen'
        PROVE  \/ p \in astray' \/ IsSought(p)'
               \/ AreLoaded(p, Len(Above[PathOf[p].folder]))' \/ FoundForGood(p)'
    <2>1. CASE call'[Main].step = "insert" /\ call'[Main].file = p
      BY <2>1 DEF IsSought, Openers
    <2>2. CASE Some({"configured", "watched"})'
      BY <2>2 DEF IsSought
    <2>3. CASE p \notin toOpen /\ options' = options
      <3>1. \/ p \in astray \/ IsSought(p)
            \/ AreLoaded(p, Len(Above[PathOf[p].folder])) \/ FoundForGood(p)
        BY <1>3, <2>3 DEF IInv, ParentsAreSought
      <3>2. p \in Keys \/ IsSought(p)
        BY <1>3, <2>3 DEF IInv, ParentsAreSought, IsSought, Openers
      <3>3. \/ p \in astray' \/ IsSought(p)'
            \/ AreLoaded(p, Len(Above[PathOf[p].folder])) \/ (p \in Keys /\ FoundForGood(p))
        BY <1>3, <2>3, <3>1, <3>2
      <3>4. CASE AreLoaded(p, Len(Above[PathOf[p].folder]))
        BY <3>4, AreLoadedStays
      <3>5. CASE p \in Keys /\ FoundForGood(p)
        BY <2>3, <3>5, ComingStays, FoundStays
      <3> QED BY <3>3, <3>4, <3>5
    <2> QED BY <1>3, <2>1, <2>2, <2>3
  <1> QED BY <1>1, <1>2, <1>3 DEF ParentsAreSought, CallIsUp

LEMMA LoaderKeepsSeeking ==
  ASSUME IInv, NEW l \in loads, Loader(l)
  PROVE  ParentsAreSought'
  <1>1. UNCHANGED <<options, toOpen, call, job, astray>>
    BY DEF Loader, LoadParse, LoadInsert, clientVars, configVars
  <1>2. \A p : IsSought(p) => IsSought(p)'
    BY <1>1 DEF IsSought, Some
  <1>3. Next
    BY DEF Next, Working
  <1> QED BY <1>1, <1>2, <1>3, SeekingGoesOn

LEMMA OpenInsertKeepsSeeking ==
  ASSUME IInv, NEW o \in Openers, OpenInsert(o)
  PROVE  ParentsAreSought'
  <1>1. /\ UNCHANGED <<options, toOpen, job, astray>>
        /\ call[o].step = "insert"
        /\ call' = [call EXCEPT ![o].step = "climb", ![o].seen = 0]
    BY DEF OpenInsert, At, clientVars, configVars
  <1>2. \A a \in Openers : /\ call'[a].file = call[a].file /\ call'[a].level = call[a].level
                           /\ call'[a].step # "idle" <=> call[a].step # "idle"
                           /\ a # o => call'[a] = call[a]
    BY <1>1 DEF IInv, TypeOK, CallSet
  <1>3. \A p : IsSought(p) => IsSought(p)'
    BY <1>1, <1>2 DEF IsSought, Some
  <1>4. call[o].file \in Keys'
    <2>1. call[o].file \in Files /\ call[o].seen \in Versions
      BY <1>1 DEF IInv, TypeOK, CallSet
    <2> QED BY <2>1, InsertKeepsComing DEF OpenInsert
  <1>5. Next
    BY DEF Next, Working, Opener
  <1> QED BY <1>1, <1>2, <1>3, <1>4, <1>5, SeekingGoesOn DEF Openers

(* A search goes up a folder, or ends: at a root for good, at a root too   *)
(* early, or with all the folders searched.                                *)
LEMMA ClimbKeepsSeeking ==
  ASSUME IInv, NEW o \in Openers, Climb(o)
  PROVE  ParentsAreSought'
  <1>0. PICK p, n, above : p = call[o].file /\ n = call[o].level /\ above = Above[PathOf[p].folder]
    OBVIOUS
  <1>1. /\ UNCHANGED <<options, toOpen, job, docs>> /\ call[o].step = "climb"
        /\ call \in [Openers -> CallSet] /\ call[o] \in CallSet
    BY DEF Climb, clientVars, configVars, IInv, TypeOK
  <1>2. Keys' = Keys /\ p \in Files /\ n \in Nat /\ AreLoaded(p, n)
    BY <1>0, <1>1 DEF Keys, CallSet, IInv, TypeOK, ParentsAreSought
  <1>3. Next
    BY DEF Next, Working, Opener
  <1>4. \A q : IsSought(q) => IsSought(q)' \/ q = p
    <2>1. \A a \in Openers \ {o} : call'[a] = call[a]
      <3>1. call' = [call EXCEPT ![o] = Idle] \/ call' = [call EXCEPT ![o].level = @ + 1]
        BY DEF Climb
      <3> QED BY <1>1, <3>1
    <2> QED BY <1>0, <1>1, <2>1 DEF IsSought, Some
  <1>5. CASE n = Len(above) \/ HasParent(docs, Keys, p)
    <2>1. call' = [call EXCEPT ![o] = Idle] /\ EndSearch(p, n # Len(above))
      BY <1>0, <1>5 DEF Climb
    <2>2. call'[o].step = "idle" /\ \A a \in Openers \ {o} : call'[a] = call[a]
      BY <1>1, <2>1 DEF Idle
    <2>3. \A q \in Editable \ {p} : q \in astray => q \in astray'
      BY <2>1 DEF EndSearch
    <2>4. p \in Editable => p \in astray' \/ FoundForGood(p) \/ AreLoaded(p, Len(above))
      <3>1. CASE n = Len(above)
        BY <1>2, <3>1
      <3>2. CASE n # Len(above) /\ ~FoundForGood(p)
        BY <2>1, <3>2 DEF EndSearch
      <3> QED BY <3>1, <3>2
    <2>5. p \in Editable \ toOpen => p \in Keys \/ IsSought(p)'
      <3>1. p \in Editable \ toOpen => p \in Keys \/ (call[Main].step = "insert" /\ call[Main].file = p)
        BY DEF IInv, ParentsAreSought
      <3>2. call[Main].step = "insert" => call'[Main] = call[Main] /\ Main \in Openers
        BY <1>1, <2>2 DEF Openers
      <3> QED BY <3>1, <3>2 DEF IsSought
    <2>6. \A q \in Editable \ toOpen : q \in astray \/ IsSought(q) =>
            \/ q \in astray' \/ IsSought(q)'
            \/ AreLoaded(q, Len(Above[PathOf[q].folder])) \/ (q \in Keys /\ FoundForGood(q))
      <3>1. ASSUME NEW q \in Editable \ toOpen, q \in astray \/ IsSought(q), q # p
            PROVE  q \in astray' \/ IsSought(q)'
        BY <1>4, <2>3, <3>1
      <3>2. p \in Editable \ toOpen =>
              \/ p \in astray' \/ IsSought(p)'
              \/ AreLoaded(p, Len(above)) \/ (p \in Keys /\ FoundForGood(p))
        BY <2>4, <2>5
      <3> QED BY <1>0, <3>1, <3>2
    <2>7. call[Main].step = "insert" => call'[Main] = call[Main]
      BY <1>1, <2>2 DEF Openers
    <2> QED BY <1>1, <1>3, <2>2, <2>6, <2>7, SeekingGoesOn DEF CallIsUp
  <1>6. CASE ~(n = Len(above) \/ HasParent(docs, Keys, p))
    <2>1. /\ call' = [call EXCEPT ![o].level = n + 1] /\ astray' = astray
          /\ loads' = {Load(o, NoFile, f, TRUE) : f \in FilesIn(above[n + 1])} \cup loads
      BY <1>0, <1>6 DEF Climb
    <2>2. /\ call'[o].step = "climb" /\ call'[o].file = p /\ call'[o].level = n + 1
          /\ \A a \in Openers \ {o} : call'[a] = call[a]
      BY <1>0, <1>1, <2>1 DEF CallSet
    <2>3. AreLoaded(p, n + 1)'
      <3> SUFFICES ASSUME NEW i \in 1..n + 1, NEW f \in Files, Language(f) = "latex",
                          PathOf[f].folder = above[i], f \notin Keys
                   PROVE  \E l \in loads' : l.target = f
        BY <1>0, <1>2 DEF AreLoaded
      <3>1. CASE i \in 1..n
        <4>1. \E l \in loads : l.target = f
          BY <1>0, <1>2, <3>1 DEF AreLoaded
        <4> QED BY <2>1, <4>1
      <3>2. CASE i = n + 1
        <4>1. f \in FilesIn(above[n + 1])
          BY <3>2 DEF FilesIn, Keys, IInv, TypeOK
        <4>2. Load(o, NoFile, f, TRUE).target = f
          BY DEF Load
        <4> QED BY <2>1, <4>1, <4>2
      <3> QED BY <1>2, <3>1, <3>2
    <2>4. \A q : IsSought(q) => IsSought(q)'
      <3>1. IsSought(p)'
        BY <2>2 DEF IsSought
      <3> QED BY <1>4, <3>1
    <2>5. CallIsUp(o)'
      BY <2>2, <2>3 DEF CallIsUp
    <2>6. call[Main].step = "insert" => call'[Main] = call[Main]
      BY <1>1, <2>2 DEF Openers
    <2> QED BY <1>1, <1>3, <2>1, <2>2, <2>4, <2>5, <2>6, SeekingGoesOn
  <1> QED BY <1>5, <1>6

(* The client, and the jobs, leave the documents and the loads alone.      *)
LEMMA ConfigKeepsSeeking ==
  ASSUME IInv,
         \/ ClientChanges
         \/ \E p \in Editable : DidOpen(p)
         \/ \E j \in Jobs : DidChangeConfiguration(j) \/ Reply(j) \/ Job(j)
  PROVE  ParentsAreSought'
  <1>1. Next
    BY DEF Next
  <1>2. Main \in Openers /\ Jobs \subseteq Openers
    BY DEF Openers
  <1>3. ASSUME UNCHANGED <<call, toOpen, astray>>,
               options' = options \/ Some({"configured", "watched"})',
               \A p \in Keys : IsSought(p) => IsSought(p)'
        PROVE  ParentsAreSought'
    <2>1. \A p \in Editable \ toOpen : p \notin Keys => IsSought(p)'
      BY <1>2, <1>3 DEF IInv, ParentsAreSought, IsSought
    <2> QED BY <1>1, <1>3, <2>1, SeekingGoesOn
  <1>4. CASE ClientChanges
    <2>1. UNCHANGED <<call, toOpen, astray, options, job>>
      BY <1>4 DEF ClientChanges, configVars
    <2> QED BY <1>3, <2>1 DEF IsSought, Some
  <1>5. ASSUME NEW p \in Editable, DidOpen(p)
        PROVE  ParentsAreSought'
    <2>1. /\ UNCHANGED <<astray, options, job>> /\ toOpen' = toOpen \ {p} /\ call[Main].step = "idle"
          /\ call' = [call EXCEPT ![Main] = StartOpen(p)]
      BY <1>5 DEF DidOpen, At, configVars
    <2>2. /\ call'[Main].step = "insert" /\ call'[Main].file = p /\ call'[Main].level = 0
          /\ \A a \in Openers \ {Main} : call'[a] = call[a]
      BY <1>2, <2>1 DEF StartOpen, Idle, IInv, TypeOK
    <2>3. \A q : IsSought(q) => IsSought(q)'
      BY <2>1, <2>2 DEF IsSought, Some
    <2>4. CallIsUp(Main)'
      BY <2>2, NothingIsAboveZero DEF CallIsUp
    <2> QED BY <1>1, <2>1, <2>2, <2>3, <2>4, SeekingGoesOn
  <1>6. ASSUME NEW j \in Jobs, DidChangeConfiguration(j)
        PROVE  ParentsAreSought'
    <2>1. UNCHANGED <<call, toOpen, astray>> /\ job[j].step = "none"
      BY <1>6 DEF DidChangeConfiguration
    <2>2. CASE pulls
      <3>1. options' = options /\ job' = [job EXCEPT ![j].step = "new"]
        BY <1>6, <2>2 DEF DidChangeConfiguration
      <3>2. \A k \in Jobs \ {j} : job'[k] = job[k]
        BY <3>1 DEF IInv, TypeOK
      <3>3. \A p : IsSought(p) => IsSought(p)'
        BY <2>1, <3>2 DEF IsSought, Some
      <3> QED BY <1>3, <2>1, <3>1, <3>3
    <2>3. CASE ~pulls
      <3>1. job' = [job EXCEPT ![j].step = "watched"]
        BY <1>6, <2>3 DEF DidChangeConfiguration
      <3>2. job'[j].step = "watched"
        BY <3>1 DEF IInv, TypeOK, JobSet
      <3> QED BY <1>3, <2>1, <3>2 DEF IsSought, Some
    <2> QED BY <2>2, <2>3
  <1>7. ASSUME NEW j \in Jobs, Ask(j) \/ Reply(j) \/ JobEnds(j)
        PROVE  ParentsAreSought'
    <2>1. UNCHANGED <<call, toOpen, astray, options>> /\ \A k \in Jobs \ {j} : job'[k] = job[k]
      BY <1>7 DEF Ask, Reply, JobEnds, clientVars, IInv, TypeOK
    <2>2. job[j].step \in {"new", "asked"} \/ (job[j].step = "reparse" /\ job[j].todo = {})
      BY <1>7 DEF Ask, Reply, JobEnds
    <2>3. \A p : IsSought(p) => IsSought(p)'
      BY <2>1, <2>2 DEF IsSought, Some
    <2> QED BY <1>3, <2>1, <2>3
  <1>8. ASSUME NEW j \in Jobs, Configure(j) \/ WatchAux(j)
        PROVE  ParentsAreSought'
    <2>1. UNCHANGED <<call, toOpen, astray>> /\ job[j].step \in {"replied", "configured"}
      BY <1>8 DEF Configure, WatchAux, clientVars
    <2>2. \/ job'[j].step \in {"configured", "watched"}
          \/ job'[j].step = "done" /\ options' = options /\ job[j].step = "replied"
      <3>1. CASE Configure(j)
        BY <3>1, VersionsAreNumbers DEF Configure, IInv, TypeOK, JobSet
      <3>2. CASE WatchAux(j)
        BY <3>2 DEF WatchAux, IInv, TypeOK, JobSet
      <3> QED BY <1>8, <3>1, <3>2
    <2>3. CASE job'[j].step \in {"configured", "watched"}
      BY <1>3, <2>1, <2>3 DEF IsSought, Some
    <2>4. CASE job'[j].step = "done" /\ options' = options /\ job[j].step = "replied"
      <3>1. \A k \in Jobs \ {j} : job'[k] = job[k]
        BY <1>8 DEF Configure, WatchAux, IInv, TypeOK
      <3>2. \A p : IsSought(p) => IsSought(p)'
        BY <2>1, <2>4, <3>1 DEF IsSought, Some
      <3> QED BY <1>3, <2>1, <2>4, <3>2
    <2> QED BY <2>2, <2>3, <2>4
  <1>9. ASSUME NEW j \in Jobs, Collect(j)
        PROVE  ParentsAreSought'
    <2>1. UNCHANGED <<call, toOpen, astray, options>>
      BY <1>9 DEF Collect, clientVars
    <2>2. job'[j].step = "reparse" /\ job'[j].todo = Keys
      BY <1>9 DEF Collect, IInv, TypeOK, JobSet
    <2> QED BY <1>3, <2>1, <2>2 DEF IsSought
  <1>10. ASSUME NEW j \in Jobs, Reopen(j)
         PROVE  ParentsAreSought'
    <2>1. PICK p \in job[j].todo : /\ job' = [job EXCEPT ![j].todo = @ \ {p}]
                                   /\ call' = [call EXCEPT ![j] = StartOpen(p)]
      BY <1>10 DEF Reopen
    <2>2. UNCHANGED <<toOpen, astray, options>> /\ call[j].step = "idle"
      BY <1>10 DEF Reopen, At, clientVars
    <2>3. /\ call'[j].step = "insert" /\ call'[j].file = p /\ call'[j].level = 0
          /\ \A a \in Openers \ {j} : call'[a] = call[a]
      BY <1>2, <2>1 DEF StartOpen, Idle, IInv, TypeOK
    <2>4. /\ job'[j].step = job[j].step /\ job'[j].todo = job[j].todo \ {p}
          /\ \A k \in Jobs \ {j} : job'[k] = job[k]
      BY <2>1 DEF IInv, TypeOK, JobSet
    <2>5. \A q : IsSought(q) => IsSought(q)'
      <3>1. IsSought(p)'
        BY <1>2, <2>3 DEF IsSought
      <3>2. ASSUME NEW q, q # p, IsSought(q)
            PROVE  IsSought(q)'
        BY <2>2, <2>3, <2>4, <3>2 DEF IsSought, Some
      <3> QED BY <3>1, <3>2
    <2>6. CallIsUp(j)'
      BY <2>3, NothingIsAboveZero DEF CallIsUp
    <2>7. call[Main].step = "insert" => call'[Main] = call[Main]
      BY <1>2, <2>2, <2>3
    <2> QED BY <1>1, <2>2, <2>3, <2>5, <2>6, <2>7, SeekingGoesOn
  <1> QED BY <1>4, <1>5, <1>6, <1>7, <1>8, <1>9, <1>10 DEF Job

-----------------------------------------------------------------------------
(* The theorems.                                                           *)

(* No document is there, and the first job is about to pull.               *)
LEMMA InitEstablishesIInv ==
  Init => IInv
  <1> SUFFICES ASSUME Init
               PROVE  IInv
    OBVIOUS
  <1>1. Keys = {}
    BY DEF Init, Keys
  <1>2. TypeOK
    <2>1. Idle \in CallSet /\ Idle.step = "idle"
      BY VersionsAreNumbers DEF Idle, CallSet
    <2>2. \A j \in Jobs : [step |-> IF j = FirstJob THEN "new" ELSE "none", answer |-> 0, todo |-> {}] \in JobSet
      BY VersionsAreNumbers DEF JobSet
    <2>3. job \in [Jobs -> JobSet]
      BY <2>2 DEF Init
    <2>4. notices \in Seq(Versions)
      BY DEF Init
    <2> QED BY <1>1, <2>1, <2>3, <2>4, VersionsAreNumbers DEF Init, TypeOK
  <1>3. job[FirstJob].step = "new" /\ \A j \in Jobs : job[j].todo = {} /\ job[j].step \in {"new", "none"}
    BY FirstIsAJob DEF Init
  <1>4. IsNewestValid(0, 0) /\ Adopted(0) = 0
    BY DefaultIsValid, VersionsAreNumbers DEF IsNewestValid, Adopted
  <1>5. NewestComes
    <2>1. /\ wanted = 0 /\ applied = 0 /\ options = 0 /\ notices = <<>> /\ Len(notices) = 0
          /\ \A j \in Jobs : job[j].answer = 0 /\ job[j].step \in {"new", "none"}
      BY DEF Init
    <2> QED BY <1>4, <2>1 DEF NewestComes, IsOldAnswer
  <1>6. OthersAreReparsed
    BY <1>1, <1>3 DEF OthersAreReparsed
  <1>7. TargetsAreLoaded
    BY <1>1 DEF TargetsAreLoaded
  <1>8. FoldersGetWatched
    BY DefaultIsValid DEF Init, FoldersGetWatched, AuxFolder
  <1>9. ParentsAreSought
    BY DEF Init, ParentsAreSought, Idle
  <1> QED BY <1>2, <1>5, <1>6, <1>7, <1>8, <1>9 DEF IInv

LEMMA ConfigKeepsOptions ==
  ASSUME IInv,
         \/ ClientChanges
         \/ \E p \in Editable : DidOpen(p)
         \/ \E j \in Jobs : DidChangeConfiguration(j) \/ Reply(j) \/ Job(j)
  PROVE  NewestComes'
  <1>1. CASE ClientChanges
    BY <1>1, ClientChangesKeepsOptions
  <1>2. ASSUME NEW p \in Editable, DidOpen(p)
        PROVE  NewestComes'
    BY <1>2, LateStepsKeepOptions DEF DidOpen, configVars, pullVars
  <1>3. ASSUME NEW j \in Jobs, DidChangeConfiguration(j) \/ Reply(j) \/ Ask(j) \/ Configure(j)
        PROVE  NewestComes'
    BY <1>3, NoticeKeepsOptions, ReplyKeepsOptions, AskKeepsOptions, ConfigureKeepsOptions
  <1>4. ASSUME NEW j \in Jobs, WatchAux(j) \/ Collect(j) \/ Reopen(j) \/ JobEnds(j)
        PROVE  NewestComes'
    <2>1. UNCHANGED <<pulls, wanted, notices, options, applied, failed, overtaken>>
      BY <1>4 DEF WatchAux, Collect, Reopen, JobEnds, clientVars, pullVars
    <2>2. \A k \in Jobs \ {j} : job'[k] = job[k]
      BY <1>4 DEF WatchAux, Collect, Reopen, JobEnds, IInv, TypeOK
    <2>3. /\ job[j].step \in {"configured", "watched", "reparse"}
          /\ job'[j].step \in {"watched", "reparse", "done"} /\ job'[j].answer = job[j].answer
      BY <1>4 DEF WatchAux, Collect, Reopen, JobEnds, IInv, TypeOK, JobSet, OthersAreReparsed
    <2> QED BY <2>1, <2>2, <2>3, LateStepsKeepOptions
  <1> QED BY <1>1, <1>2, <1>3, <1>4 DEF Job

LEMMA NextKeepsIInv ==
  ASSUME IInv, [Next]_vars
  PROVE  IInv'
  <1>1. ASSUME \/ ClientChanges
               \/ \E p \in Editable : DidOpen(p)
               \/ \E j \in Jobs : DidChangeConfiguration(j) \/ Reply(j) \/ Job(j)
        PROVE  IInv'
    <2>1. TypeOK'
      BY <1>1, ConfigKeepsTypes DEF IInv
    <2> QED BY <1>1, <2>1, ConfigKeepsOptions, ConfigKeepsReparsing, ConfigKeepsTargets,
                  ConfigKeepsSeeking, ConfigKeepsWatching DEF IInv
  <1>2. ASSUME NEW l \in loads, Loader(l)
        PROVE  IInv'
    <2>1. TypeOK'
      BY <1>2, LoaderKeepsTypes DEF IInv
    <2>2. NewestComes'
      BY <1>2, LateStepsKeepOptions DEF Loader, LoadParse, LoadInsert, clientVars, configVars, pullVars
    <2>3. FoldersGetWatched'
      BY <1>2, WorkingKeepsWatching DEF Working
    <2> QED BY <1>2, <2>1, <2>2, <2>3, LoaderKeepsReparsing, LoaderKeepsTargets,
                  LoaderKeepsSeeking DEF IInv
  <1>3. ASSUME NEW o \in Openers, Opener(o)
        PROVE  IInv'
    <2>1. TypeOK'
      BY <1>3, OpenerKeepsTypes DEF IInv
    <2>2. NewestComes'
      BY <1>3, LateStepsKeepOptions DEF Opener, OpenInsert, Climb, clientVars, configVars, pullVars
    <2>3. FoldersGetWatched'
      BY <1>3, WorkingKeepsWatching DEF Working
    <2> QED BY <1>3, <2>1, <2>2, <2>3, OpenerKeepsReparsing, OpenerKeepsTargets,
                  OpenInsertKeepsSeeking, ClimbKeepsSeeking DEF IInv, Opener
  <1>4. CASE UNCHANGED vars
    <2>1. /\ UNCHANGED <<pulls, wanted, notices, options, docs, watched, refused, toOpen, call, loads>>
          /\ UNCHANGED <<job, applied, failed, overtaken, late, astray>>
      BY <1>4 DEF vars, folderVars, pullVars
    <2>2. TypeOK'
      BY <2>1 DEF IInv, TypeOK, Keys
    <2>3. NewestComes'
      BY <2>1, LateStepsKeepOptions
    <2>4. OthersAreReparsed'
      BY <2>1 DEF IInv, OthersAreReparsed, IsReparsed, Some, Keys
    <2>5. TargetsAreLoaded' /\ FoldersGetWatched'
      BY <2>1, TargetsStayLoaded, WatchingGoesOn DEF IsOpening
    <2>6. ParentsAreSought'
      <3>1. \A p : IsSought(p) => IsSought(p)'
        BY <2>1 DEF IsSought, Some
      <3> QED BY <1>4, <2>1, <3>1, SeekingGoesOn
    <2> QED BY <2>2, <2>3, <2>4, <2>5, <2>6 DEF IInv
  <1> QED BY <1>1, <1>2, <1>3, <1>4 DEF Next, Working

(* What has still to be done is always known to somebody who will do it.   *)
THEOREM IInvIsInvariant ==
  Spec => []IInv
  <1>1. Init => IInv
    BY InitEstablishesIInv
  <1>2. IInv /\ [Next]_vars => IInv'
    BY NextKeepsIInv
  <1> QED BY <1>1, <1>2, PTL DEF Spec

(* The state has its type: what is loaded, opened and reparsed is a file   *)
(* of the project, parsed with a version of the options.                   *)
THEOREM TypeCorrect ==
  Spec => []TypeOK
  <1>1. IInv => TypeOK
    BY DEF IInv
  <1> QED BY <1>1, IInvIsInvariant, PTL

(* However notifications, pulls and replies overlap, and whichever         *)
(* settings cannot be read, the last options in force are those that go    *)
(* with the client's configuration: unless a pull failed after its last    *)
(* change, or the last reply was overtaken by one with newer settings.     *)
THEOREM OptionsAreNewest ==
  Spec => []NewestOptions
  <1>1. IInv => NewestOptions
    <2> SUFFICES ASSUME IInv, Quiet, ~failed, ~overtaken
                 PROVE  ClientsOptions
      BY DEF NewestOptions
    <2>1. /\ ~Some({"new", "asked"}) /\ ~Some({"replied"}) /\ notices = <<>>
          /\ \A j \in Jobs : job[j].step # "replied"
      BY DEF Quiet, Some
    <2>2. pulls => applied = wanted /\ options = Adopted(applied)
      BY <2>1 DEF IInv, NewestComes
    <2>3. ~pulls => IsNewestValid(options, wanted)
      <3>1. Len(notices) = 0 /\ wanted - 0 = wanted
        BY <2>1, NoticesAreNumbers
      <3> QED BY <3>1 DEF IInv, NewestComes
    <2> QED BY <2>2, <2>3 DEF ClientsOptions
  <1> QED BY <1>1, IInvIsInvariant, PTL

(* A document that is not parsed again when the options change was         *)
(* inserted with the ones before them: did_open, load and reparse_all      *)
(* leave no other behind.                                                  *)
THEOREM DocumentsFollowOptions ==
  Spec => []LinksFollowOptions
  <1>1. IInv => LinksFollowOptions
    <2> SUFFICES ASSUME IInv, Quiet, NEW p \in Keys \ late, Language(p) = "latex", docs[p] # options
                 PROVE  FALSE
      BY DEF LinksFollowOptions
    <2>1. \A j \in Jobs : job[j].step \in {"none", "done"} /\ call[j].step = "idle"
      BY DEF Quiet, At, Openers
    <2>2. ~IsReparsed(p)
      BY <2>1 DEF IsReparsed, Some
    <2> QED BY <2>2 DEF IInv, OthersAreReparsed
  <1> QED BY <1>1, IInvIsInvariant, PTL

(* The handler of the ChildrenExpander leaves no target out, whichever     *)
(* thread finds a document already there or half loaded.                   *)
THEOREM TargetsAreThere ==
  Spec => []ProjectIsLoaded
  <1>1. IInv => ProjectIsLoaded
    <2> SUFFICES ASSUME IInv, Quiet, NEW p \in Keys, NEW i \in Followed(p, docs[p]),
                        NEW target \in FirstIn(Lists[p][docs[p]][i], Files), Language(target) # "none"
                 PROVE  target \in Keys
      BY DEF ProjectIsLoaded
    <2>1. p \in Files /\ docs[p] \in Versions
      BY KeysAreDocuments DEF IInv
    <2>2. target \in Children[p][docs[p]]
      BY <2>1, ChildrenAreFiles
    <2>3. loads = {}
      BY DEF Quiet
    <2> QED BY <2>2, <2>3 DEF IInv, TargetsAreLoaded
  <1> QED BY <1>1, IInvIsInvariant, PTL

(* "Watch aux directory by default for changes" holds of the last options, *)
(* although jobs set them and watch their folder in two steps, and of the  *)
(* folders of what the client opens, in whatever order all that happens:   *)
(* what is not watched in the end was refused when it was last tried.      *)
THEOREM FoldersAreAllWatched ==
  Spec => []FoldersAreWatched
  <1>1. IInv => FoldersAreWatched
    <2> SUFFICES ASSUME IInv, Quiet
                 PROVE  AuxFolder(options) \cup {PathOf[p].folder : p \in Editable \ toOpen}
                          \subseteq watched \cup refused
      BY DEF FoldersAreWatched
    <2>1. call[Main].step = "idle" /\ \A j \in Jobs : job[j].step \in {"none", "done"}
      BY DEF Quiet, At, Openers
    <2>2. AuxFolder(options) \subseteq watched \cup refused
      BY <2>1 DEF IInv, FoldersGetWatched, Some
    <2>3. \A p \in Editable \ toOpen : PathOf[p].folder \in watched \cup refused
      BY <2>1 DEF IInv, FoldersGetWatched, IsOpening
    <2> QED BY <2>2, <2>3
  <1> QED BY <1>1, IInvIsInvariant, PTL

-----------------------------------------------------------------------------
(* The documents that are connected, when nothing is under way.            *)

LEMMA LeadNowhere ==
  ASSUME NEW f \in Files, NEW v \in Versions, Language(f) # "latex"
  PROVE  Lists[f][v] = <<>>
  BY DEF Lists

LEMMA ChildrenAreDestinations ==
  ASSUME NEW f \in Files, NEW v \in Versions
  PROVE  Children[f][v] \subseteq Destinations[f][v]
  <1> SUFFICES ASSUME NEW i \in Followed(f, v), NEW g \in FirstIn(Lists[f][v][i], Files)
               PROVE  g \in Destinations[f][v]
    BY DEF Children
  <1>1. i \in DOMAIN Lists[f][v]
    BY DEF Followed
  <1>2. Lists[f][v][i] \in ToSet(Lists[f][v])
    BY <1>1 DEF ToSet
  <1> QED BY <1>2 DEF Destinations

(* A document whose links follow the options is linked with the documents  *)
(* among those its links always lead to.                                   *)
LEMMA DestinationsAreLinked ==
  ASSUME TypeOK, NEW f \in Keys, NEW g \in Keys, Lists[f][docs[f]] = Lists[f][options],
         g \in Destinations[f][options]
  PROVE  << f, g >> \in LinksAmong(docs, Keys)
  <1>1. f \in Files /\ options \in Versions /\ Keys \subseteq Files
    BY KeysAreDocuments DEF TypeOK
  <1>2. PICK targets \in ToSet(Lists[f][docs[f]]) : g \in FirstIn(targets, Files)
    BY <1>1 DEF Destinations
  <1>3. g \in FirstIn(targets, Keys)
    BY <1>1, <1>2 DEF FirstIn
  <1>4. g \in LinksTo(docs, Keys, f)
    BY <1>2, <1>3 DEF LinksTo
  <1> QED BY <1>4 DEF LinksAmong

(* In a settled workspace a document is connected with every root that     *)
(* leads to it: take a set of documents with the one that no link leaves   *)
(* or enters; what the root leads to is not outside of it either.          *)
LEMMA RootThatLeadsIsConnected ==
  ASSUME TypeOK, TargetsAreLoaded, loads = {}, NEW p \in Keys, NEW root \in Keys,
         \A f \in Keys : Lists[f][docs[f]] = Lists[f][options] /\ Children[f][docs[f]] = Children[f][options],
         LeadsTo(root, p)
  PROVE  root \in Subset(docs, Keys, p)
  <1>1. options \in Versions /\ Keys \subseteq Files /\ \A f \in Keys : docs[f] \in Versions
    BY KeysAreDocuments DEF TypeOK
  <1> SUFFICES ASSUME NEW some \in ClosedUnder(LinksAmong(docs, Keys), Keys, p), root \notin some
               PROVE  FALSE
    BY DEF Subset, Connected
  <1>2. p \in some /\ \A e \in LinksAmong(docs, Keys) : e[1] \in some <=> e[2] \in some
    BY DEF ClosedUnder
  <1>3. PICK others : others = (Keys \ some) \cup {f \in Files \ Keys : Language(f) = "none"}
    OBVIOUS
  <1>4. ASSUME NEW q \in others, NEW r \in Children[q][options]
        PROVE  r \in others
    <2>1. q \in Files /\ r \in Files /\ r \in Destinations[q][options]
      BY <1>1, <1>3, ChildrenAreFiles, ChildrenAreDestinations
    <2>2. CASE q \in Keys \ some
      <3>1. r \in Keys => r \notin some
        <4>1. ASSUME r \in Keys
              PROVE  r \notin some
          <5>1. << q, r >> \in LinksAmong(docs, Keys)
            BY <2>1, <2>2, <4>1, DestinationsAreLinked
          <5> QED BY <1>2, <2>2, <5>1
        <4> QED BY <4>1
      <3>2. r \notin Keys => Language(r) = "none"
        BY <2>2 DEF TargetsAreLoaded
      <3> QED BY <1>3, <2>1, <3>1, <3>2
    <2>3. CASE q \notin Keys /\ Language(q) = "none"
      <3>1. Lists[q][options] = <<>>
        BY <1>1, <2>1, <2>3, LeadNowhere
      <3>2. PICK targets \in ToSet(Lists[q][options]) : r \in FirstIn(targets, Files)
        BY <1>1, <2>1 DEF Destinations
      <3> QED BY <3>1, <3>2 DEF ToSet
    <2> QED BY <1>3, <2>2, <2>3
  <1>5. others \subseteq Files /\ root \in others
    BY <1>1, <1>3
  <1>6. p \in others
    BY <1>4, <1>5 DEF LeadsTo
  <1> QED BY <1>2, <1>3, <1>6

(* A document the client opens is connected with a root that leads to it,  *)
(* however many links are between, in which order the folders' documents   *)
(* are loaded, and when the options come: ParentExpander fails only where  *)
(* another root is found too early.                                        *)
THEOREM RootsAreFound ==
  Spec => []ParentIsFound
  <1>1. IInv => ParentIsFound
    <2> SUFFICES ASSUME IInv, Quiet, late = {}, NEW p \in Editable \ (toOpen \cup astray),
                        NEW root \in Files, IsRoot(root),
                        PathOf[root].folder \in ToSet(Above[PathOf[p].folder]), LeadsTo(root, p)
                 PROVE  HasParent(docs, Keys, p)
      BY DEF ParentIsFound
    <2>1. /\ loads = {} /\ call[Main].step = "idle"
          /\ \A j \in Jobs : job[j].step \in {"none", "done"}
          /\ \A o \in Openers : call[o].step = "idle"
      BY DEF Quiet, At, Openers
    <2>2. ~IsSought(p) /\ p \in Keys
      BY <2>1 DEF IsSought, Some, IInv, ParentsAreSought
    <2>3. options \in Versions /\ Keys \subseteq Files /\ \A f \in Keys : docs[f] \in Versions
      BY KeysAreDocuments DEF IInv, TypeOK
    <2>4. ASSUME NEW f \in Keys
          PROVE  Lists[f][docs[f]] = Lists[f][options] /\ Children[f][docs[f]] = Children[f][options]
      <3>1. CASE Language(f) = "latex"
        <4>1. \A j \in Jobs : call[j].step = "idle"
          BY <2>1 DEF Openers
        <4>2. ~IsReparsed(f)
          BY <2>1, <4>1 DEF IsReparsed, Some
        <4>3. docs[f] = options
          BY <3>1, <4>2 DEF IInv, OthersAreReparsed
        <4> QED BY <4>3
      <3>2. CASE Language(f) # "latex"
        <4>1. f \in Files /\ \A v \in Versions : Lists[f][v] = <<>>
          BY <2>3, <3>2, LeadNowhere
        <4>2. \A v \in Versions : Children[f][v] = {}
          BY <4>1 DEF Children, Followed
        <4> QED BY <2>3, <4>1, <4>2
      <3> QED BY <3>1, <3>2
    <2>5. CASE AreLoaded(p, Len(Above[PathOf[p].folder]))
      <3>1. PICK i \in DOMAIN Above[PathOf[p].folder] : PathOf[root].folder = Above[PathOf[p].folder][i]
        BY DEF ToSet
      <3>2. root \in Keys
        BY <2>1, <2>5, <3>1, EditableExist, AboveStartsBelow DEF AreLoaded, IsRoot
      <3>3. root \in Subset(docs, Keys, p)
        BY <2>1, <2>2, <2>4, <3>2, RootThatLeadsIsConnected DEF IInv
      <3> QED BY <3>3 DEF HasParent
    <2>6. CASE FoundForGood(p)
      <3>1. PICK g \in Connected(Keys, LastingLinks, p) : IsRoot(g)
        BY <2>6 DEF FoundForGood
      <3>2. ASSUME NEW some \in ClosedUnder(LinksAmong(docs, Keys), Keys, p)
            PROVE  g \in some
        <4>1. ASSUME NEW e \in LastingLinks
              PROVE  e \in LinksAmong(docs, Keys)
          <5>1. PICK f \in Keys : e \in {f} \X (Destinations[f][options] \cap Keys)
            BY DEF LastingLinks
          <5>2. PICK h \in Destinations[f][options] \cap Keys : e = << f, h >>
            BY <5>1
          <5> QED BY <2>4, <5>2, DestinationsAreLinked DEF IInv
        <4>2. some \in ClosedUnder(LastingLinks, Keys, p)
          BY <4>1 DEF ClosedUnder
        <4> QED BY <3>1, <4>2 DEF Connected
      <3>3. g \in Subset(docs, Keys, p)
        BY <2>2, <3>1, <3>2 DEF Subset, Connected
      <3> QED BY <3>1, <3>3 DEF HasParent
    <2> QED BY <2>2, <2>5, <2>6 DEF IInv, ParentsAreSought
  <1> QED BY <1>1, IInvIsInvariant, PTL
=============================================================================
