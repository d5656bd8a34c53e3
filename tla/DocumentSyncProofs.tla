------------------------- MODULE DocumentSyncProofs -------------------------
(***************************************************************************)
(* Proofs about DocumentSync, for any sets of files and any bounds on      *)
(* texts, notifications and runs of reparse_all.                           *)
(***************************************************************************)
EXTENDS DocumentSync, TLAPS

-----------------------------------------------------------------------------
(* About the wire.                                                         *)

(* What holds of the wire and the buffers holds after any step that leaves *)
(* both alone.                                                             *)
LEMMA WireStays ==
  ASSUME UNCHANGED <<wire, buffer>>
  PROVE  /\ WireFits => WireFits'
         /\ \A f \in Edited : KnownOpen(f)' <=> KnownOpen(f)
         /\ \A f \in Edited : \A text : IsEditors(f, text)' <=> IsEditors(f, text)
  <1>1. \A f, i, k :
        /\ NoneBetween(f, i, k)' <=> NoneBetween(f, i, k)
        /\ First(f, k)' <=> First(f, k)
        /\ Last(f, k)' <=> Last(f, k)
        /\ InWire(f)' <=> InWire(f)
    BY DEF NoneBetween, First, Last, InWire
  <1>2. WireFits => WireFits'
    BY DEF WireFits, Fits, Last, NoneBetween
  <1> QED BY <1>1, <1>2 DEF KnownOpen, IsEditors

(* What is to be shown of a new wire.                                      *)
LEMMA NextWireFits ==
  ASSUME \A i \in DOMAIN wire' : wire'[i].kind = "close" <=> wire'[i].text = Absent,
         ASSUME NEW i \in DOMAIN wire', NEW k \in DOMAIN wire', NEW f,
                i < k, wire'[i].file = f, wire'[k].file = f, NoneBetween(f, i, k)'
         PROVE  Fits(wire'[i].text, wire'[k]),
         \A f \in Edited, i \in DOMAIN wire' : Last(f, i)' => buffer'[f] = wire'[i].text
  PROVE  WireFits'
  BY DEF WireFits, Fits, NoneBetween, Last

(* A notification that fits the text in the editor: the ones before it     *)
(* still fit, and what the server knows does not change.                   *)
LEMMA Sending ==
  ASSUME TextsTyped, WireFits,
         NEW f \in Edited, NEW m \in MessageSet, m.file = f, Fits(buffer[f], m),
         buffer' = [buffer EXCEPT ![f] = m.text], Send(m)
  PROVE  /\ wire' \in Seq(MessageSet)
         /\ WireFits'
         /\ \A g \in Edited : KnownOpen(g)' => KnownOpen(g)
         /\ \A g \in Edited : \A text : KnownOpen(g)' /\ IsEditors(g, text) => IsEditors(g, text)'
  <1>0. PICK n \in Nat : n = Len(wire)
    BY DEF TextsTyped
  <1>1. /\ n = Len(wire)
        /\ DOMAIN wire = 1..n
        /\ wire' \in Seq(MessageSet)
        /\ DOMAIN wire' = 1..(n + 1)
        /\ Len(wire') = n + 1
        /\ \A i \in 1..n : wire'[i] = wire[i]
        /\ wire'[n + 1] = m
        /\ \A i \in 1..n : wire[i] \in MessageSet
    BY <1>0 DEF TextsTyped, Send
  <1>2. \A g \in Edited : buffer'[g] = IF g = f THEN m.text ELSE buffer[g]
    BY DEF TextsTyped
  <1>3. \A g \in Edited : InWire(g)' <=> InWire(g) \/ g = f
    <2>1. \A g \in Edited : InWire(g)' <=> \E i \in 1..(n + 1) : wire'[i].file = g
      BY <1>1 DEF InWire
    <2>2. \A g \in Edited : InWire(g) <=> \E i \in 1..n : wire[i].file = g
      BY <1>1 DEF InWire
    <2> QED BY <1>1, <2>1, <2>2
  <1>4. \A g \in Edited, k \in 1..n : First(g, k)' <=> First(g, k)
    BY <1>1 DEF First, NoneBetween
  <1>5. \A g \in Edited : First(g, n + 1)' <=> g = f /\ ~InWire(f)
    BY <1>1 DEF First, NoneBetween, InWire
  <1>6. \A g \in Edited : \A k \in 1..n : First(g, k) => InWire(g)
    BY <1>1 DEF First, InWire
  <1>7. WireFits'
    <2>1. \A i \in DOMAIN wire' : wire'[i].kind = "close" <=> wire'[i].text = Absent
      <3>1. \A i \in 1..n : wire[i].kind = "close" <=> wire[i].text = Absent
        BY <1>1 DEF WireFits
      <3>2. m.kind = "close" <=> m.text = Absent
        BY DEF Fits
      <3> QED BY <1>1, <3>1, <3>2
    <2>2. ASSUME NEW i \in DOMAIN wire', NEW k \in DOMAIN wire',
                 NEW g, i < k, wire'[i].file = g, wire'[k].file = g, NoneBetween(g, i, k)'
          PROVE  Fits(wire'[i].text, wire'[k])
      <3>1. i \in 1..n
        BY <1>1, <2>2
      <3>2. CASE k \in 1..n
        <4>1. NoneBetween(g, i, k)
          BY <1>1, <2>2, <3>1, <3>2 DEF NoneBetween
        <4> QED BY <1>1, <2>2, <3>1, <3>2, <4>1 DEF WireFits
      <3>3. CASE k = n + 1
        <4>1. wire[i].file = f
          BY <1>1, <2>2, <3>1, <3>3
        <4>2. Last(f, i)
          BY <1>1, <2>2, <3>1, <3>3, <4>1 DEF Last, NoneBetween
        <4>3. buffer[f] = wire[i].text
          BY <1>1, <3>1, <4>2 DEF WireFits
        <4> QED BY <1>1, <3>1, <3>3, <4>3
      <3> QED BY <1>1, <3>2, <3>3
    <2>3. ASSUME NEW g \in Edited, NEW i \in DOMAIN wire', Last(g, i)'
          PROVE  buffer'[g] = wire'[i].text
      <3>1. CASE i = n + 1
        BY <1>1, <1>2, <2>3, <3>1 DEF Last
      <3>2. CASE i \in 1..n
        <4>1. g # f
          BY <1>1, <2>3, <3>2 DEF Last, NoneBetween
        <4>2. Last(g, i)
          BY <1>1, <2>3, <3>2 DEF Last, NoneBetween
        <4> QED BY <1>1, <1>2, <3>2, <4>1, <4>2 DEF WireFits
      <3> QED BY <1>1, <3>1, <3>2
    <2> QED BY <2>1, <2>2, <2>3, NextWireFits
  <1>8. ASSUME NEW g \in Edited, KnownOpen(g)'
        PROVE  KnownOpen(g) /\ \A text : IsEditors(g, text) => IsEditors(g, text)'
    <2>1. CASE g = f
      <3>1. InWire(f)'
        BY <1>3
      <3>2. PICK k \in 1..(n + 1) : First(f, k)' /\ wire'[k].kind # "open"
        BY <1>1, <1>8, <2>1, <3>1 DEF KnownOpen
      <3>3. CASE InWire(f)
        <4>1. k \in 1..n
          BY <1>1, <1>5, <3>2, <3>3
        <4>2. KnownOpen(f)
          BY <1>1, <1>4, <3>2, <4>1 DEF KnownOpen
        <4>3. ASSUME NEW text, IsEditors(f, text) PROVE IsEditors(f, text)'
          <5>1. ASSUME NEW j \in DOMAIN wire', First(f, j)', wire'[j].kind = "change"
                PROVE  wire'[j].base \in {text, Absent}
            <6>1. j \in 1..n
              BY <1>1, <1>5, <3>3, <5>1
            <6> QED BY <1>1, <1>4, <4>3, <5>1, <6>1 DEF IsEditors
          <5> QED BY <3>1, <5>1 DEF IsEditors
        <4> QED BY <2>1, <4>2, <4>3
      <3>4. CASE ~InWire(f)
        <4>1. k = n + 1
          BY <1>1, <1>4, <1>6, <3>2, <3>4
        <4>2. buffer[f] # Absent
          BY <1>1, <3>2, <4>1 DEF Fits
        <4>3. ASSUME NEW text, IsEditors(f, text) PROVE IsEditors(f, text)'
          <5>1. ASSUME NEW j \in DOMAIN wire', First(f, j)', wire'[j].kind = "change"
                PROVE  wire'[j].base \in {text, Absent}
            <6>1. j = n + 1
              BY <1>1, <1>4, <1>6, <3>4, <5>1
            <6>2. buffer[f] = text
              BY <3>4, <4>3 DEF IsEditors
            <6> QED BY <1>1, <5>1, <6>1, <6>2 DEF Fits
          <5> QED BY <3>1, <5>1 DEF IsEditors
        <4> QED BY <2>1, <3>4, <4>2, <4>3 DEF KnownOpen
      <3> QED BY <3>3, <3>4
    <2>2. CASE g # f
      <3>1. InWire(g)' <=> InWire(g)
        BY <1>3, <2>2
      <3>2. \A k \in 1..(n + 1) : First(g, k)' => k \in 1..n /\ First(g, k)
        BY <1>1, <1>4, <1>5, <2>2
      <3>3. KnownOpen(g)
        BY <1>1, <1>2, <1>8, <2>2, <3>1, <3>2 DEF KnownOpen
      <3>4. ASSUME NEW text, IsEditors(g, text) PROVE IsEditors(g, text)'
        BY <1>1, <1>2, <2>2, <3>1, <3>2, <3>4 DEF IsEditors
      <3> QED BY <3>3, <3>4
    <2> QED BY <2>1, <2>2
  <1> QED BY <1>1, <1>7, <1>8

(* Taking the next notification, m: the one after m about the same file    *)
(* fits the text of m.                                                     *)
LEMMA Taking ==
  ASSUME TextsTyped, WireFits, wire # <<>>, wire' = Tail(wire), UNCHANGED buffer,
         NEW m, m = Head(wire), NEW f, f = m.file
  PROVE  /\ wire' \in Seq(MessageSet)
         /\ WireFits'
         /\ m \in MessageSet
         /\ m.kind = "close" <=> m.text = Absent
         /\ 1 \in DOMAIN wire /\ wire[1] = m /\ First(f, 1)
         /\ IsEditors(f, m.text)'
         /\ m.kind = "close" => ~KnownOpen(f)'
         /\ \A g \in Edited : g # f =>
              /\ KnownOpen(g)' => KnownOpen(g)
              /\ \A text : IsEditors(g, text) => IsEditors(g, text)'
  <1>1. PICK n \in Nat : n = Len(wire)
    BY DEF TextsTyped
  <1>4. /\ n > 0
        /\ DOMAIN wire = 1..n
        /\ Len(wire) = n
        /\ wire' \in Seq(MessageSet)
        /\ DOMAIN wire' = 1..(n - 1)
        /\ Len(wire') = n - 1
        /\ \A i \in 1..(n - 1) : wire'[i] = wire[i + 1]
        /\ wire[1] = m
        /\ m \in MessageSet
    BY <1>1 DEF TextsTyped
  <1>5. m.kind = "close" <=> m.text = Absent
    BY <1>4 DEF WireFits
  <1>6. First(f, 1)
    BY <1>4 DEF First, NoneBetween
  <1>7. f \in Edited
    BY <1>4 DEF MessageSet
  <1>8. \A g : \A i \in 1..(n - 1), k \in 1..n : NoneBetween(g, i, k)' <=> NoneBetween(g, i + 1, k + 1)
    <2> SUFFICES ASSUME NEW g, NEW i \in 1..(n - 1), NEW k \in 1..n
                 PROVE  NoneBetween(g, i, k)' <=> NoneBetween(g, i + 1, k + 1)
      OBVIOUS
    <2>1. ASSUME NoneBetween(g, i, k)', NEW j \in DOMAIN wire, i + 1 < j, j < k + 1
          PROVE  wire[j].file # g
      <3>1. j - 1 \in 1..(n - 1) /\ i < j - 1 /\ j - 1 < k
        BY <1>4, <2>1
      <3>2. wire'[j - 1] = wire[j]
        BY <1>4, <3>1
      <3> QED BY <1>4, <2>1, <3>1, <3>2 DEF NoneBetween
    <2>2. ASSUME NoneBetween(g, i + 1, k + 1), NEW j \in DOMAIN wire', i < j, j < k
          PROVE  wire'[j].file # g
      <3>1. j + 1 \in 1..n /\ i + 1 < j + 1 /\ j + 1 < k + 1 /\ wire'[j] = wire[j + 1]
        BY <1>4, <2>2
      <3> QED BY <1>4, <2>2, <3>1 DEF NoneBetween
    <2> QED BY <2>1, <2>2 DEF NoneBetween
  <1>9. WireFits'
    <2>1. \A i \in DOMAIN wire' : wire'[i].kind = "close" <=> wire'[i].text = Absent
      BY <1>4 DEF WireFits
    <2>2. ASSUME NEW i \in DOMAIN wire', NEW k \in DOMAIN wire',
                 NEW g, i < k, wire'[i].file = g, wire'[k].file = g, NoneBetween(g, i, k)'
          PROVE  Fits(wire'[i].text, wire'[k])
      <3>1. NoneBetween(g, i + 1, k + 1)
        BY <1>4, <1>8, <2>2
      <3>2. /\ i + 1 \in DOMAIN wire /\ k + 1 \in DOMAIN wire /\ i + 1 < k + 1
            /\ wire'[i] = wire[i + 1] /\ wire'[k] = wire[k + 1]
        BY <1>4, <2>2
      <3> QED BY <2>2, <3>1, <3>2 DEF WireFits
    <2>3. ASSUME NEW g \in Edited, NEW i \in DOMAIN wire', Last(g, i)'
          PROVE  buffer'[g] = wire'[i].text
      <3>1. NoneBetween(g, i, n)'
        BY <1>4, <2>3 DEF Last, NoneBetween
      <3>2. NoneBetween(g, i + 1, n + 1)
        BY <1>4, <1>8, <2>3, <3>1
      <3>3. i + 1 \in DOMAIN wire /\ Last(g, i + 1) /\ wire'[i] = wire[i + 1]
        BY <1>4, <2>3, <3>2 DEF Last
      <3>4. buffer[g] = wire[i + 1].text
        BY <3>3 DEF WireFits
      <3> QED BY <3>3, <3>4
    <2> QED BY <2>1, <2>2, <2>3, NextWireFits
  <1>10. ASSUME NEW k \in DOMAIN wire', First(f, k)'
         PROVE  Fits(m.text, wire'[k])
    <2>1. ASSUME NEW j \in DOMAIN wire, 1 < j, j < k + 1 PROVE wire[j].file # f
      <3>1. j - 1 \in DOMAIN wire' /\ 0 < j - 1 /\ j - 1 < k /\ wire'[j - 1] = wire[j]
        BY <1>4, <1>10, <2>1
      <3> QED BY <1>10, <3>1 DEF First, NoneBetween
    <2>2. NoneBetween(f, 1, k + 1)
      BY <2>1 DEF NoneBetween
    <2>3. /\ k + 1 \in DOMAIN wire /\ 1 \in DOMAIN wire /\ 1 < k + 1
          /\ wire'[k] = wire[k + 1] /\ wire[k + 1].file = f
      BY <1>4, <1>10 DEF First
    <2> QED BY <1>4, <2>2, <2>3 DEF WireFits
  <1>11. ASSUME ~InWire(f)' PROVE buffer[f] = m.text
    <2>1. ASSUME NEW j \in DOMAIN wire, 1 < j PROVE wire[j].file # f
      <3>1. j - 1 \in DOMAIN wire' /\ wire'[j - 1] = wire[j]
        BY <1>4, <2>1
      <3> QED BY <1>11, <3>1 DEF InWire
    <2>2. Last(f, 1)
      BY <1>4, <2>1 DEF Last, NoneBetween
    <2> QED BY <1>4, <1>7, <2>2 DEF WireFits
  <1>12. IsEditors(f, m.text)'
    BY <1>10, <1>11 DEF IsEditors, Fits
  <1>13. ASSUME m.kind = "close" PROVE ~KnownOpen(f)'
    BY <1>5, <1>10, <1>11, <1>13 DEF KnownOpen, Fits, First
  <1>14. ASSUME NEW g \in Edited, g # f
         PROVE  /\ KnownOpen(g)' => KnownOpen(g)
                /\ \A text : IsEditors(g, text) => IsEditors(g, text)'
    <2>1. InWire(g)' <=> InWire(g)
      <3>1. ASSUME NEW i \in DOMAIN wire, wire[i].file = g PROVE InWire(g)'
        <4>0. i # 1
          BY <1>4, <1>14, <3>1
        <4>1. i - 1 \in DOMAIN wire' /\ wire'[i - 1] = wire[i]
          BY <1>4, <4>0
        <4> QED BY <3>1, <4>1 DEF InWire
      <3>2. ASSUME NEW i \in DOMAIN wire', wire'[i].file = g PROVE InWire(g)
        BY <1>4, <3>2 DEF InWire
      <3> QED BY <3>1, <3>2 DEF InWire
    <2>2. ASSUME NEW k \in DOMAIN wire', First(g, k)'
          PROVE  k + 1 \in DOMAIN wire /\ First(g, k + 1) /\ wire'[k] = wire[k + 1]
      <3>1. ASSUME NEW j \in DOMAIN wire, 0 < j, j < k + 1 PROVE wire[j].file # g
        <4>1. CASE j = 1
          BY <1>4, <1>14, <4>1
        <4>2. CASE j # 1
          <5>1. j - 1 \in DOMAIN wire' /\ 0 < j - 1 /\ j - 1 < k /\ wire'[j - 1] = wire[j]
            BY <1>4, <2>2, <3>1, <4>2
          <5> QED BY <2>2, <5>1 DEF First, NoneBetween
        <4> QED BY <4>1, <4>2
      <3> QED BY <1>4, <2>2, <3>1 DEF First, NoneBetween
    <2>3. KnownOpen(g)' => KnownOpen(g)
      BY <2>1, <2>2 DEF KnownOpen, First
    <2>4. \A text : IsEditors(g, text) => IsEditors(g, text)'
      BY <2>1, <2>2 DEF IsEditors
    <2> QED BY <2>3, <2>4
  <1> QED BY <1>4, <1>5, <1>6, <1>9, <1>12, <1>13, <1>14

-----------------------------------------------------------------------------
(* About the threads' jobs.                                                *)

(* A thread that is idle does nothing else.                                *)
LEMMA IdleIsNoWork ==
  /\ Idle \notin WorkSet
  /\ \A j \in WorkSet : j # Idle /\ j.stage \in {"checked", "read", "stored"}
  <1>1. Idle.stage = "idle" /\ \A j \in WorkSet : j.stage \in {"checked", "read", "stored"}
    BY DEF Idle, WorkSet
  <1> QED BY <1>1

(* MakeLate sets the flag of the threads at work on f, and changes nothing *)
(* else of what the threads are doing.                                     *)
LEMMA MakeLateShape ==
  ASSUME NEW jobs \in [Threads -> WorkSet \cup {Idle}], NEW f, NEW threads
  PROVE  LET lates == MakeLate(jobs, f, threads) IN
         /\ lates \in [Threads -> WorkSet \cup {Idle}]
         /\ \A th \in Threads :
              /\ lates[th] # Idle <=> jobs[th] # Idle
              /\ jobs[th] # Idle =>
                   /\ lates[th].stage = jobs[th].stage
                   /\ lates[th].file = jobs[th].file
                   /\ lates[th].text = jobs[th].text
                   /\ ~lates[th].late => ~jobs[th].late /\ (th \in threads => jobs[th].file # f)
              /\ jobs[th] # Idle /\ (th \notin threads \/ jobs[th].file # f) => lates[th] = jobs[th]
  <1> DEFINE lates == MakeLate(jobs, f, threads)
  <1>1. ASSUME NEW th \in Threads
        PROVE  /\ lates[th] \in WorkSet \cup {Idle}
               /\ lates[th] # Idle <=> jobs[th] # Idle
               /\ jobs[th] # Idle =>
                    /\ lates[th].stage = jobs[th].stage
                    /\ lates[th].file = jobs[th].file
                    /\ lates[th].text = jobs[th].text
                    /\ ~lates[th].late => ~jobs[th].late /\ (th \in threads => jobs[th].file # f)
               /\ jobs[th] # Idle /\ (th \notin threads \/ jobs[th].file # f) => lates[th] = jobs[th]
    <2>1. lates[th] = IF th \in threads /\ jobs[th] # Idle /\ jobs[th].file = f
                        THEN [jobs[th] EXCEPT !.late = TRUE] ELSE jobs[th]
      BY DEF MakeLate
    <2>2. CASE th \in threads /\ jobs[th] # Idle /\ jobs[th].file = f
      <3>1. jobs[th] \in WorkSet
        BY <2>2
      <3>2. lates[th] = [jobs[th] EXCEPT !.late = TRUE]
        BY <2>1, <2>2
      <3>3. lates[th] \in WorkSet /\ lates[th].stage = jobs[th].stage
            /\ lates[th].file = jobs[th].file /\ lates[th].text = jobs[th].text /\ lates[th].late
        BY <3>1, <3>2 DEF WorkSet
      <3> QED BY <2>2, <3>3, IdleIsNoWork
    <2>3. CASE ~ (th \in threads /\ jobs[th] # Idle /\ jobs[th].file = f)
      BY <2>1, <2>3
    <2> QED BY <2>2, <2>3
  <1>2. lates \in [Threads -> WorkSet \cup {Idle}]
    BY <1>1 DEF MakeLate
  <1> QED BY <1>1, <1>2

-----------------------------------------------------------------------------
(* SyncInv: all of the inductive invariant but what is about watching.     *)

(* Nothing is open, loaded or on its way.                                  *)
LEMMA InitEstablishesSyncInv == Init => SyncInv
  <1> SUFFICES ASSUME Init PROVE SyncInv
    OBVIOUS
  <1> USE DEF Init
  <1>1. TextsTyped
    <2>1. 0 \in Texts /\ Nothing \in SnapshotSet /\ reparses \in 0..Reparses
      BY BoundsAreNat DEF Texts, Nothing, SnapshotSet
    <2>2. wire \in Seq(MessageSet)
      OBVIOUS
    <2> QED BY <2>1, <2>2 DEF TextsTyped
  <1>2. DOMAIN wire = {}
    OBVIOUS
  <1>3. WireFits
    BY <1>2 DEF WireFits
  <1>4. \A f \in Edited : ~KnownOpen(f)
    BY <1>2 DEF KnownOpen
  <1>5. KnownIsOpened /\ ServerInStep
    BY <1>4 DEF KnownIsOpened, ServerInStep
  <1>6. \A th \in Threads : job[th] = Idle
    OBVIOUS
  <1>7. MainWritesEdited /\ LateIsMarked
    <2>1. job["main"] = Idle /\ job["watcher"] = Idle /\ job["loader"] = Idle /\ job["reparser"] = Idle
      BY DEF Threads
    <2>2. Idle.stage # "read"
      BY DEF Idle
    <2>3. \A f \in Files : snapshot[f].text = Absent
      BY DEF Nothing
    <2> QED BY <2>1, <2>2, <2>3 DEF MainWritesEdited, LateIsMarked
  <1>8. LogsHaveEvents
    BY <1>6 DEF LogsHaveEvents, AtWork, Files, Threads
  <1> QED BY <1>1, <1>3, <1>5, <1>7, <1>8 DEF SyncInv

(* The editor sends a notification: f is open or closed there, and nothing *)
(* changes in the server.                                                  *)
LEMMA SendingKeepsSyncInv ==
  ASSUME SyncInv, NEW f \in Edited, NEW m \in MessageSet, m.file = f, Fits(buffer[f], m),
         buffer' = [buffer EXCEPT ![f] = m.text], Send(m),
         last' \in Texts, UNCHANGED <<disk, events, serverVars, snapshot, reparses, missed>>
  PROVE  SyncInv'
  <1>1. TextsTyped /\ WireFits
    BY DEF SyncInv
  <1>2. /\ wire' \in Seq(MessageSet)
        /\ WireFits'
        /\ \A g \in Edited : KnownOpen(g)' => KnownOpen(g)
        /\ \A g \in Edited : \A text : KnownOpen(g)' /\ IsEditors(g, text) => IsEditors(g, text)'
    BY <1>1, Sending
  <1> USE DEF serverVars
  <1>3. TextsTyped'
    <2>1. buffer' \in [Edited -> Texts \cup {Absent}]
      BY <1>1 DEF TextsTyped, MessageSet
    <2> QED BY <1>1, <1>2, <2>1 DEF TextsTyped
  <1>4. \A g \in Edited : Handled(g)' = Handled(g) /\ (AtWork("main", g)' <=> AtWork("main", g))
    BY DEF Handled, AtWork
  <1>5. KnownIsOpened'
    BY <1>2, <1>4 DEF SyncInv, KnownIsOpened
  <1>6. ServerInStep'
    BY <1>2, <1>4 DEF SyncInv, ServerInStep
  <1>7. MainWritesEdited' /\ LateIsMarked' /\ LogsHaveEvents'
    BY DEF SyncInv, MainWritesEdited, LateIsMarked, LogsHaveEvents, AtWork
  <1> QED BY <1>2, <1>3, <1>5, <1>6, <1>7 DEF SyncInv

LEMMA EditorOpenKeepsSyncInv ==
  ASSUME SyncInv, NEW f \in Edited, EditorOpen(f)
  PROVE  SyncInv'
  <1> USE DEF EditorOpen, watchVars
  <1> DEFINE m == Message("open", f, Absent, disk[f])
  <1>1. disk[f] \in Texts /\ disk[f] # Absent /\ last \in Texts
    BY NoTextIsANumber DEF SyncInv, TextsTyped, Files, Texts
  <1>2. m \in MessageSet /\ m.file = f /\ m.text = disk[f]
    BY <1>1 DEF Message, MessageSet
  <1>3. Fits(buffer[f], m)
    BY <1>1 DEF Fits, Message
  <1> QED BY <1>1, <1>2, <1>3, SendingKeepsSyncInv

LEMMA EditorChangeKeepsSyncInv ==
  ASSUME SyncInv, NEW f \in Edited, EditorChange(f)
  PROVE  SyncInv'
  <1> USE DEF EditorChange, watchVars
  <1>1. PICK base \in {buffer[f], Absent} : Send(Message("change", f, base, last + 1))
    OBVIOUS
  <1> DEFINE m == Message("change", f, base, last + 1)
  <1>2. last + 1 \in Texts /\ last + 1 # Absent
    BY BoundsAreNat, NoTextIsANumber DEF SyncInv, TextsTyped, Texts
  <1>3. buffer[f] \in Texts \cup {Absent}
    BY DEF SyncInv, TextsTyped
  <1>4. m \in MessageSet /\ m.file = f /\ m.text = last + 1
    BY <1>2, <1>3 DEF Message, MessageSet
  <1>5. Fits(buffer[f], m)
    BY <1>2 DEF Fits, Message
  <1> QED BY <1>1, <1>2, <1>4, <1>5, SendingKeepsSyncInv

LEMMA EditorCloseKeepsSyncInv ==
  ASSUME SyncInv, NEW f \in Edited, EditorClose(f)
  PROVE  SyncInv'
  <1> USE DEF EditorClose, watchVars
  <1> DEFINE m == Message("close", f, Absent, Absent)
  <1>1. m \in MessageSet /\ m.file = f /\ m.text = Absent
    BY DEF Message, MessageSet
  <1>2. Fits(buffer[f], m)
    BY DEF Fits, Message
  <1>3. last' \in Texts
    BY DEF SyncInv, TextsTyped
  <1> QED BY <1>1, <1>2, <1>3, SendingKeepsSyncInv

(* A file is written to disk, by the editor or by another program: there   *)
(* is an event for the watcher, nothing is known of the file yet, or the   *)
(* change is missed.                                                       *)
LEMMA WritingKeepsSyncInv ==
  ASSUME SyncInv, EventsAreWatched, NEW f \in Files, NEW t \in Texts, Modify(f, t),
         f \in Logs /\ FolderOf[f] \notin watched /\ Known(f) => f \in missed', missed \subseteq missed',
         last' \in Texts, UNCHANGED <<buffer, wire, serverVars, snapshot, reparses>>
  PROVE  SyncInv'
  <1> USE DEF serverVars
  <1>0. disk' = [disk EXCEPT ![f] = t] /\ events' \in {events, events \cup {f}}
    BY DEF Modify
  <1>1. TextsTyped'
    BY <1>0 DEF SyncInv, TextsTyped
  <1>2. /\ WireFits'
        /\ \A g \in Edited : KnownOpen(g)' <=> KnownOpen(g)
        /\ \A g \in Edited : \A text : IsEditors(g, text)' <=> IsEditors(g, text)
    BY WireStays DEF SyncInv
  <1>3. KnownIsOpened' /\ ServerInStep'
    BY <1>2 DEF SyncInv, KnownIsOpened, ServerInStep, Handled, AtWork
  <1>4. MainWritesEdited' /\ LateIsMarked'
    BY DEF SyncInv, MainWritesEdited, LateIsMarked
  <1>5. LogsHaveEvents'
    <2> SUFFICES ASSUME NEW g \in Logs, g \notin events'
                 PROVE  /\ AtWork("watcher", g) /\ job["watcher"].stage = "read"
                           => job["watcher"].text = disk'[g]
                        /\ ~AtWork("watcher", g) /\ g \notin missed' =>
                             /\ g \notin tainted => docs[g] \in {Absent, disk'[g]}
                             /\ AtWork("loader", g) /\ job["loader"].stage = "read"
                                  /\ ~job["loader"].late => job["loader"].text = disk'[g]
      BY DEF LogsHaveEvents, AtWork
    <2>1. g \in Files /\ g \notin events
      BY <1>0 DEF Files
    <2>2. CASE g # f
      <3>1. disk'[g] = disk[g]
        BY <1>0, <2>1, <2>2 DEF SyncInv, TextsTyped
      <3> QED BY <2>1, <3>1 DEF SyncInv, LogsHaveEvents
    <2>3. CASE g = f
      <3>1. FolderOf[f] \notin watched
        BY <2>1, <2>3 DEF Modify
      <3>2. ~AtWork("watcher", g)
        BY <2>1, <2>3, <3>1 DEF EventsAreWatched
      <3>3. g \notin missed' => ~Known(f)
        BY <2>3, <3>1
      <3>4. ~Known(f) => docs[f] = Absent /\ ~(AtWork("loader", f) /\ job["loader"].stage = "read")
        BY DEF Known, AtWork, Threads
      <3> QED BY <2>3, <3>2, <3>3, <3>4
    <2> QED BY <2>2, <2>3
  <1> QED BY <1>1, <1>2, <1>3, <1>4, <1>5 DEF SyncInv

LEMMA EditorSaveKeepsSyncInv ==
  ASSUME SyncInv, EventsAreWatched, NEW f \in Edited, EditorSave(f)
  PROVE  SyncInv'
  <1> USE DEF EditorSave
  <1>1. buffer[f] \in Texts /\ last' \in Texts /\ f \in Files /\ f \notin Logs
    BY FileKindsDiffer DEF SyncInv, TextsTyped, Files
  <1> QED BY <1>1, WritingKeepsSyncInv DEF watchVars

LEMMA WriteDiskKeepsSyncInv ==
  ASSUME SyncInv, EventsAreWatched, NEW f \in Files, WriteDisk(f)
  PROVE  SyncInv'
  <1> USE DEF WriteDisk
  <1>1. last + 1 \in Texts
    BY BoundsAreNat DEF SyncInv, TextsTyped, Texts
  <1>2. /\ f \in Logs /\ FolderOf[f] \notin watched /\ Known(f) => f \in missed'
        /\ missed \subseteq missed'
    BY FileKindsDiffer
  <1> QED BY <1>1, <1>2, WritingKeepsSyncInv

(* The insertion of Storage::open: the other threads that are at work on   *)
(* the file are late from now on, and an insertion that is late itself     *)
(* taints the file.                                                        *)
LEMMA StoreKeepsSyncInv ==
  ASSUME SyncInv, NEW th \in Threads, Store(th)
  PROVE  SyncInv'
  <1>0. PICK f : f = job[th].file
    OBVIOUS
  <1>1. /\ TextsTyped
        /\ job \in [Threads -> WorkSet \cup {Idle}]
        /\ job[th] \in WorkSet /\ job[th] # Idle /\ job[th].stage = "read"
        /\ f \in Files /\ job[th].text \in Texts \cup {Absent, Garbled}
    <2>1. Idle.stage # "read"
      BY DEF Idle
    <2> QED BY <1>0, <2>1 DEF SyncInv, TextsTyped, WorkSet, Store
  <1>2. PICK lates : lates = MakeLate(job, f, Threads \ {th})
    OBVIOUS
  <1>3. PICK mine :
          mine = IF th \in {"main", "reparser"} THEN [job[th] EXCEPT !.stage = "stored"] ELSE Idle
    OBVIOUS
  <1>4. job' = [lates EXCEPT ![th] = mine]
    BY <1>0, <1>2, <1>3 DEF Store
  <1>5. /\ mine \in WorkSet \cup {Idle}
        /\ th \in {"main", "reparser"} => /\ mine # Idle /\ mine.stage = "stored"
                                          /\ mine.file = f /\ mine.text = job[th].text
        /\ th \notin {"main", "reparser"} => mine = Idle
    <2>1. [job[th] EXCEPT !.stage = "stored"] \in WorkSet
      BY <1>1 DEF WorkSet
    <2>2. /\ [job[th] EXCEPT !.stage = "stored"].stage = "stored"
          /\ [job[th] EXCEPT !.stage = "stored"].file = f
          /\ [job[th] EXCEPT !.stage = "stored"].text = job[th].text
      BY <1>0, <1>1 DEF WorkSet
    <2> QED BY <1>3, <2>1, <2>2, IdleIsNoWork
  <1>6. /\ lates \in [Threads -> WorkSet \cup {Idle}]
        /\ \A o \in Threads :
             /\ lates[o] # Idle <=> job[o] # Idle
             /\ job[o] # Idle => /\ lates[o].stage = job[o].stage
                                 /\ lates[o].file = job[o].file
                                 /\ lates[o].text = job[o].text
                                 /\ ~lates[o].late =>
                                      ~job[o].late /\ (o \in Threads \ {th} => job[o].file # f)
    BY <1>1, <1>2, MakeLateShape
  <1>7. /\ job' \in [Threads -> WorkSet \cup {Idle}]
        /\ job'[th] = mine
        /\ \A o \in Threads \ {th} :
             /\ job'[o] # Idle <=> job[o] # Idle
             /\ job[o] # Idle => /\ job'[o].stage = job[o].stage
                                 /\ job'[o].file = job[o].file
                                 /\ job'[o].text = job[o].text
                                 /\ ~job'[o].late => ~job[o].late /\ job[o].file # f
    <2>1. /\ job' \in [Threads -> WorkSet \cup {Idle}]
          /\ job'[th] = mine
          /\ \A o \in Threads \ {th} : job'[o] = lates[o]
      BY <1>4, <1>5, <1>6
    <2> QED BY <1>6, <2>1
  <1>8. /\ docs' = [docs EXCEPT ![f] = job[th].text]
        /\ snapshot' = [snapshot EXCEPT ![f].late = snapshot[f].text # Absent]
        /\ UNCHANGED <<disk, buffer, last, wire, events, opened, reparses>>
        /\ tainted' = IF th = "watcher" /\ f \in Logs THEN tainted \ {f}
                       ELSE IF job[th].late \/ (th # "main" /\ MainBetween(f))
                              THEN tainted \cup {f} ELSE tainted
        /\ missed' = IF th = "watcher" THEN missed \ {f} ELSE missed
    BY <1>0 DEF Store, worldVars
  <1>9. ASSUME NEW g \in Files, g \notin tainted', g \notin Logs \/ th # "watcher" \/ g # f
        PROVE  /\ g \notin tainted
               /\ g = f => ~job[th].late /\ (th # "main" => ~MainBetween(f))
    BY <1>8, <1>9
  <1>10. TextsTyped'
    <2>1. docs' \in [Files -> Texts \cup {Absent, Garbled}]
      BY <1>0, <1>1, <1>8 DEF TextsTyped, WorkSet
    <2>2. snapshot' \in [Files -> SnapshotSet]
      <3>1. \A b \in BOOLEAN : [snapshot[f] EXCEPT !.late = b] \in SnapshotSet
        BY <1>0, <1>1 DEF TextsTyped, SnapshotSet
      <3> QED BY <1>8, <1>0, <1>1, <3>1 DEF TextsTyped
    <2>3. tainted' \in SUBSET Files
      BY <1>8, <1>0, <1>1 DEF TextsTyped
    <2>4. \A o \in Threads : job'[o] # Idle => (job'[o].text = Absent <=> job'[o].stage = "checked")
      <3>1. \A o \in Threads : job[o] # Idle => (job[o].text = Absent <=> job[o].stage = "checked")
        BY <1>0, <1>1 DEF TextsTyped
      <3>2. mine # Idle => (mine.text = Absent <=> mine.stage = "checked")
        BY <1>0, <1>1, <1>5, <3>1
      <3>3. ASSUME NEW o \in Threads \ {th}, job'[o] # Idle
            PROVE  job'[o].text = Absent <=> job'[o].stage = "checked"
        BY <1>7, <3>1, <3>3
      <3> QED BY <1>7, <3>2, <3>3
    <2> QED BY <1>8, <1>0, <1>1, <1>7, <2>1, <2>2, <2>3, <2>4 DEF TextsTyped
  <1>11. /\ WireFits'
         /\ \A g \in Edited : KnownOpen(g)' <=> KnownOpen(g)
         /\ \A g \in Edited : \A text : IsEditors(g, text)' <=> IsEditors(g, text)
    BY <1>8, WireStays DEF SyncInv
  <1>12. /\ "main" \in Threads /\ "watcher" \in Threads /\ "loader" \in Threads /\ "reparser" \in Threads
         /\ Edited \subseteq Files /\ Logs \subseteq Files /\ Edited \cap Logs = {}
    BY FileKindsDiffer DEF Threads, Files
  <1>13. /\ job'["main"] # Idle <=> job["main"] # Idle
         /\ job["main"] # Idle => /\ job'["main"].file = job["main"].file
                                  /\ job'["main"].text = job["main"].text
    BY <1>0, <1>1, <1>7, <1>5, <1>12
  <1>14. \A g : AtWork("main", g)' <=> AtWork("main", g)
    BY <1>13 DEF AtWork
  <1>15. KnownIsOpened'
    BY <1>8, <1>11, <1>14 DEF SyncInv, KnownIsOpened
  <1>16. ASSUME NEW g \in Edited, KnownOpen(g)', g \notin tainted'
         PROVE  IsEditors(g, Handled(g))'
    <2>1. g \notin tainted /\ (g = f => ~job[th].late /\ (th # "main" => ~MainBetween(f)))
      BY <1>9, <1>12, <1>16
    <2>2. KnownOpen(g) /\ IsEditors(g, Handled(g))
      BY <1>11, <1>16, <2>1 DEF SyncInv, ServerInStep
    <2>3. PICK t : t = Handled(g)
      OBVIOUS
    <2>4. IsEditors(g, t)
      BY <2>2, <2>3 DEF IsEditors
    <2>5. IsEditors(g, t)'
      BY <1>8, <2>4 DEF IsEditors, InWire, First, NoneBetween
    <2>6. CASE AtWork("main", g) \/ g # f
      <3>1. Handled(g)' = t
        <4>1. CASE AtWork("main", g)
          BY <1>13, <1>14, <2>3, <4>1 DEF Handled, AtWork
        <4>2. CASE ~AtWork("main", g)
          <5>1. docs'[g] = docs[g]
            BY <1>1, <1>8, <1>12, <2>6, <4>2 DEF TextsTyped
          <5> QED BY <1>14, <2>3, <4>2, <5>1 DEF Handled
        <4> QED BY <4>1, <4>2
      <3> QED BY <2>5, <3>1 DEF IsEditors
    <2>7. CASE ~AtWork("main", g) /\ g = f
      <3>1. th # "main" /\ ~job[th].late /\ f \in opened
        BY <1>0, <1>1, <2>1, <2>2, <2>7 DEF AtWork, SyncInv, KnownIsOpened
      <3>2. th # "watcher"
        BY <1>0, <1>1, <1>12, <2>7, <3>1 DEF SyncInv, LateIsMarked
      <3>3. t = docs[f] /\ Handled(g)' = job[th].text
        BY <1>0, <1>1, <1>8, <1>14, <2>3, <2>7 DEF Handled, TextsTyped
      <3>4. CASE th = "reparser"
        <4>1. docs[f] = job[th].text
          BY <1>0, <1>1, <3>1, <3>4 DEF SyncInv, LateIsMarked
        <4> QED BY <2>5, <3>3, <4>1 DEF IsEditors
      <3>5. CASE th = "loader"
        <4>1. t = Absent
          BY <1>0, <1>1, <3>1, <3>3, <3>5 DEF SyncInv, LateIsMarked
        <4>2. InWire(g)
          BY <2>2, <2>4, <4>1 DEF KnownOpen, IsEditors, First, InWire
        <4>3. InWire(g)'
          BY <1>8, <4>2 DEF InWire
        <4> QED BY <2>5, <4>1, <4>3 DEF IsEditors
      <3> QED BY <3>1, <3>2, <3>4, <3>5 DEF Threads
    <2> QED BY <2>6, <2>7
  <1>17. ServerInStep'
    BY <1>16 DEF ServerInStep
  <1>18. MainWritesEdited'
    <2> SUFFICES ASSUME job'["main"] # Idle
                 PROVE  /\ job'["main"].file \in Edited
                        /\ job'["main"].stage = "stored" /\ job'["main"].file \notin tainted'
                           => docs'[job'["main"].file] = job'["main"].text
      BY DEF MainWritesEdited
    <2> DEFINE g == job["main"].file
    <2>1. /\ job["main"] # Idle /\ g \in Edited
          /\ job'["main"].file = g /\ job'["main"].text = job["main"].text
          /\ job["main"].stage = "stored" /\ g \notin tainted => docs[g] = job["main"].text
      BY <1>13 DEF SyncInv, MainWritesEdited
    <2>2. ASSUME job'["main"].stage = "stored", g \notin tainted' PROVE docs'[g] = job["main"].text
      <3>1. g \notin tainted /\ (g = f => ~job[th].late /\ (th # "main" => ~MainBetween(f)))
        BY <1>9, <1>12, <2>1, <2>2
      <3>2. CASE th = "main"
        BY <1>0, <1>1, <1>8, <3>2 DEF TextsTyped
      <3>3. CASE th # "main"
        <4>1. job["main"].stage = "stored"
          BY <1>7, <1>12, <2>1, <2>2, <3>3
        <4>2. g # f
          BY <3>1, <3>3, <4>1 DEF MainBetween
        <4> QED BY <1>8, <2>1, <3>1, <4>1, <4>2
      <3> QED BY <3>2, <3>3
    <2> QED BY <2>1, <2>2
  <1>19. LateIsMarked'
    <2>1. ASSUME NEW o \in Threads \ {th}, job'[o] # Idle, ~job'[o].late
          PROVE  /\ job[o] # Idle /\ ~job[o].late /\ job[o].file # f
                 /\ job'[o].file = job[o].file /\ job'[o].text = job[o].text
                 /\ job'[o].stage = job[o].stage
      BY <1>7, <2>1
    <2>2. ASSUME job'["watcher"] # Idle, ~job'["watcher"].late
          PROVE  job'["watcher"].file \in Logs \/ job'["watcher"].file \notin opened'
      <3>1. th # "watcher"
        BY <1>5, <1>7, <2>2
      <3> QED BY <1>8, <1>12, <2>1, <2>2, <3>1 DEF SyncInv, LateIsMarked
    <2>3. ASSUME job'["loader"] # Idle, ~job'["loader"].late
          PROVE  docs'[job'["loader"].file] = Absent
      <3>1. th # "loader"
        BY <1>5, <1>7, <2>3
      <3>2. job["loader"].file # f /\ docs[job["loader"].file] = Absent
        BY <1>12, <2>1, <2>3, <3>1 DEF SyncInv, LateIsMarked
      <3> QED BY <1>8, <1>12, <2>1, <2>3, <3>1, <3>2
    <2>4. ASSUME job'["reparser"].stage = "read", ~job'["reparser"].late
          PROVE  docs'[job'["reparser"].file] = job'["reparser"].text
      <3>1. th # "reparser" /\ job'["reparser"] # Idle
        BY <1>5, <1>7, <2>4 DEF Idle
      <3>2. job["reparser"].file # f /\ docs[job["reparser"].file] = job["reparser"].text
        BY <1>12, <2>1, <2>4, <3>1 DEF SyncInv, LateIsMarked
      <3> QED BY <1>8, <1>12, <2>1, <2>4, <3>1, <3>2
    <2>5. ASSUME NEW g \in Files, snapshot'[g].text # Absent, ~snapshot'[g].late
          PROVE  docs'[g] = snapshot'[g].text
      <3>2. CASE g = f
        <4>1. \A b \in BOOLEAN : /\ [snapshot[f] EXCEPT !.late = b].text = snapshot[f].text
                                 /\ [snapshot[f] EXCEPT !.late = b].late <=> b
          BY <1>0, <1>1 DEF TextsTyped, SnapshotSet
        <4>2. snapshot'[f] = [snapshot[f] EXCEPT !.late = snapshot[f].text # Absent]
          BY <1>1, <1>8 DEF TextsTyped
        <4> QED BY <2>5, <3>2, <4>1, <4>2
      <3>3. CASE g # f
        BY <1>8, <2>5, <3>3 DEF SyncInv, LateIsMarked, TextsTyped
      <3> QED BY <3>2, <3>3
    <2> QED BY <2>2, <2>3, <2>4, <2>5 DEF LateIsMarked
  <1>20. LogsHaveEvents'
    <2> SUFFICES ASSUME NEW g \in Logs, g \notin events
                 PROVE  /\ AtWork("watcher", g)' /\ job'["watcher"].stage = "read"
                           => job'["watcher"].text = disk[g]
                        /\ ~AtWork("watcher", g)' /\ g \notin missed' =>
                             /\ g \notin tainted' => docs'[g] \in {Absent, disk[g]}
                             /\ AtWork("loader", g)' /\ job'["loader"].stage = "read" /\ ~job'["loader"].late
                                  => job'["loader"].text = disk[g]
      BY <1>8 DEF LogsHaveEvents
    <2>1. /\ AtWork("watcher", g) /\ job["watcher"].stage = "read" => job["watcher"].text = disk[g]
          /\ ~AtWork("watcher", g) /\ g \notin missed =>
               /\ g \notin tainted => docs[g] \in {Absent, disk[g]}
               /\ AtWork("loader", g) /\ job["loader"].stage = "read" /\ ~job["loader"].late
                    => job["loader"].text = disk[g]
      BY DEF SyncInv, LogsHaveEvents
    <2>2. CASE th = "watcher"
      <3>1. ~AtWork("watcher", g)'
        BY <1>5, <1>7, <2>2 DEF AtWork
      <3>2. CASE g = f
        <4>1. docs'[g] = disk[g]
          BY <1>0, <1>1, <1>8, <2>1, <2>2, <3>2 DEF AtWork, TextsTyped
        <4>2. AtWork("loader", g)' => job'["loader"].late
          BY <1>7, <1>12, <2>2, <3>2 DEF AtWork
        <4> QED BY <3>1, <4>1, <4>2
      <3>3. CASE g # f
        <4>1. ~AtWork("watcher", g) /\ docs'[g] = docs[g] /\ (g \notin missed' => g \notin missed)
          BY <1>0, <1>1, <1>8, <2>2, <3>3 DEF AtWork, TextsTyped
        <4>2. g \notin tainted' => g \notin tainted
          BY <1>9, <1>12, <3>3
        <4>3. AtWork("loader", g)' /\ ~job'["loader"].late =>
                /\ AtWork("loader", g) /\ ~job["loader"].late
                /\ job'["loader"].text = job["loader"].text
                /\ job'["loader"].stage = job["loader"].stage
          BY <1>7, <1>12, <2>2 DEF AtWork
        <4> QED BY <2>1, <3>1, <4>1, <4>2, <4>3
      <3> QED BY <3>2, <3>3
    <2>3. CASE th # "watcher"
      <3>1. /\ AtWork("watcher", g)' <=> AtWork("watcher", g)
            /\ AtWork("watcher", g) => /\ job'["watcher"].text = job["watcher"].text
                                       /\ job'["watcher"].stage = job["watcher"].stage
        BY <1>7, <1>12, <2>3 DEF AtWork
      <3>2. AtWork("loader", g)' /\ ~job'["loader"].late =>
              /\ AtWork("loader", g) /\ ~job["loader"].late
              /\ job'["loader"].text = job["loader"].text
              /\ job'["loader"].stage = job["loader"].stage
        <4>1. CASE th = "loader"
          BY <1>5, <1>7, <4>1 DEF AtWork
        <4>2. CASE th # "loader"
          BY <1>7, <1>12, <4>2 DEF AtWork
        <4> QED BY <4>1, <4>2
      <3>0. missed' = missed
        BY <1>8, <2>3
      <3>3. ASSUME ~AtWork("watcher", g), g \notin missed, g \notin tainted' PROVE docs'[g] \in {Absent, disk[g]}
        <4>1. g \notin tainted /\ (g = f => ~job[th].late)
          BY <1>9, <1>12, <2>3, <3>3
        <4>2. CASE g # f
          BY <1>0, <1>1, <1>8, <2>1, <3>3, <4>1, <4>2 DEF TextsTyped
        <4>3. CASE g = f
          <5>1. th # "main"
            BY <1>0, <1>1, <1>12, <4>3 DEF SyncInv, MainWritesEdited
          <5>2. docs'[g] = job[th].text
            BY <1>0, <1>1, <1>8, <4>3 DEF TextsTyped
          <5>3. CASE th = "loader"
            BY <1>0, <1>1, <2>1, <3>3, <4>1, <4>3, <5>2, <5>3 DEF AtWork
          <5>4. CASE th = "reparser"
            <6>1. docs[f] = job[th].text
              BY <1>0, <1>1, <4>1, <4>3, <5>4 DEF SyncInv, LateIsMarked
            <6> QED BY <2>1, <3>3, <4>1, <4>3, <5>2, <6>1
          <5> QED BY <2>3, <5>1, <5>3, <5>4 DEF Threads
        <4> QED BY <4>2, <4>3
      <3> QED BY <2>1, <3>0, <3>1, <3>2, <3>3
    <2> QED BY <2>2, <2>3
  <1> QED BY <1>10, <1>11, <1>15, <1>17, <1>18, <1>19, <1>20 DEF SyncInv

(* Storage::open adds the file to the opened set: a reload that has passed *)
(* its check is late from now on.                                          *)
LEMMA MarkKeepsSyncInv ==
  ASSUME SyncInv, NEW th \in {"main", "reparser"}, Mark(th)
  PROVE  SyncInv'
  <1>0. PICK f : f = job[th].file
    OBVIOUS
  <1>1. /\ TextsTyped
        /\ job \in [Threads -> WorkSet \cup {Idle}]
        /\ th \in Threads
        /\ job[th] \in WorkSet /\ job[th] # Idle /\ job[th].stage = "stored"
        /\ f \in Files
    <2>1. Idle.stage # "stored" /\ th \in Threads
      BY DEF Idle, Threads
    <2> QED BY <1>0, <2>1 DEF SyncInv, TextsTyped, WorkSet, Mark
  <1>2. PICK lates : lates = MakeLate(job, f, {"watcher"})
    OBVIOUS
  <1>3. job' = [lates EXCEPT ![th] = Idle]
    BY <1>0, <1>2 DEF Mark
  <1>4. /\ lates \in [Threads -> WorkSet \cup {Idle}]
        /\ \A o \in Threads :
             /\ lates[o] # Idle <=> job[o] # Idle
             /\ job[o] # Idle => /\ lates[o].stage = job[o].stage
                                 /\ lates[o].file = job[o].file
                                 /\ lates[o].text = job[o].text
                                 /\ ~lates[o].late =>
                                      ~job[o].late /\ (o \in {"watcher"} => job[o].file # f)
    BY <1>1, <1>2, MakeLateShape
  <1>5. /\ job' \in [Threads -> WorkSet \cup {Idle}]
        /\ job'[th] = Idle
        /\ \A o \in Threads \ {th} :
             /\ job'[o] # Idle <=> job[o] # Idle
             /\ job[o] # Idle => /\ job'[o].stage = job[o].stage
                                 /\ job'[o].file = job[o].file
                                 /\ job'[o].text = job[o].text
                                 /\ ~job'[o].late => ~job[o].late /\ (o = "watcher" => job[o].file # f)
    <2>1. /\ job' \in [Threads -> WorkSet \cup {Idle}]
          /\ job'[th] = Idle
          /\ \A o \in Threads \ {th} : job'[o] = lates[o]
      BY <1>1, <1>3, <1>4
    <2> QED BY <1>4, <2>1
  <1>6. /\ opened' = opened \cup {f}
        /\ UNCHANGED <<disk, buffer, last, wire, events, docs, snapshot, reparses, tainted, missed>>
    BY <1>0 DEF Mark, worldVars
  <1>7. TextsTyped'
    <2>1. \A o \in Threads : job'[o] # Idle => (job'[o].text = Absent <=> job'[o].stage = "checked")
      <3>1. \A o \in Threads : job[o] # Idle => (job[o].text = Absent <=> job[o].stage = "checked")
        BY <1>1 DEF TextsTyped
      <3>2. ASSUME NEW o \in Threads \ {th}, job'[o] # Idle
            PROVE  job'[o].text = Absent <=> job'[o].stage = "checked"
        BY <1>5, <3>1, <3>2
      <3> QED BY <1>5, <3>2
    <2>2. opened' \in SUBSET Files
      BY <1>1, <1>6 DEF TextsTyped
    <2> QED BY <1>1, <1>5, <1>6, <2>1, <2>2 DEF TextsTyped
  <1>8. /\ WireFits'
        /\ \A g \in Edited : KnownOpen(g)' <=> KnownOpen(g)
    BY <1>6, WireStays DEF SyncInv
  <1>9. /\ "main" \in Threads /\ "watcher" \in Threads /\ "loader" \in Threads /\ "reparser" \in Threads
        /\ Edited \subseteq Files
    BY DEF Threads, Files
  <1>10. /\ th = "main" => ~AtWork("main", f)' /\ \A g : g # f => ~AtWork("main", g) /\ ~AtWork("main", g)'
         /\ th = "reparser" => \A g : AtWork("main", g)' <=> AtWork("main", g)
    BY <1>0, <1>5, <1>9 DEF AtWork
  <1>11. KnownIsOpened'
    <2>1. ASSUME NEW g \in Edited, KnownOpen(g)'
          PROVE  g \in opened' \/ AtWork("main", g)'
      <3>1. g \in opened \/ AtWork("main", g)
        BY <1>8, <2>1 DEF SyncInv, KnownIsOpened
      <3> QED BY <1>6, <1>10, <3>1
    <2> QED BY <2>1 DEF KnownIsOpened
  <1>12. ASSUME NEW g \in Edited, KnownOpen(g)', g \notin tainted'
         PROVE  IsEditors(g, Handled(g))'
    <2>1. KnownOpen(g) /\ g \notin tainted /\ IsEditors(g, Handled(g))
      BY <1>6, <1>8, <1>12 DEF SyncInv, ServerInStep
    <2>2. Handled(g)' = Handled(g)
      <3>1. CASE th = "main" /\ g = f
        <4>1. docs[f] = job["main"].text
          BY <1>0, <1>1, <2>1, <3>1 DEF SyncInv, MainWritesEdited
        <4> QED BY <1>0, <1>1, <1>6, <1>10, <3>1, <4>1 DEF Handled, AtWork
      <3>2. CASE th = "main" /\ g # f
        BY <1>6, <1>10, <3>2 DEF Handled
      <3>3. CASE th = "reparser"
        <4>1. CASE AtWork("main", g)
          BY <1>5, <1>9, <1>10, <3>3, <4>1 DEF Handled, AtWork
        <4>2. CASE ~AtWork("main", g)
          BY <1>6, <1>10, <3>3, <4>2 DEF Handled
        <4> QED BY <4>1, <4>2
      <3> QED BY <3>1, <3>2, <3>3
    <2> QED BY <1>6, <2>1, <2>2 DEF IsEditors, InWire, First, NoneBetween
  <1>13. ServerInStep'
    BY <1>12 DEF ServerInStep
  <1>14. MainWritesEdited'
    <2>1. CASE th = "main"
      BY <1>5, <2>1 DEF MainWritesEdited
    <2>2. CASE th = "reparser"
      BY <1>5, <1>6, <1>9, <2>2 DEF SyncInv, MainWritesEdited
    <2> QED BY <2>1, <2>2
  <1>15. LateIsMarked'
    <2>1. /\ LateIsMarked
          /\ Idle.stage # "read"
      BY DEF SyncInv, Idle
    <2>2. ASSUME job'["watcher"] # Idle, ~job'["watcher"].late
          PROVE  job'["watcher"].file \in Logs \/ job'["watcher"].file \notin opened'
      BY <1>5, <1>6, <1>9, <2>1, <2>2 DEF LateIsMarked
    <2>3. ASSUME job'["loader"] # Idle, ~job'["loader"].late
          PROVE  docs'[job'["loader"].file] = Absent
      BY <1>5, <1>6, <1>9, <2>1, <2>3 DEF LateIsMarked
    <2>4. ASSUME job'["reparser"].stage = "read", ~job'["reparser"].late
          PROVE  docs'[job'["reparser"].file] = job'["reparser"].text
      BY <1>5, <1>6, <1>9, <2>1, <2>4 DEF LateIsMarked
    <2>5. ASSUME NEW g \in Files, snapshot'[g].text # Absent, ~snapshot'[g].late
          PROVE  docs'[g] = snapshot'[g].text
      BY <1>6, <2>1, <2>5 DEF LateIsMarked
    <2> QED BY <2>2, <2>3, <2>4, <2>5 DEF LateIsMarked
  <1>16. LogsHaveEvents'
    <2>1. \A g : AtWork("watcher", g)' <=> AtWork("watcher", g)
      BY <1>5, <1>9 DEF AtWork
    <2>2. \A g : AtWork("watcher", g) => /\ job'["watcher"].stage = job["watcher"].stage
                                         /\ job'["watcher"].text = job["watcher"].text
      BY <1>5, <1>9 DEF AtWork
    <2>3. \A g : AtWork("loader", g)' => /\ AtWork("loader", g)
                                         /\ job'["loader"].stage = job["loader"].stage
                                         /\ job'["loader"].text = job["loader"].text
                                         /\ ~job'["loader"].late => ~job["loader"].late
      BY <1>5, <1>9 DEF AtWork
    <2> QED BY <1>6, <2>1, <2>2, <2>3 DEF SyncInv, LogsHaveEvents
  <1> QED BY <1>7, <1>8, <1>11, <1>13, <1>14, <1>15, <1>16 DEF SyncInv

(* The main thread takes m and is to write text t to its file: t must be   *)
(* the text the editor had, unless the file is tainted.                    *)
LEMMA ReceivingKeepsSyncInv ==
  ASSUME SyncInv, job["main"] = Idle, wire # <<>>,
         NEW m, m = Head(wire), NEW f, f = m.file,
         NEW t \in Texts \cup {Garbled}, NEW whole \in BOOLEAN,
         f \notin tainted \/ whole => t = m.text,
         Receive(f, t, whole)
  PROVE  SyncInv'
  <1>1. /\ job' = [job EXCEPT !["main"] = Work("read", f, t)]
        /\ tainted' = IF whole THEN tainted \ {f} ELSE tainted
        /\ wire' = Tail(wire)
        /\ UNCHANGED <<disk, buffer, last, events, docs, opened, snapshot, reparses, missed>>
    BY DEF Receive, worldVars, watchVars
  <1>2. /\ wire' \in Seq(MessageSet)
        /\ WireFits'
        /\ m \in MessageSet
        /\ IsEditors(f, m.text)'
        /\ \A g \in Edited : g # f =>
             /\ KnownOpen(g)' => KnownOpen(g)
             /\ \A text : IsEditors(g, text) => IsEditors(g, text)'
    BY <1>1, Taking DEF SyncInv
  <1>3. /\ f \in Edited /\ f \in Files /\ f \notin Logs
        /\ "main" \in Threads /\ "watcher" \in Threads /\ "loader" \in Threads /\ "reparser" \in Threads
    BY <1>2, FileKindsDiffer DEF MessageSet, Files, Threads
  <1>4. /\ job' \in [Threads -> WorkSet \cup {Idle}]
        /\ job'["main"] = Work("read", f, t)
        /\ job'["main"] # Idle /\ job'["main"].stage = "read"
        /\ job'["main"].file = f /\ job'["main"].text = t
        /\ \A o \in Threads \ {"main"} : job'[o] = job[o]
    <2>1. job \in [Threads -> WorkSet \cup {Idle}]
      BY DEF SyncInv, TextsTyped
    <2>2. Work("read", f, t) \in WorkSet
      BY <1>3 DEF Work, WorkSet
    <2>3. /\ Work("read", f, t).stage = "read" /\ Work("read", f, t).file = f
          /\ Work("read", f, t).text = t
      BY DEF Work
    <2> QED BY <1>1, <1>3, <2>1, <2>2, <2>3, IdleIsNoWork
  <1>5. TextsTyped'
    <2>1. \A o \in Threads : job'[o] # Idle => (job'[o].text = Absent <=> job'[o].stage = "checked")
      <3>1. t # Absent
        BY NoTextIsANumber DEF Texts
      <3> QED BY <1>3, <1>4, <3>1 DEF SyncInv, TextsTyped
    <2>2. tainted' \in SUBSET Files
      BY <1>1 DEF SyncInv, TextsTyped
    <2> QED BY <1>1, <1>2, <1>4, <2>1, <2>2 DEF SyncInv, TextsTyped
  <1>6. /\ AtWork("main", f)' /\ \A g : g # f => ~AtWork("main", g)'
        /\ \A g : ~AtWork("main", g)
    BY <1>4 DEF AtWork
  <1>7. KnownIsOpened'
    BY <1>1, <1>2, <1>6 DEF SyncInv, KnownIsOpened
  <1>8. ASSUME NEW g \in Edited, KnownOpen(g)', g \notin tainted'
        PROVE  IsEditors(g, Handled(g))'
    <2>1. CASE g = f
      <3>1. t = m.text
        BY <1>1, <1>8, <2>1
      <3>2. Handled(f)' = t
        BY <1>4, <1>6 DEF Handled
      <3> QED BY <1>2, <2>1, <3>1, <3>2 DEF IsEditors
    <2>2. CASE g # f
      <3>1. KnownOpen(g) /\ g \notin tainted
        BY <1>1, <1>2, <1>8, <2>2
      <3>2. PICK text : text = Handled(g)
        OBVIOUS
      <3>3. IsEditors(g, text)
        BY <3>1, <3>2 DEF SyncInv, ServerInStep, IsEditors
      <3>4. Handled(g)' = text
        BY <1>1, <1>6, <2>2, <3>2 DEF Handled
      <3>5. IsEditors(g, text)'
        BY <1>2, <2>2, <3>3 DEF IsEditors
      <3> QED BY <3>4, <3>5 DEF IsEditors
    <2> QED BY <2>1, <2>2
  <1>9. ServerInStep'
    BY <1>8 DEF ServerInStep
  <1>10. MainWritesEdited'
    BY <1>3, <1>4 DEF MainWritesEdited
  <1>11. LateIsMarked'
    BY <1>1, <1>3, <1>4 DEF SyncInv, LateIsMarked
  <1>12. LogsHaveEvents'
    BY <1>1, <1>3, <1>4 DEF SyncInv, LogsHaveEvents, AtWork
  <1> QED BY <1>2, <1>5, <1>7, <1>9, <1>10, <1>11, <1>12 DEF SyncInv

LEMMA TakeOpenKeepsSyncInv ==
  ASSUME SyncInv, TakeOpen
  PROVE  SyncInv'
  <1>1. PICK m : m = Head(wire)
    OBVIOUS
  <1>2. job["main"] = Idle /\ wire # <<>> /\ m.kind = "open" /\ Receive(m.file, m.text, TRUE)
    BY <1>1 DEF TakeOpen, Received, Free
  <1>3. m \in MessageSet /\ (m.kind = "close" <=> m.text = Absent)
    BY <1>1, <1>2, Taking DEF SyncInv, Receive, worldVars
  <1>4. m.text \in Texts
    BY <1>2, <1>3 DEF MessageSet
  <1> QED BY <1>1, <1>2, <1>4, ReceivingKeepsSyncInv

(* A range of a text the server has applies; the editor made it on the     *)
(* text the server has, if nothing came in between.                        *)
LEMMA TakeChangeKeepsSyncInv ==
  ASSUME SyncInv, TakeChange
  PROVE  SyncInv'
  <1>1. PICK m : m = Head(wire)
    OBVIOUS
  <1>2. PICK f : f = m.file
    OBVIOUS
  <1>3. PICK t : t = Merge(docs[f], m)
    OBVIOUS
  <1>4. /\ job["main"] = Idle /\ wire # <<>> /\ m.kind = "change"
        /\ Receive(f, t, m.base = Absent)
    BY <1>1, <1>2, <1>3 DEF TakeChange, Received, Free
  <1>5. /\ m \in MessageSet /\ (m.kind = "close" <=> m.text = Absent)
        /\ 1 \in DOMAIN wire /\ wire[1] = m /\ First(f, 1)
    BY <1>1, <1>2, <1>4, Taking DEF SyncInv, Receive, worldVars
  <1>6. m.text \in Texts /\ f \in Edited
    BY <1>2, <1>4, <1>5 DEF MessageSet
  <1>7. t \in Texts \cup {Garbled}
    BY <1>3, <1>6 DEF Merge
  <1>8. ASSUME f \notin tainted \/ m.base = Absent
        PROVE  t = m.text
    <2>1. CASE m.base = Absent
      BY <1>3, <2>1 DEF Merge
    <2>2. CASE f \notin tainted
      <3>1. KnownOpen(f)
        BY <1>4, <1>5 DEF KnownOpen
      <3>2. Handled(f) = docs[f]
        BY <1>4 DEF Handled, AtWork
      <3>3. m.base \in {docs[f], Absent}
        BY <1>4, <1>5, <1>6, <2>2, <3>1, <3>2 DEF SyncInv, ServerInStep, IsEditors
      <3> QED BY <1>3, <3>3 DEF Merge
    <2> QED BY <1>8, <2>1, <2>2
  <1> HIDE <1>3
  <1> QED BY <1>1, <1>2, <1>4, <1>7, <1>8, ReceivingKeepsSyncInv

LEMMA TakeCloseKeepsSyncInv ==
  ASSUME SyncInv, TakeClose
  PROVE  SyncInv'
  <1>1. PICK m : m = Head(wire)
    OBVIOUS
  <1>2. PICK f : f = m.file
    OBVIOUS
  <1>3. /\ job["main"] = Idle /\ wire # <<>> /\ m.kind = "close"
        /\ opened' = opened \ {f}
        /\ wire' = Tail(wire)
        /\ UNCHANGED <<disk, buffer, last, events, docs, job, snapshot, reparses, tainted, missed>>
    BY <1>1, <1>2 DEF TakeClose, Received, Free, worldVars, watchVars
  <1>4. /\ wire' \in Seq(MessageSet)
        /\ WireFits'
        /\ ~KnownOpen(f)'
        /\ \A g \in Edited : g # f =>
             /\ KnownOpen(g)' => KnownOpen(g)
             /\ \A text : IsEditors(g, text) => IsEditors(g, text)'
    BY <1>1, <1>2, <1>3, Taking DEF SyncInv
  <1>5. TextsTyped'
    BY <1>3, <1>4 DEF SyncInv, TextsTyped
  <1>6. \A g : ~AtWork("main", g) /\ ~AtWork("main", g)'
    BY <1>3 DEF AtWork
  <1>7. KnownIsOpened'
    BY <1>3, <1>4, <1>6 DEF SyncInv, KnownIsOpened
  <1>8. ASSUME NEW g \in Edited, KnownOpen(g)', g \notin tainted'
        PROVE  IsEditors(g, Handled(g))'
    <2>1. g # f
      BY <1>4, <1>8
    <2>2. PICK text : text = Handled(g)
      OBVIOUS
    <2>3. IsEditors(g, text)
      BY <1>3, <1>4, <1>8, <2>1, <2>2 DEF SyncInv, ServerInStep, IsEditors
    <2>4. IsEditors(g, text)'
      BY <1>4, <2>1, <2>3 DEF IsEditors
    <2>5. Handled(g)' = text
      BY <1>3, <1>6, <2>2 DEF Handled
    <2> QED BY <2>4, <2>5 DEF IsEditors
  <1>9. ServerInStep'
    BY <1>8 DEF ServerInStep
  <1>10. MainWritesEdited' /\ LateIsMarked' /\ LogsHaveEvents'
    BY <1>3 DEF SyncInv, MainWritesEdited, LateIsMarked, LogsHaveEvents, AtWork
  <1> QED BY <1>4, <1>5, <1>7, <1>9, <1>10 DEF SyncInv

(* The steps of the other threads that insert nothing do not matter to     *)
(* what the server knows of the editor.                                    *)
LEMMA BackgroundKeepsSync ==
  ASSUME SyncInv, UNCHANGED <<wire, buffer, docs, opened, tainted>>, job'["main"] = job["main"]
  PROVE  WireFits' /\ KnownIsOpened' /\ ServerInStep' /\ MainWritesEdited'
  <1>1. WireFits' /\ \A g \in Edited : KnownOpen(g)' <=> KnownOpen(g)
    BY WireStays DEF SyncInv
  <1>2. \A g : AtWork("main", g)' <=> AtWork("main", g)
    BY DEF AtWork
  <1>3. KnownIsOpened'
    BY <1>1, <1>2 DEF SyncInv, KnownIsOpened
  <1>4. ASSUME NEW g \in Edited, KnownOpen(g)', g \notin tainted'
        PROVE  IsEditors(g, Handled(g))'
    <2>1. IsEditors(g, Handled(g))
      BY <1>1, <1>4 DEF SyncInv, ServerInStep
    <2>2. Handled(g)' = Handled(g)
      BY <1>2 DEF Handled
    <2> QED BY <2>1, <2>2 DEF IsEditors, InWire, First, NoneBetween
  <1>5. MainWritesEdited'
    BY DEF SyncInv, MainWritesEdited
  <1> QED BY <1>1, <1>3, <1>4, <1>5 DEF ServerInStep

(* What such a step leaves of the type invariant: the job it puts down.    *)
LEMMA BackgroundIsTyped ==
  ASSUME SyncInv, NEW th \in Threads, NEW j \in WorkSet, j.text = Absent <=> j.stage = "checked",
         job' = [job EXCEPT ![th] = j], UNCHANGED <<wire, buffer, disk, last, docs, opened, tainted>>,
         events' \in SUBSET Files, snapshot' \in [Files -> SnapshotSet], reparses' \in 0..Reparses
  PROVE  TextsTyped'
  <1>1. /\ job' \in [Threads -> WorkSet \cup {Idle}]
        /\ job'[th] = j /\ \A o \in Threads \ {th} : job'[o] = job[o]
    BY DEF SyncInv, TextsTyped
  <1>2. \A o \in Threads : job'[o] # Idle => (job'[o].text = Absent <=> job'[o].stage = "checked")
    BY <1>1 DEF SyncInv, TextsTyped
  <1> QED BY <1>1, <1>2 DEF SyncInv, TextsTyped

(* Workspace::reload turns an event into a job, unless the file is open.   *)
LEMMA WatchCheckKeepsSyncInv ==
  ASSUME SyncInv, NEW f \in Files, WatchCheck(f)
  PROVE  SyncInv'
  <1>1. /\ job["watcher"] = Idle
        /\ events' = events \ {f}
        /\ job' = IF f \in opened /\ f \notin Logs
                    THEN job ELSE [job EXCEPT !["watcher"] = Work("checked", f, Absent)]
        /\ UNCHANGED <<disk, buffer, last, wire, docs, opened, snapshot, reparses, tainted, missed>>
    BY DEF WatchCheck, worldVars, watchVars
  <1>2. /\ "main" \in Threads /\ "watcher" \in Threads /\ "loader" \in Threads /\ "reparser" \in Threads
        /\ job \in [Threads -> WorkSet \cup {Idle}]
    BY DEF Threads, SyncInv, TextsTyped
  <1>3. CASE f \in opened /\ f \notin Logs
    <2>1. job' = job
      BY <1>1, <1>3
    <2>2. TextsTyped'
      BY <1>1, <2>1 DEF SyncInv, TextsTyped
    <2>3. WireFits' /\ KnownIsOpened' /\ ServerInStep' /\ MainWritesEdited'
      BY <1>1, <2>1, BackgroundKeepsSync
    <2>4. LateIsMarked'
      BY <1>1, <2>1 DEF SyncInv, LateIsMarked
    <2>5. LogsHaveEvents'
      BY <1>1, <1>3, <2>1 DEF SyncInv, LogsHaveEvents, AtWork
    <2> QED BY <2>2, <2>3, <2>4, <2>5 DEF SyncInv
  <1>4. CASE ~(f \in opened /\ f \notin Logs)
    <2>1. PICK j : j = Work("checked", f, Absent)
      OBVIOUS
    <2>2. /\ j \in WorkSet /\ j # Idle
          /\ j.stage = "checked" /\ j.file = f /\ j.text = Absent
      <3>1. Work("checked", f, Absent) \in WorkSet
        BY DEF Work, WorkSet
      <3>2. j.stage = "checked" /\ j.file = f /\ j.text = Absent
        BY <2>1 DEF Work
      <3> QED BY <2>1, <3>1, <3>2, IdleIsNoWork
    <2>3. job' = [job EXCEPT !["watcher"] = j]
      BY <1>1, <1>4, <2>1
    <2>4. job'["watcher"] = j /\ \A o \in Threads \ {"watcher"} : job'[o] = job[o]
      BY <1>2, <2>3
    <2>5. events' \in SUBSET Files /\ snapshot' \in [Files -> SnapshotSet] /\ reparses' \in 0..Reparses
      BY <1>1 DEF SyncInv, TextsTyped
    <2>6. TextsTyped'
      BY <1>1, <1>2, <2>2, <2>3, <2>5, BackgroundIsTyped
    <2>7. WireFits' /\ KnownIsOpened' /\ ServerInStep' /\ MainWritesEdited'
      BY <1>1, <1>2, <2>4, BackgroundKeepsSync
    <2>8. LateIsMarked'
      BY <1>1, <1>2, <1>4, <2>2, <2>4 DEF SyncInv, LateIsMarked
    <2>9. LogsHaveEvents'
      <3>1. \A g : ~AtWork("watcher", g)
        BY <1>1 DEF AtWork
      <3>2. \A g : AtWork("watcher", g)' <=> g = f
        BY <2>2, <2>4 DEF AtWork
      <3>3. \A g : AtWork("loader", g)' <=> AtWork("loader", g)
        BY <1>2, <2>4 DEF AtWork
      <3> QED BY <1>1, <1>2, <2>2, <2>4, <3>1, <3>2, <3>3 DEF SyncInv, LogsHaveEvents
    <2> QED BY <2>6, <2>7, <2>8, <2>9 DEF SyncInv
  <1> QED BY <1>3, <1>4

(* Between the check and the insertion, the file is read.                  *)
LEMMA ReadDiskKeepsSyncInv ==
  ASSUME SyncInv, NEW th \in {"watcher", "loader"}, ReadDisk(th)
  PROVE  SyncInv'
  <1>1. PICK f : f = job[th].file
    OBVIOUS
  <1>2. PICK j : j = [job[th] EXCEPT !.stage = "read", !.text = disk[f]]
    OBVIOUS
  <1>3. /\ "main" \in Threads /\ "watcher" \in Threads /\ "loader" \in Threads /\ "reparser" \in Threads
        /\ job \in [Threads -> WorkSet \cup {Idle}]
        /\ th \in Threads
        /\ Logs \subseteq Files
    BY DEF Threads, Files, SyncInv, TextsTyped
  <1>4. /\ job' = [job EXCEPT ![th] = j]
        /\ job[th].stage = "checked"
        /\ UNCHANGED <<disk, buffer, last, wire, events, docs, opened, snapshot, reparses, tainted, missed>>
    <2>1. job' = [job EXCEPT ![th].stage = "read", ![th].text = disk[job[th].file]]
      BY DEF ReadDisk
    <2> QED BY <1>1, <1>2, <1>3, <2>1 DEF ReadDisk, worldVars, watchVars
  <1>5. job[th] \in WorkSet /\ job[th] # Idle /\ f \in Files /\ disk[f] \in Texts
    <2>1. Idle.stage # "checked"
      BY DEF Idle
    <2>2. job[th] \in WorkSet
      BY <1>3, <1>4, <2>1
    <2> QED BY <1>1, <1>4, <2>1, <2>2 DEF WorkSet, SyncInv, TextsTyped
  <1>6. /\ j \in WorkSet /\ j # Idle
        /\ j.stage = "read" /\ j.file = f /\ j.text = disk[f] /\ j.late = job[th].late
    <2>1. [job[th] EXCEPT !.stage = "read", !.text = disk[f]] \in WorkSet
      BY <1>5 DEF WorkSet
    <2>2. j.stage = "read" /\ j.file = f /\ j.text = disk[f] /\ j.late = job[th].late
      BY <1>1, <1>2, <1>5 DEF WorkSet
    <2> QED BY <1>2, <2>1, <2>2, IdleIsNoWork
  <1>7. job'[th] = j /\ \A o \in Threads \ {th} : job'[o] = job[o]
    BY <1>3, <1>4
  <1>8. TextsTyped'
    <2>1. j.text # Absent
      BY <1>5, <1>6, NoTextIsANumber DEF Texts
    <2>2. events' \in SUBSET Files /\ snapshot' \in [Files -> SnapshotSet] /\ reparses' \in 0..Reparses
      BY <1>4 DEF SyncInv, TextsTyped
    <2> QED BY <1>3, <1>4, <1>6, <2>1, <2>2, BackgroundIsTyped
  <1>9. WireFits' /\ KnownIsOpened' /\ ServerInStep' /\ MainWritesEdited'
    BY <1>3, <1>4, <1>7, BackgroundKeepsSync
  <1>10. /\ \A o \in Threads : job'[o] # Idle <=> job[o] # Idle
         /\ \A o \in Threads : job[o] # Idle => job'[o].file = job[o].file /\ job'[o].late = job[o].late
    BY <1>1, <1>5, <1>6, <1>7
  <1>11. LateIsMarked'
    BY <1>3, <1>4, <1>7, <1>10 DEF SyncInv, LateIsMarked
  <1>12. LogsHaveEvents'
    <2>1. \A o \in Threads, g \in Files : AtWork(o, g)' <=> AtWork(o, g)
      BY <1>10 DEF AtWork
    <2>2. \A g \in Files : AtWork(th, g)' => job'[th].text = disk[g]
      BY <1>3, <1>6, <1>7 DEF AtWork
    <2> QED BY <1>3, <1>4, <1>7, <1>10, <2>1, <2>2 DEF SyncInv, LogsHaveEvents
  <1> QED BY <1>8, <1>9, <1>11, <1>12 DEF SyncInv

(* Workspace::load is only called for a file without a document.           *)
LEMMA LoadCheckKeepsSyncInv ==
  ASSUME SyncInv, NEW f \in Files, LoadCheck(f)
  PROVE  SyncInv'
  <1>1. PICK j : j = Work("checked", f, Absent)
    OBVIOUS
  <1>2. /\ job["loader"] = Idle /\ docs[f] = Absent
        /\ job' = [job EXCEPT !["loader"] = j]
        /\ UNCHANGED <<disk, buffer, last, wire, events, docs, opened, snapshot, reparses, tainted, missed>>
    BY <1>1 DEF LoadCheck, Free, worldVars, watchVars
  <1>3. /\ "main" \in Threads /\ "watcher" \in Threads /\ "loader" \in Threads /\ "reparser" \in Threads
        /\ job \in [Threads -> WorkSet \cup {Idle}]
    BY DEF Threads, SyncInv, TextsTyped
  <1>4. /\ j \in WorkSet /\ j # Idle
        /\ j.stage = "checked" /\ j.file = f /\ j.text = Absent
    <2>1. Work("checked", f, Absent) \in WorkSet
      BY DEF Work, WorkSet
    <2>2. j.stage = "checked" /\ j.file = f /\ j.text = Absent
      BY <1>1 DEF Work
    <2> QED BY <1>1, <2>1, <2>2, IdleIsNoWork
  <1>5. job'["loader"] = j /\ \A o \in Threads \ {"loader"} : job'[o] = job[o]
    BY <1>2, <1>3
  <1>6. TextsTyped'
    <2>1. events' \in SUBSET Files /\ snapshot' \in [Files -> SnapshotSet] /\ reparses' \in 0..Reparses
      BY <1>2 DEF SyncInv, TextsTyped
    <2> QED BY <1>2, <1>3, <1>4, <2>1, BackgroundIsTyped
  <1>7. WireFits' /\ KnownIsOpened' /\ ServerInStep' /\ MainWritesEdited'
    BY <1>2, <1>3, <1>5, BackgroundKeepsSync
  <1>8. LateIsMarked'
    BY <1>2, <1>3, <1>4, <1>5 DEF SyncInv, LateIsMarked
  <1>9. LogsHaveEvents'
    <2>1. \A g : AtWork("watcher", g)' <=> AtWork("watcher", g)
      BY <1>3, <1>5 DEF AtWork
    <2> QED BY <1>2, <1>3, <1>4, <1>5, <2>1 DEF SyncInv, LogsHaveEvents
  <1> QED BY <1>6, <1>7, <1>8, <1>9 DEF SyncInv

(* reparse_all collects the texts of all documents ...                     *)
LEMMA ReparseStartKeepsSyncInv ==
  ASSUME SyncInv, ReparseStart
  PROVE  SyncInv'
  <1>1. /\ reparses < Reparses /\ reparses' = reparses + 1
        /\ snapshot' = [f \in Files |-> [text |-> docs[f], late |-> FALSE]]
        /\ UNCHANGED <<disk, buffer, last, wire, events, docs, opened, job, tainted, missed>>
    BY DEF ReparseStart, worldVars, serverVars, watchVars
  <1>2. TextsTyped'
    <2>1. snapshot' \in [Files -> SnapshotSet]
      BY <1>1 DEF SyncInv, TextsTyped, SnapshotSet
    <2>2. reparses' \in 0..Reparses
      BY <1>1, BoundsAreNat DEF SyncInv, TextsTyped
    <2> QED BY <1>1, <2>1, <2>2 DEF SyncInv, TextsTyped
  <1>3. WireFits' /\ KnownIsOpened' /\ ServerInStep' /\ MainWritesEdited'
    BY <1>1, BackgroundKeepsSync
  <1>4. LateIsMarked' /\ LogsHaveEvents'
    BY <1>1 DEF SyncInv, LateIsMarked, LogsHaveEvents, AtWork
  <1> QED BY <1>2, <1>3, <1>4 DEF SyncInv

(* ... and opens them again, one by one.                                   *)
LEMMA ReparseNextKeepsSyncInv ==
  ASSUME SyncInv, NEW f \in Files, ReparseNext(f)
  PROVE  SyncInv'
  <1>1. PICK j : j = [Work("read", f, snapshot[f].text) EXCEPT !.late = snapshot[f].late]
    OBVIOUS
  <1>2. /\ job["reparser"] = Idle /\ snapshot[f].text # Absent
        /\ job' = [job EXCEPT !["reparser"] = j]
        /\ snapshot' = [snapshot EXCEPT ![f] = Nothing]
        /\ UNCHANGED <<disk, buffer, last, wire, events, docs, opened, reparses, tainted, missed>>
    BY <1>1 DEF ReparseNext, Free, worldVars, watchVars
  <1>3. /\ "main" \in Threads /\ "watcher" \in Threads /\ "loader" \in Threads /\ "reparser" \in Threads
        /\ job \in [Threads -> WorkSet \cup {Idle}]
    BY DEF Threads, SyncInv, TextsTyped
  <1>4. snapshot[f] \in SnapshotSet
    BY DEF SyncInv, TextsTyped
  <1>5. /\ j \in WorkSet /\ j # Idle
        /\ j.stage = "read" /\ j.file = f /\ j.text = snapshot[f].text /\ j.late = snapshot[f].late
    <2>1. [Work("read", f, snapshot[f].text) EXCEPT !.late = snapshot[f].late] \in WorkSet
      BY <1>4 DEF Work, WorkSet, SnapshotSet
    <2>2. j.stage = "read" /\ j.file = f /\ j.text = snapshot[f].text /\ j.late = snapshot[f].late
      BY <1>1, <1>4 DEF Work, SnapshotSet
    <2> QED BY <1>1, <2>1, <2>2, IdleIsNoWork
  <1>6. job'["reparser"] = j /\ \A o \in Threads \ {"reparser"} : job'[o] = job[o]
    BY <1>2, <1>3
  <1>7. /\ snapshot' \in [Files -> SnapshotSet]
        /\ snapshot'[f].text = Absent /\ \A g \in Files \ {f} : snapshot'[g] = snapshot[g]
    <2>1. Nothing \in SnapshotSet /\ Nothing.text = Absent
      BY DEF Nothing, SnapshotSet
    <2> QED BY <1>2, <2>1 DEF SyncInv, TextsTyped
  <1>8. TextsTyped'
    <2>1. events' \in SUBSET Files /\ reparses' \in 0..Reparses
      BY <1>2 DEF SyncInv, TextsTyped
    <2> QED BY <1>2, <1>3, <1>5, <1>7, <2>1, BackgroundIsTyped
  <1>9. WireFits' /\ KnownIsOpened' /\ ServerInStep' /\ MainWritesEdited'
    BY <1>2, <1>3, <1>6, BackgroundKeepsSync
  <1>10. LateIsMarked'
    <2>1. \A g \in Files : snapshot'[g].text # Absent /\ ~snapshot'[g].late => docs'[g] = snapshot'[g].text
      BY <1>2, <1>7 DEF SyncInv, LateIsMarked
    <2>2. ~job'["reparser"].late => docs'[job'["reparser"].file] = job'["reparser"].text
      BY <1>2, <1>5, <1>6 DEF SyncInv, LateIsMarked
    <2> QED BY <1>2, <1>3, <1>6, <2>1, <2>2 DEF SyncInv, LateIsMarked
  <1>11. LogsHaveEvents'
    BY <1>2, <1>3, <1>6 DEF SyncInv, LogsHaveEvents, AtWork
  <1> QED BY <1>8, <1>9, <1>10, <1>11 DEF SyncInv

-----------------------------------------------------------------------------
(* What is about watching.                                                 *)

(* Watching a folder, or doing nothing, changes no text and no job.        *)
LEMMA WatchingKeepsSyncInv ==
  ASSUME SyncInv,
         UNCHANGED <<disk, buffer, last, wire, events, serverVars, snapshot, reparses, missed>>
  PROVE  SyncInv'
  <1> USE DEF serverVars
  <1>1. WireFits' /\ KnownIsOpened' /\ ServerInStep' /\ MainWritesEdited'
    BY BackgroundKeepsSync
  <1>2. TextsTyped' /\ LateIsMarked' /\ LogsHaveEvents'
    BY DEF SyncInv, TextsTyped, LateIsMarked, LogsHaveEvents, AtWork
  <1> QED BY <1>1, <1>2 DEF SyncInv

(* A thread goes on to watch the folder of a file.                         *)
LEMMA ThenWatchIsTyped ==
  ASSUME WatchTyped, NEW th \in Threads, NEW f \in Files,
         ThenWatch(th, f), UNCHANGED watched, missed' \in SUBSET Files
  PROVE  WatchTyped'
  BY FilesHaveFolders DEF ThenWatch, WatchTyped

(* The folders that are watched, or about to be, are folders of files.     *)
LEMMA NextKeepsWatchTyped ==
  ASSUME TextsTyped, WatchTyped, [Next]_vars
  PROVE  WatchTyped'
  <1>1. ASSUME UNCHANGED watchVars PROVE WatchTyped'
    BY <1>1 DEF watchVars, WatchTyped
  <1>2. ASSUME NEW f \in Files, WriteDisk(f) PROVE WatchTyped'
    BY <1>2 DEF WriteDisk, WatchTyped
  <1>3. ASSUME NEW th \in Threads, Store(th) PROVE WatchTyped'
    <2>1. job[th].file \in Files
      BY <1>3 DEF Store, TextsTyped, WorkSet, Idle
    <2>2. missed' \in SUBSET Files /\ UNCHANGED watched
      BY <1>3 DEF Store, WatchTyped
    <2>3. CASE UNCHANGED watching
      BY <2>2, <2>3 DEF WatchTyped
    <2>4. CASE ThenWatch(th, job[th].file)
      BY <2>1, <2>2, <2>4, ThenWatchIsTyped
    <2> QED BY <1>3, <2>3, <2>4 DEF Store
  <1>4. ASSUME NEW th \in Threads, Mark(th) PROVE WatchTyped'
    <2>1. job[th].file \in Files
      BY <1>4 DEF Mark, TextsTyped, WorkSet, Idle
    <2>2. missed' \in SUBSET Files /\ UNCHANGED watched /\ ThenWatch(th, job[th].file)
      BY <1>4 DEF Mark, WatchTyped
    <2> QED BY <2>1, <2>2, ThenWatchIsTyped
  <1>5. ASSUME NEW th \in Threads, WatchFolder(th) PROVE WatchTyped'
    BY <1>5 DEF WatchFolder, WatchTyped
  <1>6. ASSUME NEW folder \in Folders, WatchAux(folder) PROVE WatchTyped'
    BY <1>6 DEF WatchAux, WatchTyped
  <1>7. CASE World
    BY <1>1, <1>2, <1>7 DEF World, EditorOpen, EditorChange, EditorSave, EditorClose
  <1>8. CASE Main
    BY <1>1, <1>3, <1>4, <1>5, <1>8
       DEF Main, TakeOpen, TakeChange, TakeClose, Receive, Threads
  <1>9. CASE Watcher
    BY <1>1, <1>3, <1>9 DEF Watcher, WatchCheck, ReadDisk, Threads
  <1>10. CASE Loader
    BY <1>1, <1>3, <1>5, <1>10 DEF Loader, LoadCheck, ReadDisk, Threads
  <1>11. CASE Reparser
    BY <1>1, <1>3, <1>4, <1>5, <1>6, <1>11 DEF Reparser, ReparseStart, ReparseNext, Threads
  <1>12. CASE UNCHANGED vars
    BY <1>1, <1>12 DEF vars
  <1> QED BY <1>7, <1>8, <1>9, <1>10, <1>11, <1>12 DEF Next

(* A file has an event, or is reloaded, only in a watched folder: folders  *)
(* stay watched, and only an event makes the watcher go to work.           *)
LEMMA NextKeepsEventsWatched ==
  ASSUME TextsTyped, EventsAreWatched, [Next]_vars
  PROVE  EventsAreWatched'
  <1>0. "watcher" \in Threads /\ job \in [Threads -> WorkSet \cup {Idle}]
    BY DEF Threads, TextsTyped
  <1>1. ASSUME watched \subseteq watched',
               \A f \in Files : f \in events' => f \in events \/ FolderOf[f] \in watched,
               \A f \in Files : AtWork("watcher", f)' => AtWork("watcher", f) \/ f \in events
        PROVE  EventsAreWatched'
    BY <1>1 DEF EventsAreWatched
  <1>2. ASSUME UNCHANGED <<watched, events>>, job'["watcher"] = job["watcher"]
        PROVE  EventsAreWatched'
    BY <1>2 DEF EventsAreWatched, AtWork
  <1>3. ASSUME NEW f \in Files, NEW t, Modify(f, t), UNCHANGED <<watched, job>>
        PROVE  EventsAreWatched'
    BY <1>1, <1>3 DEF Modify, AtWork
  <1>4. ASSUME NEW th \in Threads, Store(th) PROVE EventsAreWatched'
    <2>1. PICK lates : lates = MakeLate(job, job[th].file, Threads \ {th})
      OBVIOUS
    <2>2. job' = [lates EXCEPT ![th] = job'[th]] /\ (th = "watcher" => job'[th] = Idle)
      <3>1. lates \in [Threads -> WorkSet \cup {Idle}]
        BY <1>0, <2>1, MakeLateShape
      <3> QED BY <1>4, <2>1, <3>1 DEF Store
    <2>3. \A f : AtWork("watcher", f)' => AtWork("watcher", f)
      BY <1>0, <2>1, <2>2, MakeLateShape DEF AtWork
    <2> QED BY <1>1, <1>4, <2>3 DEF Store
  <1>5. ASSUME NEW th \in {"main", "reparser"}, Mark(th) PROVE EventsAreWatched'
    <2>1. PICK lates : lates = MakeLate(job, job[th].file, {"watcher"})
      OBVIOUS
    <2>2. job'["watcher"] = lates["watcher"]
      <3>1. lates \in [Threads -> WorkSet \cup {Idle}]
        BY <1>0, <2>1, MakeLateShape
      <3> QED BY <1>0, <1>5, <2>1, <3>1 DEF Mark
    <2>3. \A f : AtWork("watcher", f)' => AtWork("watcher", f)
      BY <1>0, <2>1, <2>2, MakeLateShape DEF AtWork
    <2> QED BY <1>1, <1>5, <2>3 DEF Mark
  <1>6. ASSUME NEW th, WatchFolder(th) PROVE EventsAreWatched'
    BY <1>1, <1>6 DEF WatchFolder, serverVars, AtWork
  <1>7. ASSUME NEW folder, WatchAux(folder) PROVE EventsAreWatched'
    BY <1>1, <1>7 DEF WatchAux, serverVars, AtWork
  <1>8. ASSUME NEW th \in {"watcher", "loader"}, ReadDisk(th) PROVE EventsAreWatched'
    <2>1. job[th].stage = "checked" /\ job[th] \in WorkSet
      BY <1>0, <1>8 DEF ReadDisk, Threads, Idle
    <2>2. \A f : AtWork("watcher", f)' => AtWork("watcher", f)
      BY <1>0, <1>8, <2>1, IdleIsNoWork DEF ReadDisk, AtWork, WorkSet, Threads
    <2> QED BY <1>1, <1>8, <2>2 DEF ReadDisk, watchVars
  <1>9. ASSUME NEW f \in Files, WatchCheck(f) PROVE EventsAreWatched'
    <2>1. \A g : AtWork("watcher", g)' => g \in events
      BY <1>0, <1>9 DEF WatchCheck, AtWork, Work
    <2> QED BY <1>1, <1>9, <2>1 DEF WatchCheck, watchVars
  <1>10. ASSUME NEW f, NEW text, NEW whole, Receive(f, text, whole) PROVE EventsAreWatched'
    BY <1>0, <1>2, <1>10 DEF Receive, watchVars, Threads
  <1>11. CASE World
    BY <1>2, <1>3, <1>11
       DEF World, EditorOpen, EditorChange, EditorSave, EditorClose, WriteDisk,
           watchVars, serverVars, Files
  <1>12. CASE Main
    BY <1>2, <1>4, <1>5, <1>6, <1>10, <1>12
       DEF Main, TakeOpen, TakeChange, TakeClose, watchVars, Threads
  <1>13. CASE Watcher
    BY <1>4, <1>8, <1>9, <1>13 DEF Watcher, Threads
  <1>14. CASE Loader
    <2>1. ASSUME NEW f, LoadCheck(f) PROVE EventsAreWatched'
      BY <1>0, <1>2, <2>1 DEF LoadCheck, watchVars, Threads
    <2> QED BY <1>4, <1>6, <1>8, <1>14, <2>1 DEF Loader, Threads
  <1>15. CASE Reparser
    <2>1. ASSUME NEW f, ReparseNext(f) PROVE EventsAreWatched'
      BY <1>0, <1>2, <2>1 DEF ReparseNext, watchVars, Threads
    <2>2. CASE ReparseStart
      BY <1>2, <2>2 DEF ReparseStart, watchVars, serverVars
    <2> QED BY <1>4, <1>5, <1>6, <1>7, <1>15, <2>1, <2>2 DEF Reparser, Threads
  <1>16. CASE UNCHANGED vars
    BY <1>2, <1>16 DEF vars, watchVars
  <1> QED BY <1>11, <1>12, <1>13, <1>14, <1>15, <1>16 DEF Next

-----------------------------------------------------------------------------
(* The theorems.                                                           *)

(* No step of the editor, of another program or of the four threads breaks *)
(* the inductive invariant.                                                *)
LEMMA NextKeepsSyncInv ==
  ASSUME SyncInv, EventsAreWatched, [Next]_vars
  PROVE  SyncInv'
  <1>1. CASE World
    <2>1. ASSUME NEW f \in Edited, EditorOpen(f) PROVE SyncInv'
      BY <2>1, EditorOpenKeepsSyncInv
    <2>2. ASSUME NEW f \in Edited, EditorChange(f) PROVE SyncInv'
      BY <2>2, EditorChangeKeepsSyncInv
    <2>3. ASSUME NEW f \in Edited, EditorSave(f) PROVE SyncInv'
      BY <2>3, EditorSaveKeepsSyncInv
    <2>4. ASSUME NEW f \in Edited, EditorClose(f) PROVE SyncInv'
      BY <2>4, EditorCloseKeepsSyncInv
    <2>5. ASSUME NEW f \in Files, WriteDisk(f) PROVE SyncInv'
      BY <2>5, WriteDiskKeepsSyncInv
    <2> QED BY <1>1, <2>1, <2>2, <2>3, <2>4, <2>5 DEF World
  <1>2. ASSUME NEW th \in Threads, Store(th) PROVE SyncInv'
    BY <1>2, StoreKeepsSyncInv
  <1>3. CASE Main
    <2>1. CASE TakeOpen
      BY <2>1, TakeOpenKeepsSyncInv
    <2>2. CASE TakeChange
      BY <2>2, TakeChangeKeepsSyncInv
    <2>3. CASE TakeClose
      BY <2>3, TakeCloseKeepsSyncInv
    <2>4. CASE Mark("main")
      BY <2>4, MarkKeepsSyncInv
    <2>5. CASE WatchFolder("main")
      BY <2>5, WatchingKeepsSyncInv DEF WatchFolder, worldVars
    <2> QED BY <1>2, <1>3, <2>1, <2>2, <2>3, <2>4, <2>5 DEF Main, Threads
  <1>4. CASE Watcher
    <2>1. ASSUME NEW f \in Files, WatchCheck(f) PROVE SyncInv'
      BY <2>1, WatchCheckKeepsSyncInv
    <2>2. CASE ReadDisk("watcher")
      BY <2>2, ReadDiskKeepsSyncInv
    <2> QED BY <1>2, <1>4, <2>1, <2>2 DEF Watcher, Threads
  <1>5. CASE Loader
    <2>1. ASSUME NEW f \in Files, LoadCheck(f) PROVE SyncInv'
      BY <2>1, LoadCheckKeepsSyncInv
    <2>2. CASE ReadDisk("loader")
      BY <2>2, ReadDiskKeepsSyncInv
    <2>3. CASE WatchFolder("loader")
      BY <2>3, WatchingKeepsSyncInv DEF WatchFolder, worldVars
    <2> QED BY <1>2, <1>5, <2>1, <2>2, <2>3 DEF Loader, Threads
  <1>6. CASE Reparser
    <2>1. CASE ReparseStart
      BY <2>1, ReparseStartKeepsSyncInv
    <2>2. ASSUME NEW f \in Files, ReparseNext(f) PROVE SyncInv'
      BY <2>2, ReparseNextKeepsSyncInv
    <2>3. CASE Mark("reparser")
      BY <2>3, MarkKeepsSyncInv
    <2>4. CASE WatchFolder("reparser")
      BY <2>4, WatchingKeepsSyncInv DEF WatchFolder, worldVars
    <2>5. ASSUME NEW folder \in Folders, WatchAux(folder) PROVE SyncInv'
      BY <2>5, WatchingKeepsSyncInv DEF WatchAux, worldVars
    <2> QED BY <1>2, <1>6, <2>1, <2>2, <2>3, <2>4, <2>5 DEF Reparser, Threads
  <1>7. CASE UNCHANGED vars
    BY <1>7, WatchingKeepsSyncInv DEF vars, watchVars, serverVars
  <1> QED BY <1>1, <1>3, <1>4, <1>5, <1>6, <1>7 DEF Next

(* The inductive invariant holds in every state: what is on the wire fits, *)
(* what the main thread is to write is the editor's, and what another      *)
(* thread is to write is current or known to be late.                      *)
THEOREM IInvIsInvariant == Spec => []IInv
  <1>1. Init => IInv
    <2>1. Init => WatchTyped /\ EventsAreWatched
      BY DEF Init, WatchTyped, EventsAreWatched, AtWork, Threads
    <2> QED BY <2>1, InitEstablishesSyncInv DEF IInv
  <1>2. IInv /\ [Next]_vars => IInv'
    BY NextKeepsSyncInv, NextKeepsWatchTyped, NextKeepsEventsWatched DEF IInv, SyncInv
  <1> QED BY <1>1, <1>2, PTL DEF Spec

(* The texts, the jobs and the notifications have their types.             *)
THEOREM TypeCorrect == Spec => []TypeOK
  <1>1. IInv => TypeOK
    BY DEF IInv, SyncInv, TypeOK
  <1> QED BY <1>1, IInvIsInvariant, PTL

(* Once the server has handled what the editor sent about a file that is   *)
(* open, it has the editor's text, unless a thread that had read before    *)
(* wrote over it: whatever the threads do in between.                      *)
THEOREM EditorStaysInSync == Spec => []EditorInSync
  <1>1. IInv => EditorInSync
    <2> SUFFICES ASSUME IInv, NEW f \in Edited, buffer[f] # Absent, Settled(f), f \notin tainted
                 PROVE  docs[f] = buffer[f]
      BY DEF EditorInSync
    <2>1. ~InWire(f) /\ Handled(f) = docs[f]
      BY DEF Settled, Handled
    <2>2. KnownOpen(f)
      BY <2>1 DEF KnownOpen
    <2> QED BY <2>1, <2>2 DEF IInv, SyncInv, ServerInStep, IsEditors
  <1> QED BY <1>1, IInvIsInvariant, PTL

(* A log that is loaded is as it is on disk once its events are handled,   *)
(* be it marked open or not, unless another thread wrote it late, or it    *)
(* was written between the reading of its text and the watching of its     *)
(* folder.                                                                 *)
THEOREM LogsFollow == Spec => []LogsFollowDisk
  <1>1. IInv => LogsFollowDisk
    BY DEF IInv, SyncInv, LogsHaveEvents, LogsFollowDisk, Quiet, Threads
  <1> QED BY <1>1, IInvIsInvariant, PTL
=============================================================================
