-------------------------- MODULE WellFormedProofs --------------------------
(* A well-formed document of any length has a tree without MISSING and      *)
(* without ERROR: ObligationsAreMet, which TLC evaluates for the grammar of *)
(* LaTeX, is enough for it.                                                 *)
EXTENDS ParserProofs, WellFormedPlaces

(* What the document owes is shared out among the functions that are at     *)
(* work.  A call is a function at some place: `under` are the steps of its  *)
(* callers, and `base` is what was owed when it was called and is for them  *)
(* to deal with.                                                            *)
PendingCalls ==
  [place : Points, base : Seq(OwedItems), under : Seq(PointSteps)]

\* What there can be below what a function at the place x has to deal with.
Below(x, base) ==
  IF x.halved THEN { d \o (<<BraceOwed>> \o base) : d \in Seq({EndOwed}) } ELSE {base}

\* What can have been owed before the next token came.
OwedAt(x, base) == { x.owe \o u : u \in Below(x, base) }

\* The next token k may come when one of os is owed, and what is owed then is
\* now.
Accounts(os, k, now) == \E o \in os : now = Owed(o, k) /\ Allowed(Head(o), k)

\* f is the function at work.
Pays(f) ==
  /\ todo = f.place.steps \o f.under
  /\ look \in f.place.look
  /\ Accounts(OwedAt(f.place, f.base), look, owed)

\* What is for the callers to deal with begins as f takes for granted.
Rests(f) == f.base # << >> /\ Head(f.base) \in f.place.tops

\* g has called f and goes on when f returns.
Expects(f, g) ==
  /\ f.under = g.place.steps \o g.under
  /\ g.place.look = LatexLooks
  /\ f.place.out \o f.base \in OwedAt(g.place, g.base)

IsCallStack(st) ==
  /\ st \in Seq(PendingCalls) /\ st # << >>
  /\ \A i \in 1..Len(st) : st[i].place.steps # << >> /\ Rests(st[i])
  /\ \A i \in 1..Len(st) - 1 : Expects(st[i], st[i + 1])
  /\ st[Len(st)].under = << >>

\* As long as a document is well-formed its tree is clean, and the functions at
\* work account for all that it owes.
CleanInv ==
  /\ ~doc.wellFormed => owed = NotWellFormed
  /\ owed # NotWellFormed =>
       /\ clean
       /\ todo # << >> => \E st : IsCallStack(st) /\ Pays(st[1])

-----------------------------------------------------------------------------
(* What the static check says about a place.                                *)

\* A place of a function is clean, and so are those that it leads to.
LEMMA PointsAreClean ==
  ASSUME NEW x \in Points
  PROVE  /\ x \in PointSet(PointSteps)
         /\ x.steps = << >> => x.owe = x.out /\ ~x.halved
         /\ x.steps # << >> => IsClean(x, PointSteps)
         /\ x.steps # << >> => \A y \in Reaches(x) : Relaxed(y) \in Points
  <1>1. /\ x \in PointSet(PointSteps)
        /\ IF x.steps = << >> THEN x.owe = x.out /\ ~x.halved ELSE IsClean(x, PointSteps)
        /\ ReachedFrom(x) \subseteq Points
    BY ObligationsAreMet
  <1> QED BY <1>1 DEF ReachedFrom

\* The fields of a place.
LEMMA PointsAreTyped ==
  ASSUME NEW x \in Points
  PROVE  /\ x.steps \in Seq(PointSteps) /\ x.look \subseteq LatexLooks
         /\ x.owe \in Seq(OwedItems) /\ x.halved \in BOOLEAN
         /\ x.tops \subseteq OwedItems /\ x.out \in Seq(OwedItems)
  BY PointsAreClean DEF PointSet

\* The fields of a call.
LEMMA CallsAreTyped ==
  ASSUME NEW f \in PendingCalls
  PROVE  f.place \in Points /\ f.base \in Seq(OwedItems) /\ f.under \in Seq(PointSteps)
  BY DEF PendingCalls

\* There is a call at the top of the stack.
LEMMA CallStackIsNotEmpty ==
  ASSUME NEW st, IsCallStack(st)
  PROVE  /\ Len(st) \in Nat /\ Len(st) >= 1 /\ st[1] \in PendingCalls
         /\ st \in Seq(PendingCalls)
         /\ st[1].place.steps # << >> /\ Rests(st[1])
  <1>1. st \in Seq(PendingCalls) /\ st # << >>
    BY DEF IsCallStack
  <1>2. Len(st) \in Nat /\ Len(st) >= 1 /\ st[1] \in PendingCalls
    BY <1>1, HeadOfSeq
  <1>3. 1 \in 1..Len(st)
    BY <1>2
  <1> QED BY <1>1, <1>2, <1>3 DEF IsCallStack

-----------------------------------------------------------------------------
(* What is owed.                                                            *)

\* The items that the lemmas put in front of others.
LEMMA PartsAreTyped ==
  /\ << >> \in Seq(OwedItems)
  /\ <<EndOwed>> \in Seq(OwedItems) /\ <<BraceOwed>> \in Seq(OwedItems)
  /\ Name \in Seq(OwedItems)
  /\ \A t \in LatexLooks : Obligation(t) \in Seq(OwedItems)
  /\ \A d \in Seq({EndOwed}) : d \in Seq(OwedItems)
  <1>1. EndOwed \in OwedItems /\ BraceOwed \in OwedItems
    BY ItemsAreKnown
  <1>2. <<EndOwed>> \in Seq(OwedItems) /\ <<BraceOwed>> \in Seq(OwedItems)
        /\ << >> \in Seq(OwedItems)
    BY <1>1
  <1>3. ASSUME NEW d \in Seq({EndOwed}) PROVE d \in Seq(OwedItems)
    BY <1>1
  <1> QED BY <1>2, <1>3, ItemsAreKnown

\* Nothing in front of a sequence, and something in front of two.
LEMMA InFront ==
  ASSUME NEW S, NEW a \in Seq(S), NEW b \in Seq(S), NEW c \in Seq(S)
  PROVE  /\ << >> \o a = a /\ a \o << >> = a
         /\ a \o b \in Seq(S)
         /\ (a \o b) \o c = a \o (b \o c)
  BY ConcatEmptySeq, ConcatAssociative, ConcatProperties

\* If the first part of what is owed is not empty a token changes only that.
LEMMA OwedOfConcat ==
  ASSUME NEW a \in Seq(OwedItems), NEW u \in Seq(OwedItems), a # << >>,
         NEW t \in LatexLooks, Allowed(Head(a), t)
  PROVE  Owed(a, t) \in Seq(OwedItems) /\ Owed(a \o u, t) = Owed(a, t) \o u
  <1>1. /\ Head(a \o u) = Head(a) /\ Tail(a \o u) = Tail(a) \o u
        /\ Tail(a) \in Seq(OwedItems)
    BY HeadOfConcat, HeadOfSeq
  <1>2. CASE t = Head(a).kind
    <2>1. PICK p : p = IF t = "END_ENVIRONMENT_NAME" THEN Name ELSE << >>
      OBVIOUS
    <2>2. p \in Seq(OwedItems)
      BY <2>1, PartsAreTyped
    <2>3. Owed(a, t) = p \o Tail(a) /\ Owed(a \o u, t) = p \o (Tail(a) \o u)
      BY <1>1, <1>2, <2>1 DEF Owed
    <2>4. PICK r : r = Tail(a)
      OBVIOUS
    <2>5. p \o r \in Seq(OwedItems) /\ (p \o r) \o u = p \o (r \o u)
      BY <1>1, <2>2, <2>4, InFront
    <2> QED BY <2>3, <2>4, <2>5
  <1>3. CASE t # Head(a).kind
    <2>1. PICK p : p = Obligation(t)
      OBVIOUS
    <2>2. p \in Seq(OwedItems)
      BY <2>1, PartsAreTyped
    <2>3. Owed(a, t) = p \o a /\ Owed(a \o u, t) = p \o (a \o u)
      BY <1>1, <1>3, <2>1 DEF Owed
    <2>4. p \o a \in Seq(OwedItems) /\ (p \o a) \o u = p \o (a \o u)
      BY <2>2, InFront
    <2> QED BY <2>3, <2>4
  <1> QED BY <1>2, <1>3

\* A token that begins something new changes nothing of what is owed.
LEMMA OwedOfNew ==
  ASSUME NEW u, NEW t, Allowed(Head(u), t), Head(u).kind # t
  PROVE  Owed(u, t) = Obligation(t) \o u
  BY DEF Owed

\* What is below is not empty, and its first item is as the place says.
LEMMA BelowIsKnown ==
  ASSUME NEW x, x.halved \in BOOLEAN, x.owe \in Seq(OwedItems),
         NEW b \in Seq(OwedItems), b # << >>, Head(b) \in x.tops, NEW u \in Below(x, b)
  PROVE  /\ u \in Seq(OwedItems) /\ u # << >> /\ Head(u) \in FirstBelow(x)
         /\ x.owe \o u \in Seq(OwedItems) /\ x.owe \o u # << >>
         /\ Head(x.owe \o u) \in Firsts(x)
  <1>1. u \in Seq(OwedItems) /\ u # << >> /\ Head(u) \in FirstBelow(x)
    <2>1. CASE ~x.halved
      BY <2>1 DEF Below, FirstBelow
    <2>2. CASE x.halved
      <3>1. PICK d \in Seq({EndOwed}) : u = d \o (<<BraceOwed>> \o b)
        BY <2>2 DEF Below
      <3>2. PICK r : r = <<BraceOwed>> \o b
        OBVIOUS
      <3>3. d \in Seq(OwedItems) /\ <<BraceOwed>> \in Seq(OwedItems) /\ <<BraceOwed>> # << >>
            /\ Head(<<BraceOwed>>) = BraceOwed
        BY PartsAreTyped
      <3>4. r \in Seq(OwedItems) /\ r # << >> /\ Head(r) = BraceOwed
        BY <3>2, <3>3, HeadOfConcat, InFront
      <3>5. CASE d = << >>
        <4>1. u = r
          BY <3>1, <3>2, <3>4, <3>5, InFront
        <4> QED BY <2>2, <3>4, <4>1 DEF FirstBelow
      <3>6. CASE d # << >>
        <4>1. Head(d) = EndOwed
          BY <3>6
        <4>2. u \in Seq(OwedItems) /\ u # << >> /\ Head(u) = EndOwed
          BY <3>1, <3>2, <3>3, <3>4, <3>6, <4>1, HeadOfConcat, InFront
        <4> QED BY <2>2, <4>2 DEF FirstBelow
      <3> QED BY <3>5, <3>6
    <2> QED BY <2>1, <2>2
  <1>2. CASE x.owe = << >>
    <2>1. x.owe \o u = u
      BY <1>1, <1>2, InFront
    <2> QED BY <1>1, <1>2, <2>1 DEF Firsts
  <1>3. CASE x.owe # << >>
    <2>1. x.owe \o u \in Seq(OwedItems) /\ x.owe \o u # << >> /\ Head(x.owe \o u) = Head(x.owe)
      BY <1>1, <1>3, HeadOfConcat, InFront
    <2> QED BY <1>1, <1>3, <2>1 DEF Firsts
  <1> QED BY <1>2, <1>3

\* The token that is next is one of those that fit.
LEMMA NextFits ==
  ASSUME NEW x, x.halved \in BOOLEAN, x.owe \in Seq(OwedItems),
         NEW b \in Seq(OwedItems), b # << >>, Head(b) \in x.tops,
         NEW k \in x.look, NEW now, Accounts(OwedAt(x, b), k, now)
  PROVE  k \in Fitting(x)
  <1>1. PICK o \in OwedAt(x, b) : Allowed(Head(o), k)
    BY DEF Accounts
  <1>2. PICK u \in Below(x, b) : o = x.owe \o u
    BY <1>1 DEF OwedAt
  <1>3. Head(o) \in Firsts(x)
    BY <1>2, BelowIsKnown
  <1> QED BY <1>1, <1>3 DEF Fitting

\* The fields of a place that a function has moved to.
LEMMA MovedIsAPlace ==
  ASSUME NEW x, NEW s, NEW k, NEW o, NEW h
  PROVE  LET y == Moved(x, s, k, o, h)
         IN  /\ y.steps = s /\ y.look = k /\ y.owe = o /\ y.halved = h
             /\ y.tops = x.tops /\ y.out = x.out
  BY DEF Moved

\* Where any number of \end's may be owed below, a token that may come tells
\* whether one is.
LEMMA HalvesAreKnown ==
  ASSUME NEW d \in Seq({EndOwed}), NEW b \in Seq(OwedItems), NEW t,
         Allowed(Head(d \o (<<BraceOwed>> \o b)), t)
  PROVE  /\ t = EndOwed.kind => \E e \in Seq({EndOwed}) : d = <<EndOwed>> \o e
         /\ t = BraceOwed.kind => d = << >>
  <1>1. PICK r : r = <<BraceOwed>> \o b
    OBVIOUS
  <1>2. d \in Seq(OwedItems) /\ <<BraceOwed>> \in Seq(OwedItems)
    BY PartsAreTyped
  <1>3. r \in Seq(OwedItems) /\ r # << >> /\ Head(r) = BraceOwed
    BY <1>1, <1>2, HeadOfConcat, InFront
  <1>4. CASE d = << >>
    <2>1. d \o r = r
      BY <1>3, <1>4, InFront
    <2>2. Allowed(BraceOwed, t)
      BY <1>1, <1>3, <2>1
    <2>3. t # EndOwed.kind
      BY <2>2 DEF Allowed, Closers, EndOwed, BraceOwed, Later
    <2> QED BY <1>4, <2>3
  <1>5. CASE d # << >>
    <2>1. Head(d) = EndOwed /\ Tail(d) \in Seq({EndOwed}) /\ d = <<EndOwed>> \o Tail(d)
      BY <1>5, HeadOfSeq
    <2>2. Head(d \o r) = EndOwed
      BY <1>2, <1>3, <1>5, <2>1, HeadOfConcat
    <2>3. Allowed(EndOwed, t)
      BY <1>1, <2>2
    <2>4. t # BraceOwed.kind
      BY <2>3 DEF Allowed, Closers, EndOwed, BraceOwed, Later
    <2> QED BY <2>1, <2>4
  <1> QED BY <1>4, <1>5

\* What the next token tells is true.
LEMMA ExposedIsSo ==
  ASSUME NEW x, x.halved \in BOOLEAN, x.owe \in Seq(OwedItems),
         NEW b \in Seq(OwedItems), NEW k, NEW o \in OwedAt(x, b), Allowed(Head(o), k)
  PROVE  LET y == Exposed(x, k)
         IN  /\ y.steps = x.steps /\ y.tops = x.tops /\ y.out = x.out
             /\ y.halved \in BOOLEAN /\ y.owe \in Seq(OwedItems)
             /\ o \in OwedAt(y, b)
  <1>1. PICK y : y = Exposed(x, k)
    OBVIOUS
  <1>2. PICK u \in Below(x, b) : o = x.owe \o u
    BY DEF OwedAt
  <1>3. <<EndOwed>> \in Seq(OwedItems) /\ <<BraceOwed>> \in Seq(OwedItems)
    BY PartsAreTyped
  <1>4. CASE x.owe = << >> /\ x.halved /\ k \in {EndOwed.kind, BraceOwed.kind}
    <2>1. PICK r : r = <<BraceOwed>> \o b
      OBVIOUS
    <2>2. PICK d \in Seq({EndOwed}) : u = d \o r
      BY <1>2, <1>4, <2>1 DEF Below
    <2>3. r \in Seq(OwedItems) /\ d \in Seq(OwedItems)
      BY <1>3, <2>1, <2>2, InFront, PartsAreTyped
    <2>4. o = d \o r
      <3>1. d \o r \in Seq(OwedItems)
        BY <2>3, InFront
      <3> QED BY <1>2, <1>4, <2>2, <3>1, InFront
    <2>5. /\ k = EndOwed.kind => \E e \in Seq({EndOwed}) : d = <<EndOwed>> \o e
          /\ k = BraceOwed.kind => d = << >>
      BY <2>1, <2>2, <2>4, HalvesAreKnown
    <2>6. CASE k = EndOwed.kind
      <3>1. PICK e \in Seq({EndOwed}) : d = <<EndOwed>> \o e
        BY <2>5, <2>6
      <3>2. /\ y.steps = x.steps /\ y.owe = <<EndOwed>> /\ y.halved = TRUE
            /\ y.tops = x.tops /\ y.out = x.out
        <4>1. y = Moved(x, x.steps, {k}, <<EndOwed>>, TRUE)
          <5>1. k # BraceOwed.kind
            BY <2>6 DEF EndOwed, BraceOwed, Later
          <5> QED BY <1>1, <1>4, <2>6, <5>1 DEF Exposed
        <4> QED BY <4>1 DEF Moved
      <3>3. e \in Seq(OwedItems)
        BY PartsAreTyped
      <3>4. (<<EndOwed>> \o e) \o r = <<EndOwed>> \o (e \o r)
        BY <1>3, <2>3, <3>3, InFront
      <3>5. e \o r \in Below(y, b)
        BY <2>1, <3>2 DEF Below
      <3>6. o \in OwedAt(y, b)
        BY <2>4, <3>1, <3>2, <3>4, <3>5 DEF OwedAt
      <3> QED BY <1>1, <1>3, <3>2, <3>6
    <2>7. CASE k = BraceOwed.kind /\ k # EndOwed.kind
      <3>1. /\ y.steps = x.steps /\ y.owe = <<BraceOwed>> /\ y.halved = FALSE
            /\ y.tops = x.tops /\ y.out = x.out
        <4>1. y = Moved(x, x.steps, {k}, <<BraceOwed>>, FALSE)
          BY <1>1, <1>4, <2>7 DEF Exposed
        <4> QED BY <4>1 DEF Moved
      <3>2. o = <<BraceOwed>> \o b
        BY <2>1, <2>3, <2>4, <2>5, <2>7, InFront
      <3>3. o \in OwedAt(y, b)
        BY <3>1, <3>2 DEF OwedAt, Below
      <3> QED BY <1>1, <1>3, <3>1, <3>3
    <2> QED BY <1>4, <2>6, <2>7
  <1>5. CASE ~(x.owe = << >> /\ x.halved /\ k \in {EndOwed.kind, BraceOwed.kind})
    <2>1. y = Moved(x, x.steps, {k}, x.owe, x.halved)
      BY <1>1, <1>5 DEF Exposed
    <2>2. /\ y.steps = x.steps /\ y.owe = x.owe /\ y.halved = x.halved
          /\ y.tops = x.tops /\ y.out = x.out
      BY <2>1, MovedIsAPlace
    <2>3. Below(y, b) = Below(x, b)
      BY <2>2 DEF Below
    <2>4. o \in OwedAt(y, b)
      BY <1>2, <2>2, <2>3 DEF OwedAt
    <2> QED BY <1>1, <2>2, <2>4
  <1> QED BY <1>4, <1>5

\* What a place forgets at the head of a loop it need not know.
LEMMA RelaxedIsWider ==
  ASSUME NEW y, y.halved \in BOOLEAN, y.owe \in Seq(OwedItems), y.look \subseteq LatexLooks,
         NEW b \in Seq(OwedItems)
  PROVE  LET z == Relaxed(y)
         IN  /\ z.steps = y.steps /\ z.tops = y.tops /\ z.out = y.out
             /\ y.look \subseteq z.look
             /\ OwedAt(y, b) \subseteq OwedAt(z, b)
  <1>1. PICK z : z = Relaxed(y)
    OBVIOUS
  <1>2. <<EndOwed>> \in Seq(OwedItems) /\ <<BraceOwed>> \in Seq(OwedItems)
        /\ << >> \in Seq(OwedItems)
    BY PartsAreTyped
  <1>3. PICK r : r = <<BraceOwed>> \o b
    OBVIOUS
  <1>4. r \in Seq(OwedItems)
    BY <1>2, <1>3, InFront
  <1>5. CASE z = y
    BY <1>1, <1>5
  <1>6. CASE z = Moved(y, y.steps, LatexLooks, y.owe, y.halved)
    <2>1. /\ z.steps = y.steps /\ z.look = LatexLooks /\ z.owe = y.owe
          /\ z.halved = y.halved /\ z.tops = y.tops /\ z.out = y.out
      BY <1>6, MovedIsAPlace
    <2>2. OwedAt(z, b) = OwedAt(y, b)
      BY <2>1 DEF OwedAt, Below
    <2> QED BY <1>1, <2>1, <2>2
  <1>7. CASE z = Moved(y, y.steps, LatexLooks, << >>, TRUE) /\ ~y.halved /\ y.owe = <<BraceOwed>>
    <2>1. /\ z.steps = y.steps /\ z.look = LatexLooks /\ z.owe = << >>
          /\ z.halved = TRUE /\ z.tops = y.tops /\ z.out = y.out
      BY <1>7 DEF Moved
    <2>2. ASSUME NEW o \in OwedAt(y, b) PROVE o \in OwedAt(z, b)
      <3>1. o = r
        BY <1>3, <1>7 DEF OwedAt, Below
      <3>2. << >> \o r = r /\ << >> \o (<< >> \o r) = r
        BY <1>2, <1>4, InFront
      <3>3. << >> \in Seq({EndOwed})
        OBVIOUS
      <3>4. << >> \o r \in Below(z, b)
        BY <1>3, <2>1, <3>3 DEF Below
      <3>5. << >> \o (<< >> \o r) \in OwedAt(z, b)
        BY <2>1, <3>4 DEF OwedAt
      <3> QED BY <3>1, <3>2, <3>5
    <2> QED BY <1>1, <2>1, <2>2
  <1>8. CASE z = Moved(y, y.steps, LatexLooks, << >>, TRUE) /\ y.halved /\ y.owe = <<EndOwed>>
    <2>1. /\ z.steps = y.steps /\ z.look = LatexLooks /\ z.owe = << >>
          /\ z.halved = TRUE /\ z.tops = y.tops /\ z.out = y.out
      BY <1>8 DEF Moved
    <2>2. ASSUME NEW o \in OwedAt(y, b) PROVE o \in OwedAt(z, b)
      <3>1. PICK d \in Seq({EndOwed}) : o = <<EndOwed>> \o (d \o r)
        BY <1>3, <1>8 DEF OwedAt, Below
      <3>2. PICK e : e = <<EndOwed>> \o d
        OBVIOUS
      <3>3. e \in Seq({EndOwed}) /\ d \in Seq(OwedItems) /\ e \in Seq(OwedItems)
        BY <3>2, PartsAreTyped
      <3>4. o = e \o r /\ e \o r \in Seq(OwedItems)
        BY <1>2, <1>4, <3>1, <3>2, <3>3, InFront
      <3>5. e \o r \in Below(z, b)
        BY <1>3, <2>1, <3>3 DEF Below
      <3>6. << >> \o (e \o r) \in OwedAt(z, b)
        BY <2>1, <3>5 DEF OwedAt
      <3> QED BY <1>4, <3>3, <3>4, <3>6, InFront
    <2> QED BY <1>1, <2>1, <2>2
  <1>9. \/ z = y
        \/ z = Moved(y, y.steps, LatexLooks, y.owe, y.halved)
        \/ z = Moved(y, y.steps, LatexLooks, << >>, TRUE) /\ ~y.halved /\ y.owe = <<BraceOwed>>
        \/ z = Moved(y, y.steps, LatexLooks, << >>, TRUE) /\ y.halved /\ y.owe = <<EndOwed>>
    <2>1. CASE ~AtLoop(y)
      <3>1. z = y
        BY <1>1, <2>1 DEF Relaxed, HasHalves
      <3> QED BY <3>1
    <2>2. CASE AtLoop(y) /\ HasHalves(y)
               /\ ~y.halved /\ y.owe = <<BraceOwed>>
      <3>1. z = Moved(y, y.steps, LatexLooks, << >>, TRUE)
        BY <1>1, <2>2 DEF Relaxed
      <3> QED BY <2>2, <3>1
    <2>3. CASE AtLoop(y) /\ HasHalves(y)
               /\ y.halved /\ y.owe = <<EndOwed>>
      <3>1. z = Moved(y, y.steps, LatexLooks, << >>, TRUE)
        BY <1>1, <2>3 DEF Relaxed
      <3> QED BY <2>3, <3>1
    <2>4. CASE /\ AtLoop(y)
               /\ ~(HasHalves(y) /\ ~y.halved /\ y.owe = <<BraceOwed>>)
               /\ ~(HasHalves(y) /\ y.halved /\ y.owe = <<EndOwed>>)
      <3>1. z = Moved(y, y.steps, LatexLooks, y.owe, y.halved)
        BY <1>1, <2>4 DEF Relaxed
      <3> QED BY <3>1
    <2> QED BY <2>1, <2>2, <2>3, <2>4
  <1> QED BY <1>5, <1>6, <1>7, <1>8, <1>9

-----------------------------------------------------------------------------
(* The stack of calls.                                                      *)

\* What a step leaves true in a well-formed document that stays one.
StaysClean == doc.wellFormed /\ doc' = doc /\ clean'

\* The call at the top of the stack is c now, for the same callers.
LEMMA TopReplaced ==
  ASSUME NEW st, IsCallStack(st), NEW f, f = st[1],
         NEW c \in PendingCalls, c.place.steps # << >>, Rests(c),
         c.under = f.under, c.place.out \o c.base = f.place.out \o f.base,
         StaysClean, Pays(c)'
  PROVE  CleanInv'
  <1> DEFINE new == [st EXCEPT ![1] = c]
  <1>1. Len(st) \in Nat /\ Len(st) >= 1 /\ st \in Seq(PendingCalls)
    BY CallStackIsNotEmpty
  <1>2. new \in Seq(PendingCalls) /\ new # << >> /\ Len(new) = Len(st) /\ new[1] = c
        /\ \A i \in 2..Len(st) : new[i] = st[i]
    BY <1>1
  <1> HIDE DEF new
  <1>3. IsCallStack(new)
    <2>1. \A i \in 1..Len(new) : new[i].place.steps # << >> /\ Rests(new[i])
      BY <1>1, <1>2 DEF IsCallStack
    <2>2. ASSUME NEW i \in 1..Len(new) - 1 PROVE Expects(new[i], new[i + 1])
      <3>1. Expects(st[i], st[i + 1]) /\ new[i + 1] = st[i + 1]
        <4>1. i \in 1..Len(st) - 1 /\ i + 1 \in 2..Len(st)
          BY <1>1, <1>2
        <4> QED BY <1>2, <4>1 DEF IsCallStack
      <3>2. new[i].under = st[i].under
            /\ new[i].place.out \o new[i].base = st[i].place.out \o st[i].base
        <4>1. CASE i = 1
          BY <1>2, <4>1
        <4>2. CASE i # 1
          <5>1. i \in 2..Len(st)
            BY <1>1, <1>2, <4>2
          <5> QED BY <1>2, <5>1
        <4> QED BY <4>1, <4>2
      <3> QED BY <3>1, <3>2 DEF Expects
    <2>3. new[Len(new)].under = << >>
      BY <1>1, <1>2 DEF IsCallStack
    <2> QED BY <1>2, <2>1, <2>2, <2>3 DEF IsCallStack
  <1>4. Pays(new[1])'
    BY <1>2
  <1> QED BY <1>3, <1>4 DEF CleanInv, StaysClean

\* The function at the top has come to its end, and its callers' is owed: it
\* returns to its caller, or the run is over.
LEMMA TopIsLeft ==
  ASSUME NEW st, IsCallStack(st), NEW f, f = st[1],
         StaysClean, todo' = f.under, look' \in LatexLooks,
         Accounts({f.place.out \o f.base}, look', owed')
  PROVE  CleanInv'
  <1> DEFINE new == Tail(st)
  <1>1. Len(st) \in Nat /\ Len(st) >= 1 /\ st \in Seq(PendingCalls) /\ st # << >>
    BY CallStackIsNotEmpty DEF IsCallStack
  <1>2. CASE Len(st) = 1
    <2>1. todo' = << >>
      BY <1>2 DEF IsCallStack
    <2> QED BY <2>1 DEF CleanInv, StaysClean
  <1>3. CASE Len(st) # 1
    <2>1. /\ new \in Seq(PendingCalls) /\ Len(new) = Len(st) - 1
          /\ \A i \in 1..Len(st) - 1 : new[i] = st[i + 1]
      BY <1>1, HeadOfSeq
    <2> HIDE DEF new
    <2>2. new # << >> /\ 1 \in 1..Len(st) - 1 /\ 1 \in 1..Len(new)
      BY <1>1, <1>3, <2>1
    <2>3. IsCallStack(new)
      <3>1. ASSUME NEW i \in 1..Len(new)
            PROVE  new[i].place.steps # << >> /\ Rests(new[i])
        <4>1. i + 1 \in 1..Len(st) /\ new[i] = st[i + 1]
          BY <1>1, <2>1
        <4> QED BY <4>1 DEF IsCallStack
      <3>2. ASSUME NEW i \in 1..Len(new) - 1 PROVE Expects(new[i], new[i + 1])
        <4>1. i + 1 \in 1..Len(st) - 1 /\ new[i] = st[i + 1] /\ new[i + 1] = st[(i + 1) + 1]
          BY <1>1, <2>1
        <4> QED BY <4>1 DEF IsCallStack
      <3>3. new[Len(new)].under = << >>
        <4>1. new[Len(new)] = st[Len(st)]
          BY <1>1, <2>1, <2>2
        <4> QED BY <4>1 DEF IsCallStack
      <3> QED BY <2>1, <2>2, <3>1, <3>2, <3>3 DEF IsCallStack
    <2>4. Expects(f, new[1])
      <3>1. new[1] = st[1 + 1]
        BY <2>1, <2>2
      <3> QED BY <2>2, <3>1 DEF IsCallStack
    <2>5. Pays(new[1])'
      <3>1. todo' = new[1].place.steps \o new[1].under /\ look' \in new[1].place.look
        BY <2>4 DEF Expects
      <3>2. Accounts(OwedAt(new[1].place, new[1].base), look', owed')
        BY <2>4 DEF Expects, Accounts
      <3> QED BY <3>1, <3>2 DEF Pays
    <2> QED BY <2>3, <2>5 DEF CleanInv, StaysClean
  <1> QED BY <1>2, <1>3

\* c is called by the function at the top of the stack, which goes on at w.
LEMMA TopCallsOn ==
  ASSUME NEW st, IsCallStack(st), NEW f, f = st[1],
         NEW w \in Points, w.steps # << >>, w.tops = f.place.tops, w.out = f.place.out,
         NEW c \in PendingCalls, c.place.steps # << >>, Rests(c),
         Expects(c, [place |-> w, base |-> f.base, under |-> f.under]),
         StaysClean, Pays(c)'
  PROVE  CleanInv'
  <1> DEFINE g == [place |-> w, base |-> f.base, under |-> f.under]
             new == [i \in 1..Len(st) + 1 |-> IF i = 1 THEN c ELSE
                                              IF i = 2 THEN g ELSE st[i - 1]]
  <1>1. Len(st) \in Nat /\ Len(st) >= 1 /\ st \in Seq(PendingCalls)
        /\ f \in PendingCalls /\ Rests(f)
    BY CallStackIsNotEmpty
  <1>2. /\ g.place = w /\ g.base = f.base /\ g.under = f.under
        /\ g \in PendingCalls /\ Rests(g)
    <2>1. /\ g.place = w /\ g.base = f.base /\ g.under = f.under
      OBVIOUS
    <2>2. g \in PendingCalls
      BY <1>1, CallsAreTyped DEF PendingCalls
    <2> HIDE DEF g
    <2> QED BY <1>1, <2>1, <2>2 DEF Rests
  <1>3. new \in Seq(PendingCalls) /\ new # << >> /\ Len(new) = Len(st) + 1 /\ new[1] = c
        /\ new[2] = g /\ \A i \in 2..Len(st) : new[i + 1] = st[i]
    <2>1. \A i \in 1..Len(st) + 1 : new[i] \in PendingCalls
      <3> HIDE DEF g
      <3> QED BY <1>1, <1>2
    <2> HIDE DEF g
    <2> QED BY <1>1, <2>1
  <1>4. IsCallStack(new)
    <2>0. /\ \A i \in 1..Len(st) : st[i].place.steps # << >> /\ Rests(st[i])
          /\ \A i \in 1..Len(st) - 1 : Expects(st[i], st[i + 1])
          /\ st[Len(st)].under = << >>
      BY DEF IsCallStack
    <2>a. Expects(c, g)
      OBVIOUS
    <2> HIDE DEF g, new
    <2>1. ASSUME NEW i \in 1..Len(new)
          PROVE  new[i].place.steps # << >> /\ Rests(new[i])
      <3>1. CASE i = 1
        BY <1>3, <3>1
      <3>2. CASE i = 2
        BY <1>2, <1>3, <3>2
      <3>3. CASE i > 2
        <4>1. i - 1 \in 2..Len(st) /\ i - 1 \in 1..Len(st) /\ (i - 1) + 1 = i
          BY <1>1, <1>3, <3>3
        <4>2. new[i] = st[i - 1]
          BY <1>3, <4>1
        <4> QED BY <2>0, <4>1, <4>2
      <3> QED BY <1>1, <1>3, <3>1, <3>2, <3>3
    <2>2. ASSUME NEW i \in 1..Len(new) - 1 PROVE Expects(new[i], new[i + 1])
      <3>1. CASE i = 1
        BY <1>3, <2>a, <3>1
      <3>2. CASE i = 2
        <4>1. Len(st) >= 2 /\ 2 \in 2..Len(st) /\ 1 \in 1..Len(st) - 1
          BY <1>1, <1>3, <3>2
        <4>2. new[2 + 1] = st[2] /\ Expects(st[1], st[1 + 1])
          BY <1>3, <2>0, <4>1
        <4>3. Expects(f, new[3])
          BY <4>2
        <4>4. Expects(g, new[3])
          BY <1>2, <4>3 DEF Expects
        <4> QED BY <1>3, <3>2, <4>4
      <3>3. CASE i > 2
        <4>1. i - 1 \in 2..Len(st) - 1 /\ i \in 2..Len(st) /\ (i - 1) + 1 = i
          BY <1>1, <1>3, <3>3
        <4>2. new[(i - 1) + 1] = st[i - 1] /\ new[i + 1] = st[i]
          BY <1>3, <4>1
        <4>3. i - 1 \in 1..Len(st) - 1
          BY <1>1, <4>1
        <4>4. Expects(st[i - 1], st[(i - 1) + 1])
          BY <2>0, <4>3
        <4> QED BY <4>1, <4>2, <4>4
      <3> QED BY <1>1, <1>3, <3>1, <3>2, <3>3
    <2>3. new[Len(new)].under = << >>
      <3>1. CASE Len(st) = 1
        BY <1>2, <1>3, <2>0, <3>1
      <3>2. CASE Len(st) # 1
        <4>1. Len(st) \in 2..Len(st)
          <5>1. Len(st) \in Nat /\ Len(st) >= 1
            BY <1>1
          <5>2. \A n \in Nat : n >= 1 /\ n # 1 => n \in 2..n
            OBVIOUS
          <5> QED BY <3>2, <5>1, <5>2
        <4>2. new[Len(st) + 1] = st[Len(st)] /\ Len(new) = Len(st) + 1
          BY <1>3, <4>1
        <4> QED BY <2>0, <4>2
      <3> QED BY <3>1, <3>2
    <2> QED BY <1>3, <2>1, <2>2, <2>3 DEF IsCallStack
  <1>5. Pays(new[1])'
    <2> HIDE DEF g, new
    <2> QED BY <1>3
  <1> HIDE DEF new
  <1> QED BY <1>4, <1>5 DEF CleanInv, StaysClean

-----------------------------------------------------------------------------
(* A function goes from one place to another.                               *)

\* The function at the top of the stack, st, is the call f, at the place x.
AtPoint(st, f, x) == IsCallStack(st) /\ f = st[1] /\ x = f.place /\ Pays(f)

\* What is known there.
KnowsPoint(f, x) ==
  /\ x \in Points /\ f.place = x
  /\ f.base \in Seq(OwedItems) /\ f.under \in Seq(PointSteps) /\ Rests(f)
  /\ x.steps \in Seq(PointSteps) /\ x.steps # << >>
  /\ Tail(x.steps) \in Seq(PointSteps)
  /\ x.steps = <<Head(x.steps)>> \o Tail(x.steps)
  /\ Head(x.steps) \in PointSteps
  /\ Head(todo) = Head(x.steps) /\ Tail(todo) = Tail(x.steps) \o f.under
  /\ todo = x.steps \o f.under
  /\ IsClean(x, PointSteps)
  /\ \A y \in Reaches(x) : Relaxed(y) \in Points
  /\ look \in x.look /\ look \in LatexLooks /\ look \in Fitting(x)
  /\ Accounts(OwedAt(x, f.base), look, owed)

LEMMA AtTopPoint ==
  ASSUME NEW st, NEW f, NEW x, AtPoint(st, f, x)
  PROVE  KnowsPoint(f, x) /\ f \in PendingCalls
  <1>1. f \in PendingCalls /\ x \in Points /\ f.place = x /\ x.steps # << >> /\ Rests(f)
    BY CallStackIsNotEmpty, CallsAreTyped DEF AtPoint
  <1>2. /\ x.steps \in Seq(PointSteps) /\ x.look \subseteq LatexLooks
        /\ x.owe \in Seq(OwedItems) /\ x.halved \in BOOLEAN
    BY <1>1, PointsAreTyped
  <1>3. f.base \in Seq(OwedItems) /\ f.under \in Seq(PointSteps)
    BY <1>1, CallsAreTyped
  <1>4. /\ todo = x.steps \o f.under /\ look \in x.look
        /\ Accounts(OwedAt(x, f.base), look, owed)
    BY <1>1 DEF AtPoint, Pays
  <1>5. Tail(x.steps) \in Seq(PointSteps) /\ x.steps = <<Head(x.steps)>> \o Tail(x.steps)
        /\ Head(x.steps) \in PointSteps
    BY <1>1, <1>2, HeadOfSeq
  <1>6. Head(todo) = Head(x.steps) /\ Tail(todo) = Tail(x.steps) \o f.under
    BY <1>1, <1>2, <1>3, <1>4, HeadOfConcat
  <1>7. IsClean(x, PointSteps) /\ \A y \in Reaches(x) : Relaxed(y) \in Points
    BY <1>1, PointsAreClean
  <1>8. look \in Fitting(x)
    <2>1. f.base # << >> /\ Head(f.base) \in x.tops
      BY <1>1 DEF Rests
    <2> QED BY <1>2, <1>3, <1>4, <2>1, NextFits
  <1> QED BY <1>1, <1>2, <1>3, <1>4, <1>5, <1>6, <1>7, <1>8 DEF KnowsPoint

\* The function goes on at y.
LEMMA TopGoesOnAt ==
  ASSUME NEW st, NEW f, NEW x, AtPoint(st, f, x),
         NEW y \in Reaches(x), y.tops = x.tops, y.out = x.out,
         y.halved \in BOOLEAN, y.owe \in Seq(OwedItems), y.look \subseteq LatexLooks,
         StaysClean, todo' = y.steps \o f.under, look' \in y.look,
         Accounts(OwedAt(y, f.base), look', owed')
  PROVE  CleanInv'
  <1>1. KnowsPoint(f, x) /\ f \in PendingCalls /\ IsCallStack(st) /\ f = st[1]
    BY AtTopPoint DEF AtPoint
  <1>2. f.base \in Seq(OwedItems) /\ f.under \in Seq(PointSteps) /\ f.place = x /\ Rests(f)
    BY <1>1 DEF KnowsPoint
  <1>3. PICK z : z = Relaxed(y)
    OBVIOUS
  <1>4. z \in Points
    BY <1>1, <1>3 DEF KnowsPoint
  <1>5. /\ z.steps = y.steps /\ z.tops = x.tops /\ z.out = x.out /\ look' \in z.look
        /\ OwedAt(y, f.base) \subseteq OwedAt(z, f.base)
    BY <1>2, <1>3, RelaxedIsWider
  <1>6. Accounts(OwedAt(z, f.base), look', owed')
    BY <1>5 DEF Accounts
  <1>7. CASE z.steps = << >>
    <2>1. z.owe = z.out /\ ~z.halved
      BY <1>4, <1>7, PointsAreClean
    <2>2. OwedAt(z, f.base) = {f.place.out \o f.base}
      BY <1>2, <1>5, <2>1 DEF OwedAt, Below
    <2>3. todo' = f.under
      BY <1>2, <1>5, <1>7, InFront
    <2>4. look' \in LatexLooks
      OBVIOUS
    <2> QED BY <1>1, <1>6, <2>2, <2>3, <2>4, TopIsLeft
  <1>8. CASE z.steps # << >>
    <2>1. PICK c : c = [place |-> z, base |-> f.base, under |-> f.under]
      OBVIOUS
    <2>2. c.place = z /\ c.base = f.base /\ c.under = f.under
      BY <2>1
    <2>3. c \in PendingCalls
      BY <1>2, <1>4, <2>1 DEF PendingCalls
    <2>4. Rests(c)
      BY <1>2, <1>5, <2>2 DEF Rests
    <2>5. Pays(c)'
      BY <1>5, <1>6, <2>2 DEF Pays
    <2>6. c.place.out \o c.base = f.place.out \o f.base
      BY <1>2, <1>5, <2>2
    <2> QED BY <1>1, <1>8, <2>2, <2>3, <2>4, <2>5, <2>6, TopReplaced
  <1> QED BY <1>7, <1>8

\* It goes on at s, and nothing has been eaten.
LEMMA TopStays ==
  ASSUME NEW st, NEW f, NEW x, AtPoint(st, f, x), NEW s, NEW k, look \in k, k \subseteq LatexLooks,
         Moved(x, s, k, x.owe, x.halved) \in Reaches(x),
         todo' = s \o f.under, StaysClean, UNCHANGED <<look, owed>>
  PROVE  CleanInv'
  <1>1. KnowsPoint(f, x) /\ f \in PendingCalls
    BY AtTopPoint
  <1>2. x \in Points /\ Accounts(OwedAt(x, f.base), look, owed)
    BY <1>1 DEF KnowsPoint
  <1>3. PICK y : y = Moved(x, s, k, x.owe, x.halved)
    OBVIOUS
  <1>4. /\ y.steps = s /\ y.look = k /\ y.owe = x.owe /\ y.halved = x.halved
        /\ y.tops = x.tops /\ y.out = x.out
    BY <1>3, MovedIsAPlace
  <1>5. y.halved \in BOOLEAN /\ y.owe \in Seq(OwedItems)
    BY <1>2, <1>4, PointsAreTyped
  <1>6. OwedAt(y, f.base) = OwedAt(x, f.base)
    BY <1>4 DEF OwedAt, Below
  <1>7. Accounts(OwedAt(y, f.base), look', owed')
    BY <1>2, <1>6
  <1> QED BY <1>3, <1>4, <1>5, <1>7, TopGoesOnAt

\* s has been put before what is left of the function.
LEMMA StepsPutBefore ==
  ASSUME NEW f, NEW x, KnowsPoint(f, x), NEW s \in Seq(PointSteps),
         todo' = s \o Tail(todo)
  PROVE  /\ s \o Tail(x.steps) \in Seq(PointSteps)
         /\ todo' = (s \o Tail(x.steps)) \o f.under
  <1>1. PICK r : r = Tail(x.steps)
    OBVIOUS
  <1>2. PICK u : u = f.under
    OBVIOUS
  <1>3. r \in Seq(PointSteps) /\ u \in Seq(PointSteps) /\ todo' = s \o (r \o u)
    BY <1>1, <1>2 DEF KnowsPoint
  <1>4. s \o r \in Seq(PointSteps) /\ (s \o r) \o u = s \o (r \o u)
    BY <1>3, InFront
  <1> QED BY <1>1, <1>2, <1>3, <1>4

\* The body of a loop has been put before the function.
LEMMA BodyPutBefore ==
  ASSUME NEW f, NEW x, KnowsPoint(f, x), NEW s \in Seq(PointSteps),
         todo' = (s \o <<Head(x.steps)>>) \o Tail(todo)
  PROVE  /\ s \o x.steps \in Seq(PointSteps)
         /\ todo' = (s \o x.steps) \o f.under
  <1>1. PICK r : r = Tail(x.steps)
    OBVIOUS
  <1>2. PICK one : one = <<Head(x.steps)>>
    OBVIOUS
  <1>3. r \in Seq(PointSteps) /\ one \in Seq(PointSteps) /\ x.steps = one \o r
    BY <1>1, <1>2 DEF KnowsPoint
  <1>4. s \o one \in Seq(PointSteps) /\ (s \o one) \o r = s \o (one \o r)
    BY <1>3, InFront
  <1>5. /\ (s \o one) \o r \in Seq(PointSteps)
        /\ todo' = ((s \o one) \o r) \o f.under
    BY <1>1, <1>2, <1>4, StepsPutBefore
  <1> QED BY <1>3, <1>4, <1>5

\* What is left of the function is to be done.
LEMMA RestIsLeft ==
  ASSUME NEW f, NEW x, KnowsPoint(f, x), todo' = << >> \o Tail(todo)
  PROVE  /\ Tail(x.steps) \in Seq(PointSteps)
         /\ todo' = Tail(x.steps) \o f.under
  <1>1. << >> \in Seq(PointSteps)
    OBVIOUS
  <1>2. todo' = (<< >> \o Tail(x.steps)) \o f.under
    BY <1>1, StepsPutBefore
  <1>3. Tail(x.steps) \in Seq(PointSteps)
    BY DEF KnowsPoint
  <1> QED BY <1>2, <1>3, InFront

-----------------------------------------------------------------------------
(* What each action does.                                                   *)

\* What is known before a step that leaves the document well-formed.
BeforeStep(st, f, x) ==
  AtPoint(st, f, x) /\ KnowsPoint(f, x) /\ doc.wellFormed /\ doc.language = "latex" /\ clean

LEMMA StartNodeIsClean ==
  ASSUME NEW st, NEW f, NEW x, BeforeStep(st, f, x), StartNode
  PROVE  CleanInv'
  <1>1. KnowsPoint(f, x) /\ AtPoint(st, f, x)
    BY DEF BeforeStep
  <1>2. Head(x.steps).op = "open" /\ Head(x.steps).kind = Head(todo).kind
    BY <1>1 DEF StartNode, Doing, KnowsPoint
  <1>3. Head(todo).kind # "ERROR"
    BY <1>1, <1>2 DEF KnowsPoint, IsClean
  <1>4. clean' /\ todo' = << >> \o Tail(todo) /\ UNCHANGED <<doc, look, owed>>
    BY <1>3 DEF StartNode, Continue, BeforeStep
  <1>5. todo' = Tail(x.steps) \o f.under
    BY <1>1, <1>4, RestIsLeft
  <1>6. Moved(x, Tail(x.steps), x.look, x.owe, x.halved) \in Reaches(x)
    BY <1>2 DEF Reaches
  <1>7. look \in x.look /\ x.look \subseteq LatexLooks
    BY <1>1, PointsAreTyped DEF KnowsPoint
  <1> QED BY <1>1, <1>4, <1>5, <1>6, <1>7, TopStays DEF StaysClean, BeforeStep

LEMMA FinishNodeIsClean ==
  ASSUME NEW st, NEW f, NEW x, BeforeStep(st, f, x), FinishNode
  PROVE  CleanInv'
  <1>1. KnowsPoint(f, x) /\ AtPoint(st, f, x)
    BY DEF BeforeStep
  <1>2. Head(x.steps).op = "close"
    BY <1>1 DEF FinishNode, Doing, KnowsPoint
  <1>3. CASE open = << >>
    BY <1>3 DEF FinishNode, Panic, BeforeStep, CleanInv
  <1>4. CASE open # << >>
    <2>1. todo' = << >> \o Tail(todo) /\ UNCHANGED <<doc, look, owed, clean>>
      BY <1>4 DEF FinishNode, Continue
    <2>2. todo' = Tail(x.steps) \o f.under
      BY <1>1, <2>1, RestIsLeft
    <2>3. Moved(x, Tail(x.steps), x.look, x.owe, x.halved) \in Reaches(x)
      BY <1>2 DEF Reaches
    <2>4. look \in x.look /\ x.look \subseteq LatexLooks
      BY <1>1, PointsAreTyped DEF KnowsPoint
    <2> QED BY <1>1, <2>1, <2>2, <2>3, <2>4, TopStays DEF StaysClean, BeforeStep
  <1> QED BY <1>3, <1>4

\* Nothing is missing where the next token fits.
LEMMA ReportMissingIsClean ==
  ASSUME NEW st, NEW f, NEW x, BeforeStep(st, f, x), ReportMissing
  PROVE  CleanInv'
  <1>1. Head(x.steps).op = "missing" /\ look \in Fitting(x) /\ IsClean(x, PointSteps)
    BY DEF ReportMissing, Doing, KnowsPoint, BeforeStep
  <1>2. Fitting(x) = {}
    BY <1>1 DEF IsClean
  <1> QED BY <1>1, <1>2

\* The function goes on at s if the next token is one of ks.
LEMMA TopTurnsTo ==
  ASSUME NEW st, NEW f, NEW x, BeforeStep(st, f, x),
         NEW s, NEW ks, look \in ks, Turned(x, s, ks) \subseteq Reaches(x),
         todo' = s \o f.under, UNCHANGED <<doc, look, owed, clean>>
  PROVE  CleanInv'
  <1>1. KnowsPoint(f, x) /\ AtPoint(st, f, x)
    BY DEF BeforeStep
  <1>2. PICK fit : fit = Fitting(x) \intersect ks
    OBVIOUS
  <1>3. look \in fit /\ fit \subseteq LatexLooks
    <2>1. look \in Fitting(x) /\ x.look \subseteq LatexLooks
      BY <1>1, PointsAreTyped DEF KnowsPoint
    <2> QED BY <1>2, <2>1 DEF Fitting
  <1>4. Moved(x, s, fit, x.owe, x.halved) \in Reaches(x)
    BY <1>2, <1>3 DEF Turned
  <1> QED BY <1>1, <1>3, <1>4, TopStays DEF StaysClean, BeforeStep

LEMMA ChooseIsClean ==
  ASSUME NEW st, NEW f, NEW x, BeforeStep(st, f, x), Choose
  PROVE  CleanInv'
  <1> DEFINE step == Head(x.steps)
             rest == Tail(x.steps)
             others == LatexLooks \ step.kinds
  <1>1. KnowsPoint(f, x) /\ look \in Fitting(x) /\ look \in LatexLooks
        /\ IsClean(x, PointSteps)
    BY DEF BeforeStep, KnowsPoint
  <1>2. step.op = "if" /\ step = Head(todo)
    BY <1>1 DEF Choose, Doing, KnowsPoint
  <1>3. UNCHANGED <<doc, look, owed, clean>>
    BY DEF Choose
  <1>4. CASE look \in step.kinds
    <2>1. step.yes \in Seq(PointSteps)
      BY <1>1, <1>2, <1>4 DEF IsClean
    <2>2. todo' = step.yes \o Tail(todo)
      BY <1>2, <1>4 DEF Choose, Continue
    <2>3. todo' = (step.yes \o rest) \o f.under
      BY <1>1, <2>1, <2>2, StepsPutBefore
    <2>4. Turned(x, step.yes \o rest, step.kinds) \subseteq Reaches(x)
      BY <1>2 DEF Reaches
    <2> HIDE DEF step, rest
    <2> QED BY <1>3, <1>4, <2>3, <2>4, TopTurnsTo
  <1>5. CASE look \notin step.kinds
    <2>0. look \in others
      BY <1>1, <1>5
    <2>1. step.no \in Seq(PointSteps)
      BY <1>1, <1>2, <2>0 DEF IsClean
    <2>2. todo' = step.no \o Tail(todo)
      BY <1>2, <1>5 DEF Choose, Continue
    <2>3. todo' = (step.no \o rest) \o f.under
      BY <1>1, <2>1, <2>2, StepsPutBefore
    <2>4. Turned(x, step.no \o rest, others) \subseteq Reaches(x)
      BY <1>2 DEF Reaches
    <2> HIDE DEF step, rest, others
    <2> QED BY <1>3, <2>0, <2>3, <2>4, TopTurnsTo
  <1> QED BY <1>4, <1>5

LEMMA LoopIsClean ==
  ASSUME NEW st, NEW f, NEW x, BeforeStep(st, f, x), Loop
  PROVE  CleanInv'
  <1> DEFINE step == Head(x.steps)
             rest == Tail(x.steps)
  <1>1. KnowsPoint(f, x) /\ look \in Fitting(x) /\ look \in LatexLooks
        /\ IsClean(x, PointSteps)
    BY DEF BeforeStep, KnowsPoint
  <1>2. step.op \in {"while", "until"} /\ step = Head(todo)
    BY <1>1 DEF Loop, Doing, KnowsPoint
  <1>3. UNCHANGED <<doc, look, owed, clean>>
    BY DEF Loop
  \* The loop is entered where one of ks is next, and left where one of ls is.
  <1>4. ASSUME NEW ks, NEW ls,
               Turned(x, step.body \o x.steps, ks) \subseteq Reaches(x),
               Turned(x, rest, ls) \subseteq Reaches(x),
               look \in ks => step.body \in Seq(PointSteps),
               look \in ks => todo' = (step.body \o <<step>>) \o Tail(todo),
               look \in ls => todo' = << >> \o Tail(todo),
               look \in ks \union ls
        PROVE  CleanInv'
    <2>1. CASE look \in ks
      <3>1. todo' = (step.body \o x.steps) \o f.under
        BY <1>1, <1>4, <2>1, BodyPutBefore
      <3> HIDE DEF step, rest
      <3> QED BY <1>3, <1>4, <2>1, <3>1, TopTurnsTo
    <2>2. CASE look \in ls
      <3>1. todo' = rest \o f.under
        BY <1>1, <1>4, <2>2, RestIsLeft
      <3> HIDE DEF step, rest
      <3> QED BY <1>3, <1>4, <2>2, <3>1, TopTurnsTo
    <2> QED BY <1>4, <2>1, <2>2
  <1>5. CASE step.op = "while"
    <2>1. PICK ks : ks = step.kinds
      OBVIOUS
    <2>2. PICK ls : ls = LatexLooks \ step.kinds
      OBVIOUS
    <2>3. /\ Turned(x, step.body \o x.steps, ks) \subseteq Reaches(x)
          /\ Turned(x, rest, ls) \subseteq Reaches(x)
      BY <1>5, <2>1, <2>2 DEF Reaches
    <2>4. look \in ks => step.body \in Seq(PointSteps)
      BY <1>1, <1>5, <2>1 DEF IsClean
    <2>5. look \in ks => todo' = (step.body \o <<step>>) \o Tail(todo)
      BY <1>2, <1>5, <2>1 DEF Loop, Continue
    <2>6. look \in ls => todo' = << >> \o Tail(todo)
      BY <1>2, <1>5, <2>2 DEF Loop, Continue
    <2>7. look \in ks \union ls
      BY <1>1, <2>1, <2>2
    <2> HIDE DEF step, rest
    <2> QED BY <1>4, <2>3, <2>4, <2>5, <2>6, <2>7
  <1>6. CASE step.op = "until"
    <2>1. PICK ks : ks = (LatexLooks \ step.kinds) \ {EOF}
      OBVIOUS
    <2>2. PICK ls : ls = step.kinds \union {EOF}
      OBVIOUS
    <2>3. /\ Turned(x, step.body \o x.steps, ks) \subseteq Reaches(x)
          /\ Turned(x, rest, ls) \subseteq Reaches(x)
      BY <1>6, <2>1, <2>2 DEF Reaches
    <2>4. look \in ks => step.body \in Seq(PointSteps)
      BY <1>1, <1>6, <2>1 DEF IsClean
    <2>5. look \in ks => todo' = (step.body \o <<step>>) \o Tail(todo)
      BY <1>2, <1>6, <2>1 DEF Loop, Continue
    <2>6. look \in ls => todo' = << >> \o Tail(todo)
      BY <1>2, <1>6, <2>2 DEF Loop, Continue
    <2>7. look \in ks \union ls
      BY <1>1, <2>1, <2>2
    <2> HIDE DEF step, rest
    <2> QED BY <1>4, <2>3, <2>4, <2>5, <2>6, <2>7
  <1> QED BY <1>2, <1>5, <1>6

LEMMA BreakLoopIsClean ==
  ASSUME NEW st, NEW f, NEW x, BeforeStep(st, f, x), BreakLoop
  PROVE  CleanInv'
  <1> DEFINE u == f.under
             s == x.steps
  <1>1. KnowsPoint(f, x) /\ AtPoint(st, f, x)
    BY DEF BeforeStep
  <1>2. Head(s).op = "break" /\ IsClean(x, PointSteps)
    BY <1>1 DEF BreakLoop, Doing, KnowsPoint
  <1>3. s \in Seq(PointSteps) /\ u \in Seq(PointSteps) /\ todo = s \o u
    BY <1>1 DEF KnowsPoint
  <1>4. PICK h \in LoopHeads(s) : \A j \in LoopHeads(s) : h <= j
    BY <1>2 DEF IsClean
  <1> HIDE DEF s, u
  <1> DEFINE t == SubSeq(s, h + 1, Len(s))
  <1>5. todo' = t \o u /\ UNCHANGED <<doc, look, clean, owed>>
    BY <1>3, <1>4, LoopIsLeft
  <1>6. Moved(x, t, x.look, x.owe, x.halved) \in Reaches(x)
    BY <1>2, <1>4 DEF Reaches, s
  <1>7. look \in x.look /\ x.look \subseteq LatexLooks
    BY <1>1, PointsAreTyped DEF KnowsPoint
  <1> HIDE DEF t
  <1> QED BY <1>1, <1>5, <1>6, <1>7, TopStays DEF StaysClean, BeforeStep, u

\* Every token that can follow is one of the language, or there is none.
LEMMA FollowersAreKnown ==
  ASSUME NEW k
  PROVE  LatexParser!CanFollow(k) \union {EOF} \subseteq LatexLooks
  <1>1. /\ LatexParser!White \subseteq LatexParser!Tokens
        /\ {"VERBATIM", "END_BLOCK_COMMENT_NAME"} \subseteq LatexParser!Tokens
    BY DEF LatexParser!Tokens, LatexParser!Comments, LatexParser!White,
           LatexParser!PlainCommands
  <1>2. LatexParser!CanFollow(k) \subseteq LatexParser!Tokens \union {EOF}
    <2>1. \/ LatexParser!CanFollow(k) = {"VERBATIM", "END_BLOCK_COMMENT_NAME", LatexParser!EOF}
          \/ LatexParser!CanFollow(k) = {"END_BLOCK_COMMENT_NAME", LatexParser!EOF}
          \/ LatexParser!CanFollow(k) = LatexParser!White \union {LatexParser!EOF}
          \/ LatexParser!CanFollow(k) = ((LatexParser!Tokens \ LatexParser!White) \ {"VERBATIM"})
                                          \union {LatexParser!EOF}
          \/ LatexParser!CanFollow(k) = (LatexParser!Tokens \ {"WORD", "VERBATIM"})
                                          \union {LatexParser!EOF}
          \/ LatexParser!CanFollow(k) = (LatexParser!Tokens \ {"VERBATIM"})
                                          \union {LatexParser!EOF}
      <3>1. k \notin LatexParser!White \/ (k # "BEGIN_BLOCK_COMMENT_NAME" /\ k # "VERBATIM"
                                             /\ k # "COMMENT" /\ k # "WORD")
        BY DEF LatexParser!White
      <3> QED BY <3>1 DEF LatexParser!CanFollow
    <2> QED BY <1>1, <2>1 DEF EOF, LatexParser!EOF
  <1>3. LatexLooks = LatexParser!Tokens \union {EOF}
    BY DEF LatexLooks, Looks, TokensOf
  <1> QED BY <1>2, <1>3

\* What the lexer hands out is a token that can follow, or there is none.
LEMMA ReadableFollows ==
  ASSUME doc.language = "latex", NEW k, NEW n, NEW o
  PROVE  Readable(k, n, o) \subseteq LatexParser!CanFollow(k) \union {EOF}
  <1> DEFINE more == (IF n < doc.length THEN FollowOf(doc.language, k) \intersect doc.tokens
                                        ELSE {}) \union {EOF}
             fit == { t \in more : doc.wellFormed => Owed(o, t) # NotWellFormed }
  <1>1. more \subseteq LatexParser!CanFollow(k) \union {EOF}
    BY DEF FollowOf
  <1>2. fit \subseteq LatexParser!CanFollow(k) \union {EOF}
    BY <1>1
  <1>3. Readable(k, n, o) = IF fit = {} THEN {EOF} ELSE fit
    BY DEF Readable
  <1> HIDE DEF fit
  <1> QED BY <1>2, <1>3

\* A document that has ceased to be well-formed stays so.
LEMMA NotWellFormedStays ==
  ASSUME NEW t \in LatexLooks
  PROVE  Owed(NotWellFormed, t) = NotWellFormed
  <1>1. Head(NotWellFormed) = Now("none") /\ t # "none"
    BY ItemsAreKnown DEF NotWellFormed
  <1>2. ~Allowed(Now("none"), t)
    BY <1>1 DEF Allowed, Now
  <1>3. Now("none").kind # t
    BY <1>1 DEF Now
  <1> QED BY <1>1, <1>2, <1>3 DEF Owed

\* A token is eaten: the document owes one thing less, or more if the token
\* begins something.
LEMMA EatTokenIsClean ==
  ASSUME NEW st, NEW f, NEW x, BeforeStep(st, f, x), EatToken
  PROVE  CleanInv'
  <1>1. /\ KnowsPoint(f, x) /\ AtPoint(st, f, x) /\ doc.wellFormed
        /\ doc.language = "latex" /\ clean
    BY DEF BeforeStep
  <1>2. Head(x.steps).op = "eat" /\ IsClean(x, PointSteps)
    BY <1>1 DEF EatToken, Doing, KnowsPoint
  <1>3. CASE look = EOF
    BY <1>1, <1>3 DEF EatToken, Panic, BeforeStep, CleanInv
  <1>4. CASE look # EOF
    <2>1. PICK t \in Readable(look, eaten + 1, owed) : Reveal(t, owed)
      BY <1>4 DEF EatToken
    <2>2. /\ todo' = << >> \o Tail(todo) /\ UNCHANGED <<doc, clean>>
          /\ look' = t /\ owed' = Owed(owed, t)
      BY <1>1, <1>4, <2>1 DEF EatToken, Continue, Reveal
    <2>3. todo' = Tail(x.steps) \o f.under
      BY <1>1, <2>2, RestIsLeft
    <2>4. CASE ~Allowed(Head(owed), t)
      <3>1. owed' = NotWellFormed
        <4>1. t # Head(owed).kind
          BY <2>4 DEF Allowed
        <4> QED BY <2>2, <2>4, <4>1 DEF Owed
      <3> QED BY <1>1, <2>2, <3>1 DEF CleanInv
    <2>5. CASE Allowed(Head(owed), t)
      <3>1. /\ x \in Points /\ look \in Fitting(x) /\ look \in LatexLooks
            /\ f.base \in Seq(OwedItems) /\ f.place = x /\ Rests(f)
        BY <1>1 DEF KnowsPoint
      <3>2. PICK b : b = f.base
        OBVIOUS
      <3>3. /\ b \in Seq(OwedItems) /\ b # << >> /\ Head(b) \in x.tops
            /\ x.owe \in Seq(OwedItems) /\ x.halved \in BOOLEAN
        BY <3>1, <3>2, PointsAreTyped DEF Rests
      <3>4. PICK o \in OwedAt(x, b) : owed = Owed(o, look) /\ Allowed(Head(o), look)
        BY <1>1, <3>2 DEF KnowsPoint, Accounts
      <3>5. PICK y : y = Exposed(x, look)
        OBVIOUS
      <3>6. /\ y.steps = x.steps /\ y.tops = x.tops /\ y.out = x.out
            /\ y.halved \in BOOLEAN /\ y.owe \in Seq(OwedItems) /\ o \in OwedAt(y, b)
        BY <3>3, <3>4, <3>5, ExposedIsSo
      <3>7. PICK u \in Below(y, b) : o = y.owe \o u
        BY <3>6 DEF OwedAt
      <3>8. u \in Seq(OwedItems) /\ u # << >> /\ Head(u) \in FirstBelow(y)
        BY <3>3, <3>6, BelowIsKnown
      <3>9. PICK v : v = IF y.owe = << >> THEN Obligation(look) ELSE Owed(y.owe, look)
        OBVIOUS
      <3>10. v \in Seq(OwedItems) /\ owed = v \o u
        <4>1. CASE y.owe = << >>
          <5>1. o = u
            BY <3>7, <3>8, <4>1, InFront
          <5>2. Head(u).kind # look
            BY <1>2, <1>4, <3>1, <3>4, <3>5, <3>8, <4>1, <5>1 DEF IsClean
          <5>3. owed = Obligation(look) \o u
            BY <3>4, <5>1, <5>2, OwedOfNew
          <5> QED BY <3>1, <3>9, <4>1, <5>3, PartsAreTyped
        <4>2. CASE y.owe # << >>
          <5>1. Head(o) = Head(y.owe)
            BY <3>6, <3>7, <3>8, <4>2, HeadOfConcat
          <5>2. Owed(y.owe, look) \in Seq(OwedItems)
                /\ Owed(y.owe \o u, look) = Owed(y.owe, look) \o u
            BY <3>1, <3>4, <3>6, <3>8, <4>2, <5>1, OwedOfConcat
          <5> QED BY <3>4, <3>7, <3>9, <4>2, <5>2
        <4> QED BY <4>1, <4>2
      <3>11. PICK w : w = Ate(x, look)
        OBVIOUS
      <3>12. w \in Reaches(x)
        BY <1>2, <1>4, <3>1, <3>11 DEF Reaches
      <3>13. /\ w.steps = Tail(x.steps) /\ w.look = LatexParser!CanFollow(look) \union {EOF}
             /\ w.owe = v /\ w.halved = y.halved /\ w.tops = x.tops /\ w.out = x.out
        <4>1. w = Moved(y, Tail(x.steps), LatexParser!CanFollow(look) \union {EOF}, v, y.halved)
          BY <3>5, <3>9, <3>11 DEF Ate
        <4> QED BY <3>6, <4>1 DEF Moved
      <3>14. owed \in OwedAt(w, b)
        <4>1. Below(w, b) = Below(y, b)
          BY <3>13 DEF Below
        <4> QED BY <3>7, <3>10, <3>13, <4>1 DEF OwedAt
      <3>15. Accounts(OwedAt(w, b), look', owed')
        BY <2>2, <2>5, <3>14 DEF Accounts
      <3>16. look' \in w.look /\ w.look \subseteq LatexLooks
        BY <1>1, <2>2, <3>13, FollowersAreKnown, ReadableFollows
      <3> QED BY <1>1, <2>2, <2>3, <3>2, <3>6, <3>10, <3>12, <3>13, <3>15, <3>16, TopGoesOnAt
              DEF StaysClean
    <2> QED BY <2>4, <2>5
  <1> QED BY <1>3, <1>4

\* A function is called, by its name or by the arm of a match: what it is to
\* deal with is owed first.
LEMMA CallIsClean ==
  ASSUME NEW st, NEW f, NEW x, BeforeStep(st, f, x),
         Head(x.steps).op = "call" \/ Head(x.steps).op = "dispatch",
         todo' = BodyOf(Head(x.steps), look) \o Tail(todo),
         UNCHANGED <<doc, look, owed, clean>>
  PROVE  CleanInv'
  <1>1. PICK r : r = Head(x.steps).rule
    OBVIOUS
  <1>2. PICK b : b = f.base
    OBVIOUS
  <1>3. /\ KnowsPoint(f, x) /\ AtPoint(st, f, x) /\ x \in Points /\ f.place = x
        /\ look \in Fitting(x) /\ look \in LatexLooks /\ IsClean(x, PointSteps)
        /\ b \in Seq(OwedItems) /\ f.under \in Seq(PointSteps)
        /\ Tail(x.steps) \in Seq(PointSteps) /\ Tail(todo) = Tail(x.steps) \o f.under
    BY <1>2 DEF BeforeStep, KnowsPoint
  <1>4. StaysClean
    BY DEF BeforeStep, StaysClean
  <1>5. /\ b # << >> /\ Head(b) \in x.tops
        /\ x.owe \in Seq(OwedItems) /\ x.halved \in BOOLEAN /\ x.out \in Seq(OwedItems)
    BY <1>2, <1>3, PointsAreTyped DEF KnowsPoint, Rests
  <1>6. PICK o \in OwedAt(x, b) : owed = Owed(o, look) /\ Allowed(Head(o), look)
    BY <1>2, <1>3 DEF KnowsPoint, Accounts
  <1>7. PICK y : y = Exposed(x, look)
    OBVIOUS
  <1>8. /\ y.steps = x.steps /\ y.tops = x.tops /\ y.out = x.out
        /\ y.halved \in BOOLEAN /\ y.owe \in Seq(OwedItems) /\ o \in OwedAt(y, b)
    BY <1>3, <1>5, <1>6, <1>7, ExposedIsSo
  <1>9. PICK u \in Below(y, b) : o = y.owe \o u
    BY <1>8 DEF OwedAt
  <1>10. PICK p, q : p = Paid(r, look, y.owe) /\ q = Unpaid(y.owe, p)
    OBVIOUS
  <1>11. PICK body : body = BodyOf(Head(x.steps), look)
    OBVIOUS
  <1>12. Keeps(x, look, PointSteps)
    BY <1>3 DEF IsClean
  <1>13. /\ body \in Seq(PointSteps) /\ body # << >>
         /\ y.owe = p \o q /\ p \in Seq(OwedItems) /\ q \in Seq(OwedItems)
         /\ Out(r, look) \in Seq(OwedItems)
         /\ \A i \in Firsts(Moved(y, y.steps, y.look, q, y.halved)) :
              (p = << >> => Allowed(i, look)) => i \in Tops(r, look, p)
    BY <1>1, <1>7, <1>10, <1>11, <1>12 DEF Keeps
  \* What is below the call.
  <1>14. PICK v : v = q \o u
    OBVIOUS
  <1>15. u \in Seq(OwedItems) /\ v \in Seq(OwedItems) /\ v # << >> /\ Head(v) \in Tops(r, look, p)
    <2>1. PICK m : m = Moved(y, y.steps, y.look, q, y.halved)
      OBVIOUS
    <2>2. m.owe = q /\ m.halved = y.halved /\ m.tops = x.tops
      BY <1>8, <2>1, MovedIsAPlace
    <2>3. u \in Below(m, b)
      BY <1>9, <2>2 DEF Below
    <2>4. /\ u \in Seq(OwedItems) /\ v \in Seq(OwedItems) /\ v # << >>
          /\ Head(v) \in Firsts(m)
      <3>1. m.halved \in BOOLEAN /\ m.owe \in Seq(OwedItems) /\ Head(b) \in m.tops
        BY <1>5, <1>8, <1>13, <2>2
      <3>2. /\ u \in Seq(OwedItems) /\ m.owe \o u \in Seq(OwedItems) /\ m.owe \o u # << >>
            /\ Head(m.owe \o u) \in Firsts(m)
        BY <1>3, <1>5, <2>3, <3>1, BelowIsKnown
      <3> QED BY <1>14, <2>2, <3>2
    <2>5. p = << >> => Allowed(Head(v), look)
      <3>1. SUFFICES ASSUME p = << >> PROVE o = v
        BY <1>6
      <3>2. y.owe = q
        BY <1>13, <3>1, InFront
      <3> QED BY <1>9, <1>14, <3>2
    <2> QED BY <1>13, <2>1, <2>4, <2>5
  <1>16. o = p \o v
    <2>1. p \in Seq(OwedItems) /\ q \in Seq(OwedItems) /\ u \in Seq(OwedItems)
      BY <1>13, <1>15
    <2>2. (p \o q) \o u = p \o (q \o u)
      BY <2>1, InFront
    <2> QED BY <1>9, <1>13, <1>14, <2>2
  \* The function that is called,
  <1>17. PICK e : e = Called(x, look)
    OBVIOUS
  <1>18. /\ e.steps = body /\ e.look = {look} /\ e.owe = p /\ e.halved = FALSE
         /\ e.tops = Tops(r, look, p) /\ e.out = Out(r, look)
    <2>1. e = EnteredOwing(r, body, look, p)
      BY <1>1, <1>7, <1>10, <1>11, <1>17 DEF Called
    <2> QED BY <2>1 DEF EnteredOwing
  <1>19. PICK d : d = Relaxed(e)
    OBVIOUS
  <1>20. /\ d \in Points /\ d.steps = body /\ d.tops = e.tops /\ d.out = Out(r, look)
         /\ look \in d.look /\ o \in OwedAt(d, v)
    <2>1. e \in Reaches(x)
      BY <1>3, <1>17 DEF Reaches
    <2>2. d \in Points
      BY <1>3, <1>19, <2>1 DEF KnowsPoint
    <2>3. o \in OwedAt(e, v)
      BY <1>16, <1>18 DEF OwedAt, Below
    <2>4. e.halved \in BOOLEAN /\ e.owe \in Seq(OwedItems) /\ e.look \subseteq LatexLooks
      BY <1>3, <1>13, <1>18
    <2> QED BY <1>15, <1>18, <1>19, <2>2, <2>3, <2>4, RelaxedIsWider
  <1>21. PICK c : c = [place |-> d, base |-> v, under |-> Tail(x.steps) \o f.under]
    OBVIOUS
  <1>22. /\ c.place = d /\ c.base = v /\ c.under = Tail(x.steps) \o f.under
         /\ c \in PendingCalls /\ c.place.steps # << >>
    <2>1. Tail(x.steps) \o f.under \in Seq(PointSteps)
      BY <1>3, ConcatProperties
    <2> QED BY <1>13, <1>15, <1>20, <1>21, <2>1 DEF PendingCalls
  <1>23. Rests(c)
    BY <1>15, <1>18, <1>20, <1>22 DEF Rests
  <1>24. Pays(c)'
    <2>1. todo' = c.place.steps \o c.under
      BY <1>3, <1>11, <1>20, <1>22
    <2>2. Accounts(OwedAt(c.place, c.base), look', owed')
      BY <1>6, <1>20, <1>22 DEF Accounts
    <2> QED BY <1>20, <1>22, <2>1, <2>2 DEF Pays
  \* and the caller when it has returned.
  <1>25. PICK w : w = Resumed(x, look)
    OBVIOUS
  <1>26. /\ w.steps = Tail(x.steps) /\ w.look = LatexLooks /\ w.owe = Out(r, look) \o q
         /\ w.halved = y.halved /\ w.tops = x.tops /\ w.out = x.out
    <2>1. w = Moved(y, Tail(x.steps), LatexLooks, Out(r, look) \o q, y.halved)
      BY <1>1, <1>7, <1>10, <1>25 DEF Resumed
    <2> QED BY <1>8, <2>1 DEF Moved
  <1>27. PICK z : z = Relaxed(w)
    OBVIOUS
  <1>28. /\ z \in Points /\ z.steps = Tail(x.steps) /\ z.tops = x.tops /\ z.out = x.out
         /\ z.look = LatexLooks /\ Out(r, look) \o v \in OwedAt(z, b)
    <2>1. w \in Reaches(x)
      BY <1>3, <1>25 DEF Reaches
    <2>2. z \in Points
      BY <1>3, <1>27, <2>1 DEF KnowsPoint
    <2>3. Out(r, look) \o q \in Seq(OwedItems)
          /\ (Out(r, look) \o q) \o u = Out(r, look) \o v
      <3>1. PICK a : a = Out(r, look)
        OBVIOUS
      <3>2. a \in Seq(OwedItems) /\ q \in Seq(OwedItems) /\ u \in Seq(OwedItems)
        BY <1>13, <1>15, <3>1
      <3>3. a \o q \in Seq(OwedItems) /\ (a \o q) \o u = a \o (q \o u)
        BY <3>2, InFront
      <3> QED BY <1>14, <3>1, <3>3
    <2>4. Out(r, look) \o v \in OwedAt(w, b)
      <3>1. u \in Below(w, b)
        BY <1>9, <1>26 DEF Below
      <3> QED BY <1>26, <2>3, <3>1 DEF OwedAt
    <2>5. z.look \subseteq LatexLooks
      BY <2>2, PointsAreTyped
    <2>6. w.halved \in BOOLEAN /\ w.owe \in Seq(OwedItems) /\ w.look \subseteq LatexLooks
      BY <1>8, <1>26, <2>3
    <2>7. /\ z.steps = w.steps /\ z.tops = w.tops /\ z.out = w.out /\ w.look \subseteq z.look
          /\ OwedAt(w, b) \subseteq OwedAt(z, b)
      BY <1>3, <1>27, <2>6, RelaxedIsWider
    <2> QED BY <1>26, <2>2, <2>4, <2>5, <2>7
  <1>29. CASE Tail(x.steps) # << >>
    <2>1. PICK g : g = [place |-> z, base |-> f.base, under |-> f.under]
      OBVIOUS
    <2>2. g.place = z /\ g.base = b /\ g.under = f.under
      BY <1>2, <2>1
    <2>3. Expects(c, g)
      BY <1>20, <1>22, <1>28, <2>2 DEF Expects
    <2> QED BY <1>3, <1>4, <1>22, <1>23, <1>24, <1>28, <1>29, <2>1, <2>3, TopCallsOn
            DEF AtPoint
  <1>30. CASE Tail(x.steps) = << >>
    <2>1. z.owe = x.out /\ ~z.halved
      BY <1>28, <1>30, PointsAreClean
    <2>2. Out(r, look) \o v = x.out \o b
      BY <1>28, <2>1 DEF OwedAt, Below
    <2>3. c.place.out \o c.base = f.place.out \o f.base
      BY <1>2, <1>3, <1>20, <1>22, <2>2
    <2>4. c.under = f.under
      BY <1>3, <1>22, <1>30, InFront
    <2> QED BY <1>3, <1>4, <1>22, <1>23, <1>24, <2>3, <2>4, TopReplaced DEF AtPoint
  <1> QED BY <1>29, <1>30

LEMMA CallRuleIsClean ==
  ASSUME NEW st, NEW f, NEW x, BeforeStep(st, f, x), CallRule
  PROVE  CleanInv'
  <1>1. Head(x.steps).op = "call" /\ Head(x.steps) = Head(todo)
    BY DEF BeforeStep, KnowsPoint, CallRule, Doing
  <1>2. doc.language = "latex"
    BY DEF BeforeStep
  <1>3. todo' = BodyOf(Head(x.steps), look) \o Tail(todo)
    BY <1>1, <1>2 DEF CallRule, Continue, BodyOf, rules, RulesOf
  <1> QED BY <1>1, <1>3, CallIsClean DEF CallRule

LEMMA MatchTokenIsClean ==
  ASSUME NEW st, NEW f, NEW x, BeforeStep(st, f, x), MatchToken
  PROVE  CleanInv'
  <1>1. Head(x.steps).op = "dispatch" /\ Head(x.steps) = Head(todo)
        /\ IsClean(x, PointSteps) /\ look \in Fitting(x)
    BY DEF BeforeStep, KnowsPoint, MatchToken, Doing
  <1>2. arms = LatexParser!Arms
    BY DEF BeforeStep, arms, ArmsOf
  <1>3. look \in DOMAIN arms[Head(todo).rule]
    <2>1. Keeps(x, look, PointSteps)
      BY <1>1 DEF IsClean
    <2> QED BY <1>1, <1>2, <2>1 DEF Keeps
  <1>4. /\ todo' = arms[Head(todo).rule][look] \o Tail(todo)
        /\ UNCHANGED <<doc, look, owed, clean>>
    BY <1>3 DEF MatchToken, Continue
  <1>5. todo' = BodyOf(Head(x.steps), look) \o Tail(todo)
    BY <1>1, <1>2, <1>4 DEF BodyOf
  <1> QED BY <1>1, <1>4, <1>5, CallIsClean

-----------------------------------------------------------------------------
(* The theorem.                                                             *)

\* A document that is well-formed is one of LaTeX.
LEMMA WellFormedIsLatex ==
  ASSUME doc \in Documents, doc.wellFormed
  PROVE  doc.language = "latex"
  BY DocumentsAssumption

LEMMA InitEstablishesCleanInv ==
  ASSUME Init
  PROVE  CleanInv
  <1>1. /\ doc \in Documents /\ todo = <<Call("parse")>> /\ clean
        /\ owed = IF doc.wellFormed THEN Owed(WholeDocument, look) ELSE NotWellFormed
    BY DEF Init
  <1>2. SUFFICES ASSUME doc.wellFormed, owed # NotWellFormed
                 PROVE  \E st : IsCallStack(st) /\ Pays(st[1])
    BY <1>1 DEF CleanInv
  <1>3. doc.language = "latex"
    BY <1>1, <1>2, WellFormedIsLatex
  <1>4. look \in LatexLooks
    <2>1. IInv
      BY InitEstablishesIInv
    <2> QED BY <1>3, <2>1 DEF IInv, LatexLooks
  <1>5. owed = Owed(WholeDocument, look) /\ Allowed(Head(WholeDocument), look)
    <2>1. owed = Owed(WholeDocument, look)
      BY <1>1, <1>2
    <2>2. ~Allowed(Head(WholeDocument), look) => look # Head(WholeDocument).kind
      BY DEF Allowed
    <2> QED BY <1>2, <2>1, <2>2 DEF Owed
  <1>6. FirstPoint \in Points
    BY ObligationsAreMet
  <1>7. PICK x : x = FirstPoint
    OBVIOUS
  <1>8. /\ x.steps = <<Call("parse")>> /\ x.look = LatexLooks /\ x.owe = << >>
        /\ x.halved = FALSE /\ x.tops = {Later(EOF)} /\ x.out = << >>
    BY <1>7 DEF FirstPoint
  <1>9. PICK b : b = WholeDocument
    OBVIOUS
  <1>10. b \in Seq(OwedItems) /\ b # << >> /\ Head(b) = Later(EOF)
    BY <1>9, ItemsAreKnown DEF WholeDocument
  <1>11. PICK f : f = [place |-> x, base |-> b, under |-> << >>]
    OBVIOUS
  <1>12. /\ f.place = x /\ f.base = b /\ f.under = << >> /\ f \in PendingCalls
    BY <1>6, <1>7, <1>10, <1>11 DEF PendingCalls
  <1>13. PICK st : st = <<f>>
    OBVIOUS
  <1>14. IsCallStack(st)
    <2>1. st \in Seq(PendingCalls) /\ st # << >> /\ Len(st) = 1 /\ st[1] = f
      BY <1>12, <1>13
    <2>2. f.place.steps # << >> /\ Rests(f)
      <3>1. <<Call("parse")>> # << >>
        OBVIOUS
      <3> QED BY <1>8, <1>10, <1>12, <3>1 DEF Rests
    <2> QED BY <1>12, <2>1, <2>2 DEF IsCallStack
  <1>15. Pays(st[1])
    <2>1. b \in OwedAt(x, b)
      <3>1. << >> \o b = b
        BY <1>10, InFront
      <3> QED BY <1>8, <3>1 DEF OwedAt, Below
    <2>2. Accounts(OwedAt(x, b), look, owed)
      BY <1>5, <1>9, <2>1 DEF Accounts
    <2>3. todo = x.steps \o << >>
      <3>1. x.steps \in Seq(PointSteps)
        BY <1>6, <1>7, PointsAreTyped
      <3> QED BY <1>1, <1>8, <3>1, ConcatEmptySeq
    <2> QED BY <1>4, <1>8, <1>12, <1>13, <2>2, <2>3 DEF Pays
  <1> QED BY <1>14, <1>15

\* Whatever step is taken, what a well-formed document owes is accounted for.
LEMMA NextKeepsCleanInv ==
  ASSUME IInv, CleanInv, [Next]_vars
  PROVE  CleanInv'
  <1>1. CASE UNCHANGED vars
    BY <1>1 DEF CleanInv, vars, Pays
  <1>2. CASE Next /\ owed = NotWellFormed
    <2>1. owed' = NotWellFormed
      <3>1. CASE EatToken /\ look # EOF
        <4>1. PICK t \in Readable(look, eaten + 1, owed) : Reveal(t, owed)
          BY <3>1 DEF EatToken
        <4>2. CASE doc.wellFormed
          <5>1. doc.language = "latex"
            BY <4>2, WellFormedIsLatex DEF IInv
          <5>2. t \in LatexLooks
            BY <4>1, <5>1, ReadableIsKnown DEF LatexLooks
          <5> QED BY <1>2, <4>1, <4>2, <5>2, NotWellFormedStays DEF Reveal
        <4>3. CASE ~doc.wellFormed
          BY <4>1, <4>3 DEF Reveal
        <4> QED BY <4>2, <4>3
      <3>2. CASE ~(EatToken /\ look # EOF)
        BY <1>2, <3>2 DEF Next, StartNode, FinishNode, EatToken, ReportMissing, CallRule,
                          MatchToken, Choose, Loop, BreakLoop, Panic
      <3> QED BY <3>1, <3>2
    <2> QED BY <2>1 DEF CleanInv
  <1>3. CASE Next /\ owed # NotWellFormed
    <2>1. todo # << >>
      BY <1>3 DEF Next, StartNode, FinishNode, EatToken, ReportMissing, CallRule,
                  MatchToken, Choose, Loop, BreakLoop, Doing
    <2>2. clean /\ doc.wellFormed
      BY <1>3 DEF CleanInv
    <2>3. PICK st : IsCallStack(st) /\ Pays(st[1])
      BY <1>3, <2>1 DEF CleanInv
    <2>4. AtPoint(st, st[1], st[1].place)
      BY <2>3 DEF AtPoint
    <2>5. doc.language = "latex"
      BY <2>2, WellFormedIsLatex DEF IInv
    <2>6. BeforeStep(st, st[1], st[1].place)
      BY <2>2, <2>4, <2>5, AtTopPoint DEF BeforeStep
    <2> QED
      BY <1>3, <2>6, StartNodeIsClean, FinishNodeIsClean, EatTokenIsClean,
         ReportMissingIsClean, CallRuleIsClean, MatchTokenIsClean, ChooseIsClean,
         LoopIsClean, BreakLoopIsClean DEF Next
  <1> QED BY <1>1, <1>2, <1>3

\* However long a well-formed document is, its tree has no MISSING and no
\* ERROR: no function asks for an argument that is there, and none that ends
\* early leaves its closing token to be an error.
THEOREM WellFormedStaysClean == Spec => []WellFormedIsClean
  <1>1. Init => CleanInv
    BY InitEstablishesCleanInv
  <1>2. IInv /\ CleanInv /\ [Next]_vars => CleanInv'
    BY NextKeepsCleanInv
  <1>3. CleanInv => WellFormedIsClean
    BY DEF CleanInv, WellFormedIsClean
  <1> QED BY <1>1, <1>2, <1>3, IInvIsInvariant, PTL DEF Spec
=============================================================================
