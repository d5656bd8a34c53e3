---------------------------- MODULE ParserProofs ----------------------------
(* Every document is parsed without a panic, its tree is built, and no      *)
(* closing brace, \end or division that an open node waits for is swallowed *)
(* by what is inside of it, however long the document is: FunctionsAreSafe, *)
(* which TLC evaluates for the two grammars, is enough for it.              *)
EXTENDS Parser, FunctionTypes, SequenceTheorems, TLAPS

(* The stack of calls.  A frame is a function at some place: `under` are    *)
(* the steps of its callers, `outer` the nodes open when it was called, and *)
(* `goal` what will have been eaten when it returns, at least.              *)
Frames(language) ==
  [place : PlacesOf(language), outer : Seq(Kinds(language)), goal : Nat,
   under : Seq(StepsOf(language))]

\* What the place x says of the nodes open when the function was called.
Suits(x, outer) ==
  /\ x.base \in {Anywhere, Len(outer)}
  /\ \A t \in x.loose : IsLoose(t, outer)

\* f is the function at work.
Works(f) ==
  /\ todo = f.place.steps \o f.under
  /\ look \in f.place.look
  /\ open = f.outer \o f.place.own
  /\ Len(open) <= 2 * eaten + f.place.over
  /\ f.goal <= eaten + f.place.due
  /\ f.place.fresh => fresh

\* g has called f and goes on when f returns.
Waits(language, f, g) ==
  /\ f.under = g.place.steps \o g.under
  /\ g.place.look = Looks(language)
  /\ ~g.place.fresh
  /\ f.outer = g.outer \o g.place.own
  /\ Len(f.outer) <= 2 * f.goal + g.place.over
  /\ g.goal <= f.goal + g.place.due

IsStack(language, st) ==
  /\ st \in Seq(Frames(language)) /\ st # << >>
  /\ \A i \in 1..Len(st) : st[i].place.steps # << >> /\ Suits(st[i].place, st[i].outer)
  /\ \A i \in 1..Len(st) - 1 : Waits(language, st[i], st[i + 1])
  /\ st[Len(st)].under = << >> /\ st[Len(st)].outer = << >>

\* Divisions are inside of divisions of a higher level.
Nested(nodes) == \A i \in 1 .. Len(nodes) - 1 : Fits(nodes[i], nodes[i + 1])

\* The stack of calls explains the steps that are still to be taken.
IInv ==
  /\ doc \in Documents
  /\ look \in Looks(doc.language)
  /\ eaten \in Nat
  /\ open \in Seq(Kinds(doc.language)) /\ Nested(open)
  /\ ~panicked
  /\ IF todo = << >> THEN open = << >>
     ELSE \E st : IsStack(doc.language, st) /\ Works(st[1])

-----------------------------------------------------------------------------
(* Sequences.                                                               *)

\* A sequence that is not empty has a head and a tail.
LEMMA HeadOfSeq ==
  ASSUME NEW S, NEW s \in Seq(S), s # << >>
  PROVE  /\ Len(s) \in Nat /\ Len(s) >= 1
         /\ s[1] \in S /\ Head(s) = s[1]
         /\ Tail(s) \in Seq(S) /\ Len(Tail(s)) = Len(s) - 1
         /\ \A i \in 1..Len(s) - 1 : Tail(s)[i] = s[i + 1]
         /\ s = <<Head(s)>> \o Tail(s)
  OBVIOUS

\* What is put at the end of a sequence is what is taken away from it first.
LEMMA WithoutOfAppend ==
  ASSUME NEW S, NEW s \in Seq(S), NEW k \in S
  PROVE  Without(Append(s, k)) = s
  <1> DEFINE t == Append(s, k)
             n == Len(s)
             u == SubSeq(t, 1, n)
  <1>1. /\ n \in Nat /\ Len(t) = n + 1 /\ t \in Seq(S)
        /\ \A i \in 1..n : t[i] = s[i] /\ s[i] \in S
    BY AppendProperties
  <1> HIDE DEF t
  <1>2. 1 \in Int /\ n \in Int /\ \A i \in 1..n : t[i] \in S
    BY <1>1
  <1>3. /\ u \in Seq(S) /\ Len(u) = IF 1 <= n THEN n - 1 + 1 ELSE 0
        /\ \A i \in 1..n - 1 + 1 : u[i] = t[1 + i - 1]
    BY <1>2, SubSeqProperties
  <1> HIDE DEF u, n
  <1>4. Len(u) = n /\ \A i \in 1..n : u[i] = t[i]
    <2>1. (IF 1 <= n THEN n - 1 + 1 ELSE 0) = n /\ n - 1 + 1 = n
      BY <1>1
    <2>2. \A i \in 1..n : 1 + i - 1 = i
      BY <1>1
    <2> QED BY <1>3, <2>1, <2>2
  <1>5. u = s
    BY <1>1, <1>3, <1>4, SeqEqual DEF n
  <1>6. Len(t) - 1 = n
    BY <1>1
  <1> QED BY <1>5, <1>6 DEF Without, t, u

\* The head and the tail of a concatenation are those of its first part.
LEMMA HeadOfConcat ==
  ASSUME NEW S, NEW s \in Seq(S), NEW t \in Seq(S), s # << >>
  PROVE  /\ s \o t # << >> /\ Head(s \o t) = Head(s)
         /\ Tail(s \o t) = Tail(s) \o t
  <1>1. s \o t \in Seq(S) /\ Len(s \o t) = Len(s) + Len(t) /\ Len(s) >= 1
    BY HeadOfSeq
  <1>2. s \o t # << >> /\ Head(s \o t) = Head(s)
    BY <1>1
  <1>3. Tail(s \o t) = Tail(s) \o t
    BY <1>1
  <1> QED BY <1>2, <1>3

-----------------------------------------------------------------------------
(* What the static check says about a place.                                *)

\* A place of a function is safe, and so are those that follow it.
LEMMA PlacesAreSafe ==
  ASSUME NEW l \in {"latex", "bibtex"}, NEW x \in PlacesOf(l)
  PROVE  /\ x \in PlaceSet(l)
         /\ x.over <= 4
         /\ x.steps = << >> => x.own = << >> /\ x.due = 0
         /\ x.steps # << >> => MayGoOn(l, x)
         /\ x.steps # << >> => \A y \in After(l, x) : Widened(l, y) \in PlacesOf(l)
  <1>1. IsSafe(l, x) /\ Following(l, x) \subseteq PlacesOf(l)
    BY FunctionsAreSafe
  <1> QED BY <1>1 DEF IsSafe, Following

\* A document is in one of the two languages.
LEMMA LanguagesAreKnown ==
  ASSUME IInv
  PROVE  /\ doc.language \in {"latex", "bibtex"}
         /\ doc.tokens \subseteq TokensOf(doc.language)
  BY DocumentsAssumption DEF IInv

\* The fields of a frame and of its place.
LEMMA FramesAreTyped ==
  ASSUME NEW l \in {"latex", "bibtex"}, NEW f \in Frames(l)
  PROVE  /\ f.place \in PlacesOf(l) /\ f.outer \in Seq(Kinds(l)) /\ f.goal \in Nat
         /\ f.under \in Seq(StepsOf(l))
         /\ f.place.steps \in Seq(StepsOf(l)) /\ f.place.look \subseteq Looks(l)
         /\ f.place.own \in Seq(Kinds(l)) /\ f.place.over \in Int /\ f.place.due \in {0, 1}
         /\ f.place.base \in Int /\ f.place.loose \subseteq Guarded /\ f.place.fresh \in BOOLEAN
  <1>1. f.place \in PlacesOf(l) /\ f.outer \in Seq(Kinds(l)) /\ f.goal \in Nat /\ f.under \in Seq(StepsOf(l))
    BY DEF Frames
  <1>2. f.place \in PlaceSet(l)
    BY <1>1, PlacesAreSafe
  <1> QED BY <1>1, <1>2 DEF PlaceSet, Anywhere

\* There is a function at the top of the stack.
LEMMA StackIsNotEmpty ==
  ASSUME NEW l, NEW st, IsStack(l, st)
  PROVE  Len(st) \in Nat /\ Len(st) >= 1 /\ st[1] \in Frames(l) /\ st \in Seq(Frames(l))
  <1>1. st \in Seq(Frames(l)) /\ st # << >>
    BY DEF IsStack
  <1> QED BY <1>1, HeadOfSeq

AnyPlace(language) ==
  [steps : Seq(StepsOf(language)), look : SUBSET Looks(language),
   own : Seq(Kinds(language)), over : Int, due : Int, base : Int,
   loose : SUBSET Guarded, fresh : BOOLEAN]

\* What a place forgets at the head of a loop it need not know.
LEMMA WidenedIsWider ==
  ASSUME NEW l, NEW y, Widened(l, y) \in PlaceSet(l), y.look \subseteq Looks(l),
         y \in AnyPlace(l),
         NEW z, z = Widened(l, y)
  PROVE  /\ z.steps = y.steps /\ z.own = y.own /\ z.over = y.over
         /\ z.due = y.due /\ z.base = y.base /\ z.loose = y.loose
         /\ y.look \subseteq z.look /\ z.look \subseteq Looks(l)
         /\ z.fresh => y.fresh
  BY DEF Widened, PlaceSet, AnyPlace

-----------------------------------------------------------------------------
(* A function goes from one place to another.                               *)

\* What a step leaves true that neither calls nor returns.
Typed ==
  /\ doc \in Documents
  /\ look \in Looks(doc.language)
  /\ eaten \in Nat
  /\ open \in Seq(Kinds(doc.language)) /\ Nested(open)
  /\ ~panicked

\* The function at the top of the stack is at z now, where something is left
\* to do.
LEMMA TopGoesOn ==
  ASSUME IInv, NEW st, IsStack(doc.language, st), NEW f, f = st[1],
         NEW z \in PlacesOf(doc.language), z.steps # << >>,
         Suits(z, f.outer),
         Typed', doc' = doc,
         Works([f EXCEPT !.place = z])'
  PROVE  IInv'
  <1> DEFINE l == doc.language
             g == [f EXCEPT !.place = z]
             new == [st EXCEPT ![1] = g]
  <1>1. f \in Frames(l) /\ g \in Frames(l) /\ Len(st) \in Nat /\ Len(st) >= 1
    <2>1. f \in Frames(l) /\ Len(st) \in Nat /\ Len(st) >= 1
      BY StackIsNotEmpty
    <2> QED BY <2>1 DEF Frames
  <1>2. /\ g.place = z /\ g.outer = f.outer /\ g.goal = f.goal /\ g.under = f.under
    BY <1>1 DEF Frames
  <1>3. new \in Seq(Frames(l)) /\ new # << >> /\ Len(new) = Len(st) /\ new[1] = g
        /\ \A i \in 2..Len(st) : new[i] = st[i]
    BY <1>1 DEF IsStack
  <1>4. IsStack(l, new)
    <2>1. \A i \in 1..Len(new) :
            new[i].place.steps # << >> /\ Suits(new[i].place, new[i].outer)
      BY <1>1, <1>2, <1>3 DEF IsStack
    <2>2. \A i \in 1..Len(new) - 1 : Waits(l, new[i], new[i + 1])
      <3> SUFFICES ASSUME NEW i \in 1..Len(new) - 1
                   PROVE  Waits(l, new[i], new[i + 1])
        OBVIOUS
      <3>1. Waits(l, st[i], st[i + 1]) /\ new[i + 1] = st[i + 1]
        BY <1>1, <1>3 DEF IsStack
      <3>2. new[i].under = st[i].under /\ new[i].outer = st[i].outer /\ new[i].goal = st[i].goal
        BY <1>1, <1>2, <1>3
      <3> QED BY <3>1, <3>2 DEF Waits
    <2>3. new[Len(new)].under = << >> /\ new[Len(new)].outer = << >>
      BY <1>1, <1>2, <1>3 DEF IsStack
    <2> QED BY <1>3, <2>1, <2>2, <2>3 DEF IsStack
  <1>5. todo' # << >>
    <2>1. z.steps \in Seq(StepsOf(l)) /\ f.under \in Seq(StepsOf(l))
      BY <1>1, PlacesAreSafe, LanguagesAreKnown DEF PlaceSet, Frames
    <2>2. todo' = z.steps \o f.under
      BY <1>2 DEF Works
    <2> QED BY <2>1, <2>2, HeadOfConcat
  <1>6. Works(new[1])'
    BY <1>3
  <1> QED BY <1>4, <1>5, <1>6 DEF IInv, Typed

\* The function at the top of the stack has come to its end.
Returns(f) ==
  /\ todo' = f.under
  /\ open' = f.outer
  /\ f.goal <= eaten'

\* It returns to its caller, or the run is over.
LEMMA TopReturns ==
  ASSUME IInv, NEW st, IsStack(doc.language, st), NEW f, f = st[1],
         Typed', doc' = doc, Returns(f)
  PROVE  IInv'
  <1> DEFINE l == doc.language
             new == Tail(st)
  <1>0. Len(st) = 1 \/ Len(st) > 1
    <2> HIDE DEF l, new
    <2>1. Len(st) \in Nat /\ Len(st) >= 1
      BY StackIsNotEmpty
    <2>2. \A n \in Nat : n >= 1 => n = 1 \/ n > 1
      OBVIOUS
    <2> QED BY <2>1, <2>2
  <1>1. f \in Frames(l) /\ Len(st) \in Nat /\ Len(st) >= 1 /\ st \in Seq(Frames(l))
    BY StackIsNotEmpty
  <1>2. CASE Len(st) = 1
    <2>1. todo' = << >> /\ open' = << >>
      BY <1>2 DEF IsStack, Returns
    <2> QED BY <2>1 DEF IInv, Typed
  <1>3. CASE Len(st) > 1
    <2>1. new \in Seq(Frames(l)) /\ Len(new) = Len(st) - 1 /\ new # << >>
          /\ \A i \in 1..Len(new) : new[i] = st[i + 1]
      <3>1. st # << >>
        BY <1>3
      <3>2. /\ new \in Seq(Frames(l)) /\ Len(new) = Len(st) - 1
            /\ \A i \in 1..Len(st) - 1 : new[i] = st[i + 1]
        BY <1>1, <3>1, HeadOfSeq
      <3> HIDE DEF new
      <3>3. Len(new) # 0
        BY <1>1, <1>3, <3>2
      <3> QED BY <3>2, <3>3
    <2>2. IsStack(l, new)
      <3>1. \A i \in 1..Len(new) :
              new[i].place.steps # << >> /\ Suits(new[i].place, new[i].outer)
        BY <1>1, <2>1 DEF IsStack
      <3>2. \A i \in 1..Len(new) - 1 : Waits(l, new[i], new[i + 1])
        BY <1>1, <2>1 DEF IsStack
      <3>3. new[Len(new)].under = << >> /\ new[Len(new)].outer = << >>
        BY <1>1, <1>3, <2>1 DEF IsStack
      <3> QED BY <2>1, <3>1, <3>2, <3>3 DEF IsStack
    <2>3. Waits(l, f, new[1]) /\ new[1] \in Frames(l) /\ new[1].place.steps # << >>
      BY <1>1, <1>3, <2>1 DEF IsStack
    <2>4. new[1].place \in PlaceSet(l) /\ new[1].under \in Seq(StepsOf(l))
      BY <2>3, PlacesAreSafe, LanguagesAreKnown DEF Frames
    <2>5. Works(new[1])'
      <3>1. new[1].place.over \in Int /\ new[1].place.due \in Int /\ eaten' \in Int /\ f.goal \in Int
            /\ new[1].goal \in Int
        <4>1. l \in {"latex", "bibtex"} /\ f \in Frames(l) /\ new[1] \in Frames(l)
          BY <1>1, <2>3, LanguagesAreKnown
        <4>2. eaten' \in Nat
          BY DEF Typed
        <4> HIDE DEF l, new
        <4>3. /\ f.goal \in Nat /\ new[1].goal \in Nat
              /\ new[1].place.over \in Int /\ new[1].place.due \in {0, 1}
          BY <4>1, FramesAreTyped
        <4> QED BY <4>2, <4>3
      <3>2. f.goal <= eaten'
        BY DEF Returns
      <3>3. todo' = new[1].place.steps \o new[1].under
            /\ open' = new[1].outer \o new[1].place.own
            /\ look' \in new[1].place.look /\ ~new[1].place.fresh
        BY <2>3 DEF Waits, Typed, Returns
      <3>4. /\ Len(open') <= 2 * f.goal + new[1].place.over
            /\ new[1].goal <= f.goal + new[1].place.due
        BY <2>3 DEF Waits, Returns
      <3>6. Len(open') \in Int
        <4>1. open' \in Seq(Kinds(doc.language)')
          BY DEF Typed
        <4> QED BY <4>1, LenProperties
      <3> HIDE DEF new, l
      <3>5. Len(open') \in Int /\ Len(open') <= 2 * eaten' + new[1].place.over
            /\ new[1].goal <= eaten' + new[1].place.due
        BY <3>1, <3>2, <3>4, <3>6
      <3> QED BY <3>3, <3>5 DEF Works
    <2>6. todo' # << >>
      <3>1. todo' = new[1].place.steps \o new[1].under
        BY <2>3 DEF Waits, Returns
      <3> QED BY <2>3, <2>4, <3>1, HeadOfConcat DEF PlaceSet
    <2> QED BY <2>2, <2>5, <2>6 DEF IInv, Typed
  <1> QED BY <1>0, <1>2, <1>3

\* The function at the top of the stack goes on at y.
Moves(f, y) ==
  /\ todo' = y.steps \o f.under
  /\ look' \in y.look
  /\ open' = f.outer \o y.own
  /\ Len(open') <= 2 * eaten' + y.over
  /\ f.goal <= eaten' + y.due
  /\ y.fresh => fresh'

\* It goes on at a place that follows, or returns if nothing is left there.
LEMMA TopMoves ==
  ASSUME IInv, NEW st, IsStack(doc.language, st), NEW f, f = st[1],
         NEW y \in AnyPlace(doc.language), Widened(doc.language, y) \in PlacesOf(doc.language),
         y.base = f.place.base, y.loose = f.place.loose,
         Typed', doc' = doc, Moves(f, y)
  PROVE  IInv'
  <1> DEFINE l == doc.language
             z == Widened(l, y)
  <1>1. z \in PlaceSet(l) /\ z.over <= 4 /\ (z.steps = << >> => z.own = << >> /\ z.due = 0)
    BY PlacesAreSafe, LanguagesAreKnown
  <1>2. /\ z.steps = y.steps /\ z.own = y.own /\ z.over = y.over
        /\ z.due = y.due /\ z.base = y.base /\ z.loose = y.loose
        /\ y.look \subseteq z.look
        /\ z.fresh => y.fresh
    <2>1. y.look \subseteq Looks(l)
      BY DEF AnyPlace
    <2> QED BY <1>1, <2>1, WidenedIsWider
  <1>3. f \in Frames(l) /\ Suits(f.place, f.outer)
    BY StackIsNotEmpty DEF IsStack
  <1>4. CASE z.steps # << >>
    <2>1. Works([f EXCEPT !.place = z])'
      BY <1>2, <1>3 DEF Works, Frames, Moves
    <2>2. Suits(z, f.outer)
      BY <1>2, <1>3 DEF Suits
    <2> QED BY <1>4, <2>1, <2>2, TopGoesOn
  <1>5. CASE z.steps = << >>
    <2>1. todo' = f.under
      <3>1. f.under \in Seq(StepsOf(l))
        BY <1>3 DEF Frames
      <3>2. todo' = << >> \o f.under
        BY <1>2, <1>5 DEF Moves
      <3> QED BY <3>1, <3>2
    <2>2. open' = f.outer \o << >> /\ f.goal <= eaten' + 0
      BY <1>1, <1>2, <1>5 DEF Moves
    <2>3. f.outer \o << >> = f.outer /\ f.goal \in Nat /\ eaten' \in Nat
      BY <1>3, ConcatEmptySeq DEF Frames, Typed
    <2>4. Returns(f)
      BY <2>1, <2>2, <2>3 DEF Returns
    <2> QED BY <2>4, TopReturns
  <1> QED BY <1>4, <1>5
-----------------------------------------------------------------------------
(* A function calls another one.                                            *)

\* c is called by the function at the top of the stack, which will go on at w.
LEMMA TopCalls ==
  ASSUME IInv, NEW st, IsStack(doc.language, st), NEW f, f = st[1],
         NEW w \in PlacesOf(doc.language), w.steps # << >>,
         Suits(w, f.outer),
         NEW c \in Frames(doc.language), c.place.steps # << >>,
         Suits(c.place, c.outer),
         Waits(doc.language, c, [f EXCEPT !.place = w]),
         Typed', doc' = doc, Works(c)'
  PROVE  IInv'
  <1> DEFINE l == doc.language
             g == [f EXCEPT !.place = w]
             new == [i \in 1..Len(st) + 1 |-> IF i = 1 THEN c ELSE
                                              IF i = 2 THEN g ELSE st[i - 1]]
  <1>1. f \in Frames(l) /\ g \in Frames(l) /\ Len(st) \in Nat /\ Len(st) >= 1
        /\ st \in Seq(Frames(l))
    <2>1. f \in Frames(l) /\ Len(st) \in Nat /\ Len(st) >= 1 /\ st \in Seq(Frames(l))
      BY StackIsNotEmpty
    <2> QED BY <2>1 DEF Frames
  <1>2. g.place = w /\ g.outer = f.outer /\ g.goal = f.goal /\ g.under = f.under
    BY <1>1 DEF Frames
  <1>3. new \in Seq(Frames(l)) /\ new # << >> /\ Len(new) = Len(st) + 1 /\ new[1] = c
        /\ new[2] = g /\ \A i \in 2..Len(st) : new[i + 1] = st[i]
    <2>1. \A i \in 1..Len(st) + 1 : new[i] \in Frames(l)
      BY <1>1
    <2> QED BY <1>1, <2>1
  <1>4. IsStack(l, new)
    <2> HIDE DEF l, g, new
    <2>0. /\ \A i \in 1..Len(st) :
               st[i].place.steps # << >> /\ Suits(st[i].place, st[i].outer)
          /\ \A i \in 1..Len(st) - 1 : Waits(l, st[i], st[i + 1])
          /\ st[Len(st)].under = << >> /\ st[Len(st)].outer = << >>
      BY DEF IsStack, l
    <2>1. \A i \in 1..Len(new) :
            new[i].place.steps # << >> /\ Suits(new[i].place, new[i].outer)
      <3> SUFFICES ASSUME NEW i \in 1..Len(new)
                   PROVE  new[i].place.steps # << >> /\ Suits(new[i].place, new[i].outer)
        OBVIOUS
      <3>1. CASE i = 1
        BY <1>3, <3>1
      <3>2. CASE i = 2
        BY <1>2, <1>3, <3>2
      <3>3. CASE i > 2
        <4>1. i - 1 \in 2..Len(st) /\ (i - 1) + 1 = i
          BY <1>1, <1>3, <3>3
        <4>2. new[i] = st[i - 1]
          BY <1>3, <4>1
        <4> QED BY <1>1, <2>0, <4>1, <4>2
      <3> QED BY <1>1, <1>3, <3>1, <3>2, <3>3
    <2>2. \A i \in 1..Len(new) - 1 : Waits(l, new[i], new[i + 1])
      <3> SUFFICES ASSUME NEW i \in 1..Len(new) - 1
                   PROVE  Waits(l, new[i], new[i + 1])
        OBVIOUS
      <3>1. CASE i = 1
        BY <1>3, <3>1 DEF l, g
      <3>2. CASE i = 2
        <4>1. Len(st) >= 2 /\ 2 \in 2..Len(st) /\ 1 \in 1..Len(st) - 1
          BY <1>1, <1>3, <3>2
        <4>2. new[2 + 1] = st[2] /\ Waits(l, st[1], st[1 + 1])
          BY <1>3, <2>0, <4>1
        <4>3. Waits(l, f, new[3])
          BY <4>2
        <4>4. Waits(l, g, new[3])
          BY <1>2, <4>3 DEF Waits
        <4> QED BY <1>3, <3>2, <4>4
      <3>3. CASE i > 2
        <4>1. i - 1 \in 2..Len(st) - 1 /\ i \in 2..Len(st) /\ (i - 1) + 1 = i
          BY <1>1, <1>3, <3>3
        <4>2. new[(i - 1) + 1] = st[i - 1] /\ new[i + 1] = st[i]
          BY <1>3, <4>1
        <4>3. i - 1 \in 1..Len(st) - 1
          BY <1>1, <4>1
        <4>4. Waits(l, st[i - 1], st[(i - 1) + 1])
          BY <2>0, <4>3
        <4> QED BY <4>1, <4>2, <4>4
      <3> QED BY <1>1, <1>3, <3>1, <3>2, <3>3
    <2>3. new[Len(new)].under = << >> /\ new[Len(new)].outer = << >>
      <3>1. CASE Len(st) = 1
        BY <1>2, <1>3, <2>0, <3>1
      <3>2. CASE Len(st) > 1
        <4>1. Len(st) \in 2..Len(st)
          BY <1>1, <3>2
        <4>2. new[Len(st) + 1] = st[Len(st)] /\ Len(new) = Len(st) + 1
          BY <1>3, <4>1
        <4> QED BY <2>0, <4>2
      <3>3. Len(st) = 1 \/ Len(st) > 1
        <4>1. Len(st) \in Nat /\ Len(st) >= 1
          BY <1>1
        <4>2. \A n \in Nat : n >= 1 => n = 1 \/ n > 1
          OBVIOUS
        <4> QED BY <4>1, <4>2
      <3> QED BY <3>1, <3>2, <3>3
    <2> QED BY <1>3, <2>1, <2>2, <2>3 DEF IsStack
  <1>5. todo' # << >>
    <2>0. l \in {"latex", "bibtex"} /\ c \in Frames(l)
      BY LanguagesAreKnown
    <2>1. c.place.steps \in Seq(StepsOf(l)) /\ c.under \in Seq(StepsOf(l))
      BY <2>0, FramesAreTyped
    <2>2. todo' = c.place.steps \o c.under
      BY DEF Works
    <2> QED BY <2>1, <2>2, HeadOfConcat
  <1>6. Works(new[1])'
    BY <1>3
  <1> QED BY <1>4, <1>5, <1>6 DEF IInv, Typed

\* Where the caller goes on.
LEMMA OnwardIsTyped ==
  ASSUME NEW l, NEW x \in PlaceSet(l), NEW s \in Seq(StepsOf(l)), NEW n \in {0, 1},
         NEW y, y = Onward(l, x, s, n)
  PROVE  /\ y \in AnyPlace(l)
         /\ y.steps = s /\ y.look = Looks(l) /\ y.own = x.own
         /\ y.over = x.over - 2 * n /\ y.due = x.due - n /\ y.base = x.base
         /\ y.loose = x.loose /\ ~y.fresh
  <1> DEFINE S == Seq(StepsOf(l))
             L == Looks(l)
             K == Seq(Kinds(l))
             G == SUBSET Guarded
  <1>1. x \in [steps : S, look : SUBSET L, own : K, over : Int, due : Int,
               base : Int, loose : G, fresh : BOOLEAN]
    BY DEF PlaceSet, Anywhere
  <1>2. y = [x EXCEPT !.steps = s, !.look = L, !.over = @ - 2 * n,
                      !.due = @ - n, !.fresh = FALSE]
    BY DEF Onward
  <1>3. s \in S
    OBVIOUS
  <1> HIDE DEF S, L, K, G
  <1>4. y = [steps |-> s, look |-> L, own |-> x.own, over |-> x.over - 2 * n,
             due |-> x.due - n, base |-> x.base, loose |-> x.loose, fresh |-> FALSE]
    BY <1>1, <1>2
  <1>5. /\ y.steps = s /\ y.look = L /\ y.own = x.own
        /\ y.over = x.over - 2 * n /\ y.due = x.due - n /\ y.base = x.base
        /\ y.loose = x.loose /\ ~y.fresh
    BY <1>4
  <1>6. x.own \in K /\ x.over \in Int /\ x.due \in Int /\ x.base \in Int /\ x.loose \in G
    BY <1>1
  <1>7. x.over - 2 * n \in Int /\ x.due - n \in Int
    BY <1>6
  <1>8. L \in SUBSET L
    OBVIOUS
  <1>9. y \in [steps : S, look : SUBSET L, own : K, over : Int, due : Int,
               base : Int, loose : G, fresh : BOOLEAN]
    BY <1>3, <1>4, <1>6, <1>7, <1>8
  <1> QED BY <1>5, <1>9 DEF S, L, K, G, AnyPlace

\* The place where the function at the top of the stack is.
LEMMA TopIsAtAPlace ==
  ASSUME IInv, NEW st, IsStack(doc.language, st), Works(st[1]),
         NEW f, f = st[1], NEW x, x = f.place, NEW l, l = doc.language
  PROVE  /\ l \in {"latex", "bibtex"}
         /\ f \in Frames(l) /\ f.under \in Seq(StepsOf(l))
         /\ x \in PlacesOf(l) /\ x \in PlaceSet(l) /\ Suits(x, f.outer)
         /\ x.steps \in Seq(StepsOf(l)) /\ x.steps # << >>
         /\ Head(x.steps) \in StepsOf(l) /\ Tail(x.steps) \in Seq(StepsOf(l))
         /\ x.steps = <<Head(x.steps)>> \o Tail(x.steps)
         /\ todo # << >>
         /\ Head(todo) = Head(x.steps) /\ Tail(todo) = Tail(x.steps) \o f.under
         /\ MayGoOn(l, x)
         /\ \A y \in After(l, x) : Widened(l, y) \in PlacesOf(l)
  <1>1. l \in {"latex", "bibtex"} /\ f \in Frames(l)
    BY LanguagesAreKnown, StackIsNotEmpty
  <1>2. x.steps # << >> /\ Suits(x, f.outer)
    <2>1. Len(st) \in Nat /\ Len(st) >= 1
      BY StackIsNotEmpty
    <2>2. 1 \in 1..Len(st)
      BY <2>1
    <2> QED BY <2>2 DEF IsStack
  <1>3. /\ f.under \in Seq(StepsOf(l)) /\ x \in PlacesOf(l)
        /\ x.steps \in Seq(StepsOf(l))
    BY <1>1, FramesAreTyped
  <1>4. x \in PlaceSet(l) /\ MayGoOn(l, x)
        /\ \A y \in After(l, x) : Widened(l, y) \in PlacesOf(l)
    BY <1>1, <1>2, <1>3, PlacesAreSafe
  <1>5. todo = x.steps \o f.under
    BY DEF Works
  <1>6. Head(x.steps) \in StepsOf(l) /\ Tail(x.steps) \in Seq(StepsOf(l))
        /\ x.steps = <<Head(x.steps)>> \o Tail(x.steps)
    BY <1>2, <1>3, HeadOfSeq
  <1>7. todo # << >> /\ Head(todo) = Head(x.steps) /\ Tail(todo) = Tail(x.steps) \o f.under
    BY <1>2, <1>3, <1>5, HeadOfConcat
  <1> QED BY <1>1, <1>2, <1>3, <1>4, <1>6, <1>7

-----------------------------------------------------------------------------
(* Stacks of open nodes.                                                    *)

\* The elements of a concatenation.
LEMMA ElementsOfConcat ==
  ASSUME NEW S, NEW a \in Seq(S), NEW b \in Seq(S)
  PROVE  /\ a \o b \in Seq(S) /\ Len(a) \in Nat /\ Len(b) \in Nat
         /\ DOMAIN a = 1 .. Len(a) /\ DOMAIN b = 1 .. Len(b)
         /\ DOMAIN (a \o b) = 1 .. Len(a \o b)
         /\ Len(a \o b) = Len(a) + Len(b)
         /\ \A i \in 1 .. Len(a) : i \in 1 .. Len(a \o b) /\ (a \o b)[i] = a[i]
         /\ \A i \in 1 .. Len(b) :
              Len(a) + i \in 1 .. Len(a \o b) /\ (a \o b)[Len(a) + i] = b[i]
         /\ \A i \in 1 .. Len(a \o b) :
              i \in 1 .. Len(a) \/ \E k \in 1 .. Len(b) : i = Len(a) + k
  <1>1. /\ a \o b \in Seq(S) /\ Len(a \o b) = Len(a) + Len(b)
        /\ \A i \in 1 .. Len(a) + Len(b) :
             (a \o b)[i] = IF i <= Len(a) THEN a[i] ELSE b[i - Len(a)]
        /\ Len(a) \in Nat /\ Len(b) \in Nat
        /\ DOMAIN a = 1 .. Len(a) /\ DOMAIN b = 1 .. Len(b)
    BY ConcatProperties, LenProperties
  <1>2. DOMAIN (a \o b) = 1 .. Len(a \o b)
    BY <1>1, LenProperties
  <1>3. ASSUME NEW i \in 1 .. Len(a)
        PROVE  i \in 1 .. Len(a) + Len(b) /\ i <= Len(a)
    BY <1>1
  <1>4. ASSUME NEW i \in 1 .. Len(b)
        PROVE  /\ Len(a) + i \in 1 .. Len(a) + Len(b) /\ ~(Len(a) + i <= Len(a))
               /\ (Len(a) + i) - Len(a) = i
    BY <1>1
  <1>5. ASSUME NEW i \in 1 .. Len(a) + Len(b), i \notin 1 .. Len(a)
        PROVE  \E k \in 1 .. Len(b) : i = Len(a) + k
    <2>1. i - Len(a) \in 1 .. Len(b) /\ i = Len(a) + (i - Len(a))
      BY <1>1, <1>5
    <2> QED BY <2>1
  <1> QED BY <1>1, <1>2, <1>3, <1>4, <1>5

\* A node shielded in its part of a stack is shielded in the stack, and so is
\* one below a part with a shield in it.
LEMMA ShieldedInParts ==
  ASSUME NEW S, NEW a \in Seq(S), NEW b \in Seq(S), NEW A, NEW B,
         Shielded(b, A, B), Shielded(a, A, B) \/ \E k \in DOMAIN b : b[k] \in B
  PROVE  Shielded(a \o b, A, B)
  <1> DEFINE c == a \o b
  <1>1. /\ Len(a) \in Nat /\ Len(b) \in Nat
        /\ DOMAIN a = 1 .. Len(a) /\ DOMAIN b = 1 .. Len(b) /\ DOMAIN c = 1 .. Len(c)
        /\ Len(c) = Len(a) + Len(b)
        /\ \A i \in 1 .. Len(a) : c[i] = a[i]
        /\ \A i \in 1 .. Len(b) : c[Len(a) + i] = b[i]
        /\ \A i \in 1 .. Len(c) :
             i \in 1 .. Len(a) \/ \E k \in 1 .. Len(b) : i = Len(a) + k
    BY ElementsOfConcat
  <1> HIDE DEF c
  <1> SUFFICES ASSUME NEW i \in 1 .. Len(c), c[i] \in A
               PROVE  \E j \in i + 1 .. Len(c) : c[j] \in B
    BY <1>1 DEF Shielded, c
  <1>2. CASE \E k \in 1 .. Len(b) : i = Len(a) + k
    <2>1. PICK k \in 1 .. Len(b) : i = Len(a) + k
      BY <1>2
    <2>2. b[k] \in A
      BY <1>1, <2>1
    <2>3. PICK j \in k + 1 .. Len(b) : b[j] \in B
      BY <1>1, <2>2 DEF Shielded
    <2>4. j \in 1 .. Len(b) /\ Len(a) + j \in i + 1 .. Len(c)
      BY <1>1, <2>1
    <2> QED BY <1>1, <2>3, <2>4
  <1>3. CASE i \in 1 .. Len(a) /\ Shielded(a, A, B)
    <2>1. PICK j \in i + 1 .. Len(a) : a[j] \in B
      BY <1>1, <1>3 DEF Shielded
    <2>2. j \in 1 .. Len(a) /\ j \in i + 1 .. Len(c)
      BY <1>1, <1>3
    <2> QED BY <1>1, <2>1, <2>2
  <1>4. CASE i \in 1 .. Len(a) /\ \E k \in DOMAIN b : b[k] \in B
    <2>1. PICK k \in 1 .. Len(b) : b[k] \in B
      BY <1>1, <1>4
    <2>2. Len(a) + k \in i + 1 .. Len(c)
      BY <1>1, <1>4
    <2> QED BY <1>1, <2>1, <2>2
  <1> QED BY <1>1, <1>2, <1>3, <1>4

\* What a place takes for loose is loose.
LEMMA LooseIsLoose ==
  ASSUME NEW S, NEW outer \in Seq(S), NEW x, x.own \in Seq(S), Suits(x, outer),
         NEW t \in LooseAt(x)
  PROVE  t \in Guarded /\ IsLoose(t, outer \o x.own)
  <1> DEFINE own == x.own
             c == outer \o own
  <1>1. t \in Guarded /\ IsLoose(t, own) /\ (IsLoose(t, outer) \/ Hides(t, own))
    BY DEF LooseAt, Suits
  <1>2. own \in Seq(S)
    OBVIOUS
  <1> HIDE DEF own
  <1>3. CASE t = "R_CURLY"
    <2>1. Shielded(own, CurlyKinds, {"ENVIRONMENT"})
      BY <1>1, <1>3 DEF IsLoose
    <2>2. Shielded(outer, CurlyKinds, {"ENVIRONMENT"})
            \/ \E k \in DOMAIN own : own[k] \in {"ENVIRONMENT"}
      BY <1>1, <1>3 DEF IsLoose, Hides
    <2>3. Shielded(c, CurlyKinds, {"ENVIRONMENT"})
      BY <1>2, <2>1, <2>2, ShieldedInParts
    <2> QED BY <1>1, <1>3, <2>3 DEF IsLoose, own
  <1>4. CASE t = "END_ENVIRONMENT_NAME"
    <2>1. Shielded(own, {"ENVIRONMENT"}, EndsNothing)
      BY <1>1, <1>4 DEF IsLoose
    <2>2. Shielded(outer, {"ENVIRONMENT"}, EndsNothing)
            \/ \E k \in DOMAIN own : own[k] \in EndsNothing
      <3>1. Shielded(outer, {"ENVIRONMENT"}, EndsNothing)
              \/ EndsNothing \intersect { own[i] : i \in DOMAIN own } # {}
        BY <1>1, <1>4 DEF IsLoose, Hides
      <3> QED BY <3>1
    <2>3. Shielded(c, {"ENVIRONMENT"}, EndsNothing)
      BY <1>2, <2>1, <2>2, ShieldedInParts
    <2> QED BY <1>1, <1>4, <2>3 DEF IsLoose, own
  <1>5. CASE t \notin {"R_CURLY", "END_ENVIRONMENT_NAME"}
    <2>1. CASE own = << >>
      <3>1. c = outer
        BY <1>2, <2>1, ConcatEmptySeq
      <3>2. IsLoose(t, outer)
        BY <1>1, <1>5, <2>1 DEF Hides
      <3> QED BY <1>1, <3>1, <3>2 DEF own
    <2>2. CASE own # << >>
      <3>1. Len(own) \in 1 .. Len(own) /\ Len(own) \in Nat /\ Len(outer) \in Nat
        BY <1>2, <2>2, HeadOfSeq
      <3>2. c[Len(outer) + Len(own)] = own[Len(own)] /\ Len(c) = Len(outer) + Len(own)
        BY <1>2, <3>1, ElementsOfConcat
      <3>3. Fits(own[Len(own)], DivisionOf[t])
        BY <1>1, <1>5, <2>2 DEF IsLoose
      <3>4. c[Len(c)] = own[Len(own)]
        BY <3>2
      <3> HIDE DEF c
      <3>5. IsLoose(t, c)
        BY <1>5, <3>3, <3>4 DEF IsLoose
      <3> QED BY <1>1, <3>5 DEF own, c
    <2> QED BY <2>1, <2>2
  <1> QED BY <1>3, <1>4, <1>5

\* A node is put into the innermost one.
LEMMA NestedWhenStarted ==
  ASSUME NEW S, NEW nodes \in Seq(S), NEW k \in S, Nested(nodes),
         nodes # << >> => Fits(nodes[Len(nodes)], k)
  PROVE  Nested(Append(nodes, k))
  <1> DEFINE new == Append(nodes, k)
  <1>1. /\ Len(nodes) \in Nat /\ Len(new) = Len(nodes) + 1
        /\ \A i \in 1 .. Len(nodes) : new[i] = nodes[i]
        /\ new[Len(nodes) + 1] = k
    BY AppendProperties, LenProperties
  <1> HIDE DEF new
  <1> SUFFICES ASSUME NEW i \in 1 .. Len(new) - 1
               PROVE  Fits(new[i], new[i + 1])
    BY DEF Nested, new
  <1>2. CASE i = Len(nodes)
    <2>1. Len(nodes) # 0 /\ i \in 1 .. Len(nodes)
      BY <1>1, <1>2
    <2>2. nodes # << >>
      BY <2>1
    <2> QED BY <1>1, <1>2, <2>1, <2>2
  <1>3. CASE i # Len(nodes)
    <2>1. i \in 1 .. Len(nodes) - 1 /\ i \in 1 .. Len(nodes) /\ i + 1 \in 1 .. Len(nodes)
      BY <1>1, <1>3
    <2> QED BY <1>1, <2>1 DEF Nested
  <1> QED BY <1>2, <1>3

\* A sequence that is not empty has a last element.
LEMMA LastOfSeq ==
  ASSUME NEW S, NEW s \in Seq(S), s # << >>
  PROVE  /\ Without(s) \in Seq(S) /\ Len(Without(s)) = Len(s) - 1
         /\ \E k \in S : s = Append(Without(s), k)
  <1>1. PICK t \in Seq(S), k \in S : s = Append(t, k)
    BY SequenceEmptyOrAppend
  <1>2. Without(s) = t
    BY <1>1, WithoutOfAppend
  <1>3. Len(s) = Len(t) + 1 /\ Len(t) \in Nat
    BY <1>1, AppendProperties
  <1> QED BY <1>1, <1>2, <1>3

\* The innermost node is finished.
LEMMA NestedWhenFinished ==
  ASSUME NEW S, NEW nodes \in Seq(S), nodes # << >>, Nested(nodes)
  PROVE  Nested(Without(nodes))
  <1>1. PICK t \in Seq(S), k \in S : t = Without(nodes) /\ nodes = Append(t, k)
    BY LastOfSeq
  <1>2. /\ Len(t) \in Nat /\ Len(nodes) = Len(t) + 1
        /\ \A i \in 1 .. Len(t) : nodes[i] = t[i]
    BY <1>1, AppendProperties
  <1>3. ASSUME NEW i \in 1 .. Len(t) - 1 PROVE Fits(t[i], t[i + 1])
    <2>1. i \in 1 .. Len(nodes) - 1 /\ i \in 1 .. Len(t) /\ i + 1 \in 1 .. Len(t)
      BY <1>2
    <2> QED BY <1>2, <2>1 DEF Nested
  <1> QED BY <1>1, <1>3 DEF Nested

\* A stack grows and shrinks at the end of its last part.
LEMMA AppendToConcat ==
  ASSUME NEW S, NEW a \in Seq(S), NEW b \in Seq(S), NEW k \in S
  PROVE  a \o Append(b, k) = Append(a \o b, k)
  <1>1. a \o b \in Seq(S) /\ <<k>> \in Seq(S)
    BY ConcatProperties
  <1>2. Append(a \o b, k) = (a \o b) \o <<k>> /\ Append(b, k) = b \o <<k>>
    BY <1>1, AppendIsConcat
  <1> QED BY <1>1, <1>2, ConcatAssociative

LEMMA WithoutOfConcat ==
  ASSUME NEW S, NEW a \in Seq(S), NEW b \in Seq(S), b # << >>
  PROVE  Without(a \o b) = a \o Without(b) /\ a \o b # << >>
  <1>1. PICK c \in Seq(S), k \in S : c = Without(b) /\ b = Append(c, k)
    BY LastOfSeq
  <1>2. a \o b = Append(a \o c, k)
    <2>1. a \o Append(c, k) = Append(a \o c, k)
      BY AppendToConcat
    <2> QED BY <1>1, <2>1
  <1>3. Without(a \o b) = a \o c
    <2>1. a \o c \in Seq(S)
      BY ConcatProperties
    <2> QED BY <1>2, <2>1, WithoutOfAppend
  <1>4. a \o b # << >>
    BY ConcatEqualIffEmpty
  <1> QED BY <1>1, <1>3, <1>4

\* The place where a function is entered.
LEMMA EnteredAt ==
  ASSUME NEW l, NEW s, NEW k, NEW o, NEW d, NEW b, NEW q,
         NEW z, z = Widened(l, Place(s, k, o, d, b, q))
  PROVE  /\ z.steps = s /\ z.own = << >> /\ z.over = o /\ z.due = d /\ z.base = b
         /\ z.loose = q /\ (z.look = k \/ z.look = Looks(l)) /\ ~z.fresh
  <1>1. z = Place(s, k, o, d, b, q) \/ z = Place(s, Looks(l), o, d, b, q)
    <2>1. CASE z = [Place(s, k, o, d, b, q) EXCEPT !.look = Looks(l), !.fresh = FALSE]
      <3>1. PICK none, all : none = << >> /\ all = Looks(l)
        OBVIOUS
      <3>2. z = [[steps |-> s, look |-> k, own |-> none, over |-> o, due |-> d, base |-> b,
                  loose |-> q, fresh |-> FALSE] EXCEPT !.look = all, !.fresh = FALSE]
        BY <2>1, <3>1 DEF Place
      <3>3. z = [steps |-> s, look |-> all, own |-> none, over |-> o, due |-> d, base |-> b,
                 loose |-> q, fresh |-> FALSE]
        BY <3>2
      <3> QED BY <3>1, <3>3 DEF Place
    <2> QED BY <2>1 DEF Widened
  <1>2. ASSUME NEW m, z = Place(s, m, o, d, b, q)
        PROVE  /\ z.steps = s /\ z.own = << >> /\ z.over = o /\ z.due = d /\ z.base = b
               /\ z.loose = q /\ z.look = m /\ ~z.fresh
    BY <1>2 DEF Place
  <1> QED BY <1>1, <1>2

\* s is done before what else is to be done.
Enters(s) ==
  /\ todo' = s \o Tail(todo)
  /\ UNCHANGED <<doc, look, eaten, open, fresh, panicked>>

\* The function at the top of the stack calls the function r, or goes over
\* to an arm of the match r, whose steps are s.
LEMMA TopEnters ==
  ASSUME IInv, NEW st, IsStack(doc.language, st), Works(st[1]),
         NEW f, f = st[1], NEW x, x = f.place, NEW l, l = doc.language,
         NEW r, r = Head(x.steps).rule, Head(x.steps).op \in {"call", "dispatch"},
         Meets(l, x, r),
         NEW s, NEW k, LooseOf(l, r, k) \subseteq LooseAt(x),
         NEW e, e = EnteredWith(l, r, s, k),
         e \in Entries(l), look \in k, Enters(s)
  PROVE  IInv'
  <1> DEFINE o == OverOf(l, r)
             d == DueOf(l, r)
             b == BaseOf(l, r)
             q == LooseOf(l, r, k)
             z == Widened(l, e)
             n == IF d = 1 THEN x.due ELSE 0
             rest == Tail(x.steps)
             y == Onward(l, x, rest, n)
             w == Widened(l, y)
  <1>1. /\ l \in {"latex", "bibtex"}
        /\ f \in Frames(l) /\ f.under \in Seq(StepsOf(l))
        /\ x \in PlaceSet(l) /\ Suits(x, f.outer)
        /\ rest \in Seq(StepsOf(l)) /\ Tail(todo) = rest \o f.under
        /\ \A v \in After(l, x) : Widened(l, v) \in PlacesOf(l)
    BY TopIsAtAPlace
  <1>2. z \in PlacesOf(l) /\ s # << >>
    <2>1. e.steps # << >> /\ z \in PlacesOf(l)
      BY <1>1, FunctionsAreSafe
    <2>2. e.steps = s
      BY DEF EnteredWith, Place
    <2> QED BY <2>1, <2>2
  <1>3. /\ z.steps = s /\ z.own = << >> /\ z.over = o /\ z.due = d /\ z.base = b
        /\ z.loose = q /\ look \in z.look /\ ~z.fresh
    <2>1. look \in Looks(l)
      BY DEF IInv
    <2> HIDE DEF z, o, d, b, q
    <2>2. e = Place(s, k, o, d, b, q) /\ z = Widened(l, e)
      BY DEF z, o, d, b, q, EnteredWith
    <2>3. /\ z.steps = s /\ z.own = << >> /\ z.over = o /\ z.due = d /\ z.base = b
          /\ z.loose = q /\ (z.look = k \/ z.look = Looks(l)) /\ ~z.fresh
      BY <2>2, EnteredAt
    <2> QED BY <2>1, <2>3
  <1>4. s \in Seq(StepsOf(l)) /\ o \in Int /\ d \in {0, 1}
    <2> HIDE DEF z, o, d, b, q
    <2>1. z \in PlaceSet(l)
      BY <1>1, <1>2, PlacesAreSafe
    <2>2. z.steps \in Seq(StepsOf(l)) /\ z.over \in Int /\ z.due \in {0, 1}
      BY <2>1 DEF PlaceSet
    <2> QED BY <1>3, <2>2
  <1>5. n \in {0, 1} /\ n <= d /\ x.due \in {0, 1} /\ x.own \in Seq(Kinds(l)) /\ x.over \in Int
    <2>1. x.due \in {0, 1} /\ x.own \in Seq(Kinds(l)) /\ x.over \in Int
      BY <1>1 DEF PlaceSet
    <2> HIDE DEF d
    <2> QED BY <1>4, <2>1
  <1>6. w \in PlacesOf(l)
    <2>1. y \in After(l, x)
      BY DEF After
    <2> QED BY <1>1, <2>1
  <1>7. /\ y \in AnyPlace(l) /\ y.look = Looks(l)
        /\ w.steps = rest /\ w.look = Looks(l) /\ w.own = x.own
        /\ w.over = x.over - 2 * n /\ w.due = x.due - n /\ w.base = x.base
        /\ w.loose = x.loose /\ ~w.fresh
    <2>1. /\ y \in AnyPlace(l) /\ y.look = Looks(l)
          /\ y.steps = rest /\ y.own = x.own
          /\ y.over = x.over - 2 * n /\ y.due = x.due - n /\ y.base = x.base
          /\ y.loose = x.loose /\ ~y.fresh
      <3> HIDE DEF n, rest
      <3> QED BY <1>1, <1>5, OnwardIsTyped
    <2>2. w \in PlaceSet(l)
      BY <1>1, <1>6, PlacesAreSafe
    <2> HIDE DEF y
    <2>3. /\ w.steps = y.steps /\ w.own = y.own /\ w.over = y.over
          /\ w.due = y.due /\ w.base = y.base /\ w.loose = y.loose
          /\ y.look \subseteq w.look /\ w.look \subseteq Looks(l)
          /\ w.fresh => y.fresh
      <3>1. w = Widened(l, y)
        OBVIOUS
      <3>2. w.look \subseteq Looks(l)
        BY <2>2 DEF PlaceSet
      <3> HIDE DEF w
      <3>3. /\ w.steps = y.steps /\ w.own = y.own /\ w.over = y.over
            /\ w.due = y.due /\ w.base = y.base /\ w.loose = y.loose
            /\ w.fresh => y.fresh
        BY <2>1, <3>1 DEF Widened, AnyPlace
      <3>4. y.look \subseteq w.look
        BY <2>1, <3>1 DEF Widened
      <3> QED BY <3>2, <3>3, <3>4
    <2> HIDE DEF n, w, rest
    <2> QED BY <2>1, <2>3
  <1>8. /\ open = f.outer \o x.own
        /\ Len(open) <= 2 * eaten + x.over
        /\ f.goal <= eaten + x.due
    BY DEF Works
  <1>9. /\ Typed' /\ doc' = doc /\ look' = look /\ open' = open /\ eaten' = eaten
        /\ fresh' = fresh /\ todo' = s \o (rest \o f.under)
    BY <1>1 DEF Enters, Typed, IInv
  <1>10. /\ eaten \in Nat /\ f.outer \in Seq(Kinds(l)) /\ f.goal \in Nat
         /\ open \in Seq(Kinds(l)) /\ Len(open) \in Nat
         /\ Len(open) = Len(f.outer) + Len(x.own)
    <2>1. eaten \in Nat /\ open \in Seq(Kinds(l))
      BY DEF IInv
    <2>2. f.outer \in Seq(Kinds(l)) /\ f.goal \in Nat
      BY <1>1 DEF Frames
    <2>3. Len(open) = Len(f.outer) + Len(x.own)
      BY <1>5, <1>8, <2>2, ConcatProperties
    <2> QED BY <2>1, <2>2, <2>3, LenProperties
  <1>11. x.over <= o /\ Suits(z, open)
    <2>1. x.over <= o /\ (b # Anywhere => x.base # Anywhere /\ b = x.base + Len(x.own))
      BY DEF Meets
    <2>2. z.base \in {Anywhere, Len(open)}
      BY <1>1, <1>3, <1>10, <2>1 DEF Suits
    <2>3. \A t \in q : IsLoose(t, f.outer \o x.own)
      BY <1>1, <1>5, <1>10, LooseIsLoose
    <2> QED BY <1>3, <1>8, <2>1, <2>2, <2>3 DEF Suits
  <1> HIDE DEF o, d, b, q, z, n, rest, y, w
  <1>15. /\ eaten \in Nat /\ f.goal \in Nat /\ Len(open) \in Nat
        /\ Len(open) <= 2 * eaten + x.over /\ f.goal <= eaten + x.due
        /\ x.over \in Int /\ x.due \in {0, 1} /\ x.over <= o
    BY <1>5, <1>8, <1>10, <1>11
  <1>12. 2 * n <= 2 * d /\ Len(open) <= 2 * eaten + o
    BY <1>4, <1>5, <1>15
  <1>13. CASE rest = << >>
    <2>1. x.own = << >> /\ x.due = n
      <3>1. w.own = << >> /\ w.due = 0
        BY <1>1, <1>6, <1>7, <1>13, PlacesAreSafe
      <3> QED BY <1>5, <1>7, <3>1
    <2>2. open = f.outer
      BY <1>8, <1>10, <2>1, ConcatEmptySeq
    <2>3. todo' = s \o f.under
      <3>1. << >> \o f.under = f.under
        BY <1>1
      <3> QED BY <1>9, <1>13, <3>1
    <2>4. open = f.outer \o << >> /\ f.goal <= eaten + d
      <3>1. f.outer \o << >> = f.outer
        BY <1>10, ConcatEmptySeq
      <3> QED BY <1>4, <1>5, <1>8, <1>10, <2>1, <2>2, <3>1
    <2>5. [f EXCEPT !.place = z].place = z /\ [f EXCEPT !.place = z].outer = f.outer
          /\ [f EXCEPT !.place = z].goal = f.goal /\ [f EXCEPT !.place = z].under = f.under
      BY <1>1 DEF Frames
    <2>6. Works([f EXCEPT !.place = z])'
      BY <1>3, <1>9, <1>12, <2>3, <2>4, <2>5 DEF Works
    <2> QED BY <1>2, <1>3, <1>9, <1>11, <2>2, <2>6, TopGoesOn
  <1>14. CASE rest # << >>
    <2>0. PICK c : c = [place |-> z, outer |-> open, goal |-> eaten + d,
                        under |-> rest \o f.under]
      OBVIOUS
    <2> DEFINE g == [f EXCEPT !.place = w]
    <2>1. c \in Frames(l)
      <3>1. rest \o f.under \in Seq(StepsOf(l)) /\ eaten + d \in Nat
        BY <1>1, <1>4, <1>10
      <3> QED BY <1>2, <1>10, <2>0, <3>1 DEF Frames
    <2>2. c.place = z /\ c.outer = open /\ c.goal = eaten + d
          /\ c.under = rest \o f.under
      BY <2>0
    <2>3. g.place = w /\ g.outer = f.outer /\ g.goal = f.goal /\ g.under = f.under
      BY <1>1 DEF Frames
    <2>4. Waits(l, c, g)
      <3>1. Len(open) <= 2 * (eaten + d) + (x.over - 2 * n)
        <4>1. \A p, i, v \in Int : \A m, j \in {0, 1} :
                m <= j /\ p <= 2 * i + v => p <= 2 * (i + j) + (v - 2 * m)
          OBVIOUS
        <4> QED BY <1>4, <1>5, <1>15, <4>1
      <3>2. f.goal <= (eaten + d) + (x.due - n)
        <4>1. \A p, i \in Int : \A m, j, v \in {0, 1} :
                m <= j /\ p <= i + v => p <= (i + j) + (v - m)
          OBVIOUS
        <4>2. f.goal \in Int /\ eaten \in Int /\ f.goal <= eaten + x.due
          BY <1>15
        <4>3. n \in {0, 1} /\ d \in {0, 1} /\ x.due \in {0, 1} /\ n <= d
          BY <1>4, <1>5
        <4> QED BY <4>1, <4>2, <4>3
      <3> HIDE DEF g
      <3> QED BY <1>7, <1>8, <2>2, <2>3, <3>1, <3>2 DEF Waits
    <2>5. Suits(c.place, c.outer)
      BY <1>11, <2>2
    <2>6. Works(c)'
      <3>1. open' = c.outer \o c.place.own
        BY <1>3, <1>9, <1>10, <2>2, ConcatEmptySeq
      <3>2. Len(open') <= 2 * eaten' + c.place.over
        BY <1>3, <1>9, <1>12, <2>2
      <3>3. c.goal <= eaten' + c.place.due
        BY <1>3, <1>4, <1>9, <1>10, <2>2
      <3>4. todo' = c.place.steps \o c.under /\ look' \in c.place.look /\ ~c.place.fresh
        BY <1>3, <1>9, <2>2
      <3> QED BY <3>1, <3>2, <3>3, <3>4 DEF Works
    <2>7. w.steps # << >> /\ Suits(w, f.outer)
      BY <1>1, <1>7, <1>14 DEF Suits
    <2>8. c.place.steps # << >>
      BY <1>2, <1>3, <2>2
    <2> QED BY <1>6, <1>9, <2>1, <2>4, <2>5, <2>6, <2>7, <2>8, TopCalls
  <1> QED BY <1>13, <1>14

-----------------------------------------------------------------------------
(* One lemma per kind of step.                                              *)

\* f is at the top of the stack, at the place x.
OnTop(st, f, x, l) ==
  /\ l = doc.language
  /\ IsStack(l, st)
  /\ f = st[1] /\ x = f.place
  /\ Works(f)

\* What is known of the steps of a function that takes one,
KnowsSteps(f, x, l) ==
  /\ f.under \in Seq(StepsOf(l)) /\ f.place = x
  /\ x \in PlaceSet(l) /\ x.look \subseteq Looks(l)
  /\ x.steps \in Seq(StepsOf(l)) /\ x.steps # << >>
  /\ Head(x.steps) \in StepsOf(l) /\ Tail(x.steps) \in Seq(StepsOf(l))
  /\ x.steps = <<Head(x.steps)>> \o Tail(x.steps)
  /\ todo # << >>
  /\ Head(todo) = Head(x.steps) /\ Tail(todo) = Tail(x.steps) \o f.under
  /\ Tail(todo) \in Seq(StepsOf(l))
  /\ MayGoOn(l, x)
  /\ \A y \in After(l, x) : Widened(l, y) \in PlacesOf(l)

\* and of what it has counted.
KnowsCounts(f, x, l) ==
  /\ x.own \in Seq(Kinds(l)) /\ x.over \in Int /\ x.due \in {0, 1}
  /\ f.outer \in Seq(Kinds(l)) /\ f.goal \in Nat
  /\ look \in x.look /\ open = f.outer \o x.own
  /\ Len(open) <= 2 * eaten + x.over /\ f.goal <= eaten + x.due
  /\ x.fresh => fresh
  /\ eaten \in Nat /\ open \in Seq(Kinds(l)) /\ Nested(open)
  /\ Suits(x, f.outer)

\* Both are known of the function at the top of the stack.
LEMMA AtTop ==
  ASSUME IInv, NEW st, NEW f, NEW x, NEW l, OnTop(st, f, x, l)
  PROVE  KnowsSteps(f, x, l) /\ KnowsCounts(f, x, l)
  <1>1. /\ l \in {"latex", "bibtex"} /\ f \in Frames(l)
        /\ f.under \in Seq(StepsOf(l)) /\ x \in PlaceSet(l) /\ MayGoOn(l, x)
        /\ Suits(x, f.outer)
        /\ x.steps \in Seq(StepsOf(l)) /\ x.steps # << >>
        /\ Head(x.steps) \in StepsOf(l) /\ Tail(x.steps) \in Seq(StepsOf(l))
        /\ x.steps = <<Head(x.steps)>> \o Tail(x.steps)
        /\ todo # << >>
        /\ Head(todo) = Head(x.steps) /\ Tail(todo) = Tail(x.steps) \o f.under
        /\ \A y \in After(l, x) : Widened(l, y) \in PlacesOf(l)
    BY TopIsAtAPlace DEF OnTop
  <1>2. f.outer \in Seq(Kinds(l)) /\ f.goal \in Nat
    BY <1>1 DEF Frames
  <1>3. x.own \in Seq(Kinds(l)) /\ x.over \in Int /\ x.due \in {0, 1} /\ x.look \subseteq Looks(l)
    BY <1>1 DEF PlaceSet
  <1>4. look \in x.look /\ open = f.outer \o x.own
        /\ Len(open) <= 2 * eaten + x.over /\ f.goal <= eaten + x.due
        /\ (x.fresh => fresh) /\ f.place = x
    BY DEF OnTop, Works
  <1>5. eaten \in Nat /\ open \in Seq(Kinds(l)) /\ Nested(open)
    BY DEF IInv, OnTop
  <1>6. KnowsSteps(f, x, l)
    <2>1. Tail(todo) \in Seq(StepsOf(l))
      BY <1>1, ConcatProperties
    <2> QED BY <1>1, <1>3, <1>4, <2>1 DEF KnowsSteps
  <1>7. KnowsCounts(f, x, l)
    BY <1>1, <1>2, <1>3, <1>4, <1>5 DEF KnowsCounts
  <1> QED BY <1>6, <1>7

\* The function goes on at y.
LEMMA TopGoesTo ==
  ASSUME IInv, NEW st, NEW f, NEW x, NEW l, OnTop(st, f, x, l),
         NEW y \in AnyPlace(l), y \in After(l, x), y.base = x.base, y.loose = x.loose,
         Typed', doc' = doc, Moves(f, y)
  PROVE  IInv'
  <1>1. Widened(l, y) \in PlacesOf(l) /\ f.place = x
    BY AtTop DEF KnowsSteps
  <1>2. IsStack(doc.language, st) /\ f = st[1] /\ l = doc.language
    BY DEF OnTop
  <1> QED BY <1>1, <1>2, TopMoves

\* The function opens or closes nodes or puts something into the innermost one.
LEMMA TopSteps ==
  ASSUME IInv, NEW st, NEW f, NEW x, NEW l, OnTop(st, f, x, l),
         KnowsSteps(f, x, l), KnowsCounts(f, x, l),
         NEW own \in Seq(Kinds(l)), NEW b \in BOOLEAN,
         Stepped(x, Tail(x.steps), own, b) \in After(l, x),
         todo' = Tail(todo), open' = f.outer \o own, Nested(open'),
         b => fresh', UNCHANGED <<doc, look, eaten, panicked>>
  PROVE  IInv'
  <1> DEFINE rest == Tail(x.steps)
             n == Len(own) - Len(x.own)
  <1>1. x \in PlaceSet(l) /\ rest \in Seq(StepsOf(l))
    BY DEF KnowsSteps
  <1>2. PICK y : y = Stepped(x, rest, own, b)
    OBVIOUS
  <1>3. /\ x.own \in Seq(Kinds(l)) /\ Len(own) \in Nat /\ Len(x.own) \in Nat /\ n \in Int
        /\ f.outer \in Seq(Kinds(l)) /\ Len(f.outer) \in Nat
    BY LenProperties DEF KnowsCounts
  <1>4. [x EXCEPT !.steps = rest, !.own = own, !.over = @ + n, !.fresh = b] = y
    BY <1>2 DEF Stepped
  <1> HIDE DEF rest, n
  <1>5. /\ y \in AnyPlace(l)
        /\ y.steps = rest /\ y.look = x.look /\ y.own = own
        /\ y.over = x.over + n /\ y.due = x.due /\ y.base = x.base
        /\ y.loose = x.loose /\ y.fresh = b
    <2> DEFINE S == Seq(StepsOf(l))
               L == Looks(l)
               K == Seq(Kinds(l))
               G == SUBSET Guarded
    <2>1. x \in [steps : S, look : SUBSET L, own : K, over : Int, due : Int,
                 base : Int, loose : G, fresh : BOOLEAN]
      BY <1>1 DEF PlaceSet, Anywhere
    <2>2. rest \in S /\ own \in K
      BY <1>1
    <2> HIDE DEF S, L, K, G
    <2>3. y = [steps |-> rest, look |-> x.look, own |-> own, over |-> x.over + n,
               due |-> x.due, base |-> x.base, loose |-> x.loose, fresh |-> b]
      BY <1>4, <2>1
    <2>4. /\ y.steps = rest /\ y.look = x.look /\ y.own = own
          /\ y.over = x.over + n /\ y.due = x.due /\ y.base = x.base
          /\ y.loose = x.loose /\ y.fresh = b
      BY <2>3
    <2>5. x.over \in Int /\ x.due \in Int /\ x.base \in Int /\ x.look \in SUBSET L
          /\ x.loose \in G
      BY <2>1
    <2>6. x.over + n \in Int
      BY <1>3, <2>5
    <2>7. y \in [steps : S, look : SUBSET L, own : K, over : Int, due : Int,
                 base : Int, loose : G, fresh : BOOLEAN]
      BY <2>2, <2>3, <2>5, <2>6
    <2> QED BY <2>4, <2>7 DEF S, L, K, G, AnyPlace
  <1>6. Typed' /\ doc' = doc
    <2>1. open' \in Seq(Kinds(l))
      BY <1>3, ConcatProperties
    <2> QED BY <2>1 DEF Typed, IInv, OnTop
  <1>7. Moves(f, y)
    <2>1. todo' = y.steps \o f.under
      BY <1>5 DEF KnowsSteps, rest
    <2>2. open = f.outer \o x.own /\ Len(open) <= 2 * eaten + x.over
          /\ x.over \in Int /\ eaten \in Nat
      BY DEF KnowsCounts
    <2>3. f.goal <= eaten + x.due /\ look \in x.look
      BY DEF KnowsCounts
    <2>4. Len(open) = Len(f.outer) + Len(x.own) /\ Len(open') = Len(f.outer) + Len(own)
      BY <1>3, <2>2, ConcatProperties
    <2>5. Len(open') <= 2 * eaten + y.over
      <3>1. PICK m, c, d : m = Len(f.outer) /\ c = Len(x.own) /\ d = Len(own)
        OBVIOUS
      <3>2. /\ m \in Nat /\ c \in Nat /\ d \in Nat /\ x.over \in Int /\ eaten \in Nat
            /\ m + c <= 2 * eaten + x.over
        BY <1>3, <2>2, <2>4, <3>1
      <3>3. m + d <= 2 * eaten + (x.over + (d - c))
        BY <3>2
      <3>4. Len(open') = m + d /\ y.over = x.over + (d - c)
        BY <1>5, <2>4, <3>1 DEF n
      <3> QED BY <3>3, <3>4
    <2> QED BY <1>5, <2>1, <2>3, <2>5 DEF Moves
  <1> QED BY <1>2, <1>5, <1>6, <1>7, TopGoesTo DEF rest

\* A node that may be started belongs into the innermost open one.
LEMMA StartedFits ==
  ASSUME NEW f, NEW x, NEW l, KnowsCounts(f, x, l), NEW k, MayStart(x, k)
  PROVE  open # << >> => Fits(open[Len(open)], k)
  <1>1. CASE k \notin DOMAIN Level
    BY <1>1 DEF Fits
  <1>2. CASE k \in DOMAIN Level
    <2>1. PICK t \in DOMAIN DivisionOf \intersect LooseAt(x) : DivisionOf[t] = k
      BY <1>2 DEF MayStart
    <2>2. IsLoose(t, open)
      BY <2>1, LooseIsLoose DEF KnowsCounts
    <2>3. t \notin {"R_CURLY", "END_ENVIRONMENT_NAME"}
      BY <2>1 DEF DivisionOf
    <2> QED BY <2>1, <2>2, <2>3 DEF IsLoose
  <1> QED BY <1>1, <1>2

\* start_node.
LEMMA StartNodeKeeps ==
  ASSUME IInv, NEW st, NEW f, NEW x, NEW l, OnTop(st, f, x, l),
         KnowsSteps(f, x, l), KnowsCounts(f, x, l), StartNode
  PROVE  IInv'
  <1>1. Head(x.steps).op = "open" /\ Head(x.steps) = Head(todo) /\ MayGoOn(l, x)
    BY DEF StartNode, Doing, KnowsSteps
  <1>2. PICK k : k = Head(x.steps).kind
    OBVIOUS
  <1>3. PICK own : own = Append(x.own, k)
    OBVIOUS
  <1>4. Stepped(x, Tail(x.steps), own, TRUE) \in After(l, x)
    BY <1>1, <1>2, <1>3 DEF After
  <1>5. k \in Kinds(l)
    <2>1. k \in KindsIn(StepsOf(l))
      BY <1>1, <1>2 DEF KindsIn, KnowsSteps
    <2> QED BY <2>1 DEF Kinds, LatexKinds, BibtexKinds, StepsOf
  <1>6. /\ x.own \in Seq(Kinds(l)) /\ f.outer \in Seq(Kinds(l)) /\ open \in Seq(Kinds(l))
        /\ open = f.outer \o x.own /\ Nested(open)
    BY DEF KnowsCounts
  <1>7. open' = f.outer \o own /\ own \in Seq(Kinds(l))
    <2>1. open' = Append(f.outer \o x.own, k)
      BY <1>1, <1>2, <1>6 DEF StartNode
    <2>2. Append(f.outer \o x.own, k) = f.outer \o own
      <3>1. PICK K, a, b : K = Kinds(l) /\ a = f.outer /\ b = x.own
        OBVIOUS
      <3>2. a \in Seq(K) /\ b \in Seq(K) /\ k \in K
        BY <1>5, <1>6, <3>1
      <3>3. a \o Append(b, k) = Append(a \o b, k)
        BY <3>2, AppendToConcat
      <3> QED BY <1>3, <3>1, <3>3
    <2>3. own \in Seq(Kinds(l))
      BY <1>3, <1>5, <1>6, AppendProperties
    <2> QED BY <2>1, <2>2, <2>3
  <1>8. Nested(open')
    <2>1. MayStart(x, k)
      BY <1>1, <1>2 DEF MayGoOn
    <2>2. open # << >> => Fits(open[Len(open)], k)
      BY <2>1, StartedFits
    <2>3. open' = Append(open, k)
      BY <1>1, <1>2 DEF StartNode
    <2> QED BY <1>5, <1>6, <2>2, <2>3, NestedWhenStarted
  <1>9. todo' = Tail(todo)
    BY DEF StartNode, Continue, KnowsSteps
  <1>10. TRUE \in BOOLEAN /\ fresh' /\ UNCHANGED <<doc, look, eaten, panicked>>
    BY DEF StartNode
  <1> QED BY <1>4, <1>7, <1>8, <1>9, <1>10, TopSteps, Zenon

\* finish_node: a node of this function is open.
LEMMA FinishNodeKeeps ==
  ASSUME IInv, NEW st, NEW f, NEW x, NEW l, OnTop(st, f, x, l),
         KnowsSteps(f, x, l), KnowsCounts(f, x, l), FinishNode
  PROVE  IInv'
  <1>1. Head(x.steps).op = "close" /\ MayGoOn(l, x)
    BY DEF FinishNode, Doing, KnowsSteps
  <1>2. PICK own : own = Without(x.own)
    OBVIOUS
  <1>3. Stepped(x, Tail(x.steps), own, FALSE) \in After(l, x)
    BY <1>1, <1>2 DEF After
  <1>4. x.own # << >>
    BY <1>1 DEF MayGoOn
  <1>5. /\ x.own \in Seq(Kinds(l)) /\ f.outer \in Seq(Kinds(l)) /\ open \in Seq(Kinds(l))
        /\ open = f.outer \o x.own /\ Nested(open)
    BY DEF KnowsCounts
  <1>6. own \in Seq(Kinds(l)) /\ Without(open) = f.outer \o own /\ open # << >>
    BY <1>2, <1>4, <1>5, LastOfSeq, WithoutOfConcat
  <1>7. /\ open' = Without(open)
        /\ todo' = << >> \o Tail(todo)
        /\ UNCHANGED <<doc, look, eaten, panicked>>
    BY <1>6 DEF FinishNode, Continue, Without
  <1>8. Nested(open')
    BY <1>5, <1>6, <1>7, NestedWhenFinished
  <1>9. todo' = Tail(todo)
    <2>1. Tail(todo) \in Seq(StepsOf(l))
      BY DEF KnowsSteps
    <2> QED BY <1>7, <2>1
  <1>10. FALSE \in BOOLEAN /\ (FALSE => fresh') /\ open' = f.outer \o own
    BY <1>6, <1>7
  <1> QED BY <1>3, <1>6, <1>7, <1>8, <1>9, <1>10, TopSteps, Zenon

\* token(MISSING, "").
LEMMA ReportMissingKeeps ==
  ASSUME IInv, NEW st, NEW f, NEW x, NEW l, OnTop(st, f, x, l),
         KnowsSteps(f, x, l), KnowsCounts(f, x, l), ReportMissing
  PROVE  IInv'
  <1>1. Head(x.steps).op = "missing"
    BY DEF ReportMissing, Doing, KnowsSteps
  <1>2. Stepped(x, Tail(x.steps), x.own, FALSE) \in After(l, x)
    BY <1>1 DEF After
  <1>3. /\ open' = open /\ todo' = << >> \o Tail(todo)
        /\ UNCHANGED <<doc, look, eaten, panicked>>
    BY DEF ReportMissing, Continue
  <1>4. x.own \in Seq(Kinds(l)) /\ open' = f.outer \o x.own /\ Nested(open')
    BY <1>3 DEF KnowsCounts
  <1>5. todo' = Tail(todo)
    <2>1. Tail(todo) \in Seq(StepsOf(l))
      BY DEF KnowsSteps
    <2> QED BY <1>3, <2>1
  <1>6. FALSE \in BOOLEAN /\ (FALSE => fresh')
    OBVIOUS
  <1> QED BY <1>2, <1>3, <1>4, <1>5, <1>6, TopSteps, Zenon

\* What the lexer hands out is a token of the language or the end.
LEMMA ReadableIsKnown ==
  ASSUME IInv, NEW k, NEW n, NEW o
  PROVE  Readable(k, n, o) \subseteq Looks(doc.language)
  <1>1. doc.tokens \subseteq TokensOf(doc.language)
    BY LanguagesAreKnown
  <1> DEFINE more == (IF n < doc.length THEN FollowOf(doc.language, k) \intersect doc.tokens
                                        ELSE {}) \union {EOF}
             fit == { t \in more : doc.wellFormed => Owed(o, t) # NotWellFormed }
  <1>2. more \subseteq Looks(doc.language)
    BY <1>1 DEF Looks
  <1>3. fit \subseteq Looks(doc.language)
    BY <1>2
  <1>4. Readable(k, n, o) = IF fit = {} THEN {EOF} ELSE fit
    BY DEF Readable
  <1> HIDE DEF fit
  <1> QED BY <1>3, <1>4 DEF Looks

\* eat: a token is next, and the function owes one less.
LEMMA EatTokenKeeps ==
  ASSUME IInv, NEW st, NEW f, NEW x, NEW l, OnTop(st, f, x, l),
         KnowsSteps(f, x, l), KnowsCounts(f, x, l), EatToken
  PROVE  IInv'
  <1> DEFINE rest == Tail(x.steps)
             n == x.due
  <1>1. Head(x.steps).op = "eat" /\ MayGoOn(l, x)
    BY DEF EatToken, Doing, KnowsSteps
  <1>2. look # EOF
    BY <1>1 DEF MayGoOn, KnowsCounts
  <1>3. /\ eaten' = eaten + 1
        /\ \E t \in Readable(look, eaten + 1, owed) : Reveal(t, owed)
        /\ todo' = << >> \o Tail(todo)
        /\ UNCHANGED <<doc, open, panicked>>
    BY <1>2 DEF EatToken, Continue
  <1>4. look' \in Looks(l)
    BY <1>3, ReadableIsKnown DEF Reveal, OnTop
  <1>5. PICK y : y = Onward(l, x, rest, n)
    OBVIOUS
  <1>6. x \in PlaceSet(l) /\ rest \in Seq(StepsOf(l)) /\ n \in {0, 1}
    BY DEF KnowsSteps, KnowsCounts
  <1>7. /\ y \in AnyPlace(l)
        /\ y.steps = rest /\ y.look = Looks(l) /\ y.own = x.own
        /\ y.over = x.over - 2 * n /\ y.due = x.due - n /\ y.base = x.base
        /\ y.loose = x.loose /\ ~y.fresh
    <2> HIDE DEF rest, n
    <2> QED BY <1>5, <1>6, OnwardIsTyped
  <1>8. y \in After(l, x)
    BY <1>1, <1>5 DEF After
  <1>9. Typed' /\ doc' = doc
    BY <1>3, <1>4 DEF Typed, IInv, OnTop
  <1>10. Moves(f, y)
    <2>1. todo' = y.steps \o f.under
      <3>1. Tail(todo) = rest \o f.under /\ f.under \in Seq(StepsOf(l))
        BY DEF KnowsSteps
      <3>2. rest \o f.under \in Seq(StepsOf(l))
        BY <1>6, <3>1
      <3>3. << >> \o (rest \o f.under) = rest \o f.under
        BY <3>2
      <3> QED BY <1>3, <1>7, <3>1, <3>3
    <2>2. open = f.outer \o x.own /\ Len(open) <= 2 * eaten + x.over
          /\ f.goal <= eaten + x.due
          /\ f.goal \in Nat /\ x.over \in Int /\ eaten \in Nat /\ x.due \in {0, 1}
          /\ Len(open) \in Nat
      BY LenProperties DEF KnowsCounts
    <2>3. open' = f.outer \o y.own /\ f.goal <= eaten' + y.due
      BY <1>3, <1>7, <2>2
    <2>4. Len(open') <= 2 * eaten' + y.over
      <3>1. Len(open) <= 2 * (eaten + 1) + (x.over - 2 * x.due)
        <4>1. /\ Len(open) <= 2 * eaten + x.over
              /\ Len(open) \in Nat /\ x.over \in Int /\ eaten \in Nat /\ x.due \in {0, 1}
          BY <2>2
        <4> QED BY <4>1
      <3> QED BY <1>3, <1>7, <3>1
    <2> QED BY <1>4, <1>7, <2>1, <2>3, <2>4 DEF Moves
  <1> QED BY <1>7, <1>8, <1>9, <1>10, TopGoesTo

\* The function goes on at s, which is one of its places if the next token is
\* one of ks.
LEMMA TopTurns ==
  ASSUME IInv, NEW st, NEW f, NEW x, NEW l, OnTop(st, f, x, l),
         KnowsSteps(f, x, l), KnowsCounts(f, x, l),
         NEW s \in Seq(StepsOf(l)), NEW ks,
         look \in ks, Where(x, s, ks) \subseteq After(l, x),
         todo' = s \o f.under,
         UNCHANGED <<doc, look, eaten, open, fresh, panicked>>
  PROVE  IInv'
  <1>1. x \in PlaceSet(l) /\ x.look \subseteq Looks(l) /\ look \in x.look \intersect ks
    BY DEF KnowsSteps, KnowsCounts
  <1>2. PICK y : y = [x EXCEPT !.steps = s, !.look = @ \intersect ks]
    OBVIOUS
  <1>3. y \in After(l, x)
    <2>1. x.look \intersect ks # {}
      BY <1>1
    <2>2. Where(x, s, ks) = {[x EXCEPT !.steps = s, !.look = @ \intersect ks]}
      BY <2>1 DEF Where
    <2> QED BY <1>2, <2>2
  <1>4. /\ y \in AnyPlace(l)
        /\ y.steps = s /\ y.look = x.look \intersect ks /\ y.own = x.own
        /\ y.over = x.over /\ y.due = x.due /\ y.base = x.base /\ y.loose = x.loose
        /\ y.fresh = x.fresh
    <2> DEFINE S == Seq(StepsOf(l))
               L == Looks(l)
               K == Seq(Kinds(l))
               G == SUBSET Guarded
    <2>1. x \in [steps : S, look : SUBSET L, own : K, over : Int, due : Int,
                 base : Int, loose : G, fresh : BOOLEAN]
      BY <1>1 DEF PlaceSet, Anywhere
    <2>2. s \in S
      OBVIOUS
    <2> HIDE DEF S, L, K, G
    <2>3. y = [steps |-> s, look |-> x.look \intersect ks, own |-> x.own,
               over |-> x.over, due |-> x.due, base |-> x.base, loose |-> x.loose,
               fresh |-> x.fresh]
      BY <1>2, <2>1
    <2>4. /\ y.steps = s /\ y.look = x.look \intersect ks /\ y.own = x.own
          /\ y.over = x.over /\ y.due = x.due /\ y.base = x.base /\ y.loose = x.loose
          /\ y.fresh = x.fresh
      BY <2>3
    <2>5. x.own \in K /\ x.over \in Int /\ x.due \in Int /\ x.base \in Int
          /\ x.loose \in G /\ x.look \intersect ks \in SUBSET L /\ x.fresh \in BOOLEAN
      BY <2>1
    <2>6. y \in [steps : S, look : SUBSET L, own : K, over : Int, due : Int,
                 base : Int, loose : G, fresh : BOOLEAN]
      BY <2>2, <2>3, <2>5
    <2> QED BY <2>4, <2>6 DEF S, L, K, G, AnyPlace
  <1>5. Typed' /\ doc' = doc
    BY DEF Typed, IInv
  <1>6. Moves(f, y)
    <2>1. /\ open = f.outer \o x.own /\ Len(open) <= 2 * eaten + x.over
          /\ f.goal <= eaten + x.due
          /\ x.fresh => fresh
      BY DEF KnowsCounts
    <2> QED BY <1>1, <1>4, <2>1 DEF Moves
  <1> QED BY <1>3, <1>4, <1>5, <1>6, TopGoesTo

\* s is put before the rest of the function.
LEMMA PutBefore ==
  ASSUME NEW f, NEW x, NEW l, KnowsSteps(f, x, l), NEW s \in Seq(StepsOf(l)),
         todo' = s \o Tail(todo)
  PROVE  /\ s \o Tail(x.steps) \in Seq(StepsOf(l))
         /\ todo' = (s \o Tail(x.steps)) \o f.under
  <1>1. Tail(x.steps) \in Seq(StepsOf(l)) /\ f.under \in Seq(StepsOf(l))
        /\ Tail(todo) = Tail(x.steps) \o f.under
    BY DEF KnowsSteps
  <1>2. (s \o Tail(x.steps)) \o f.under = s \o (Tail(x.steps) \o f.under)
    <2> DEFINE S == Seq(StepsOf(l))
               r == Tail(x.steps)
               u == f.under
    <2>1. s \in S /\ r \in S /\ u \in S
      BY <1>1
    <2> HIDE DEF r, u
    <2>2. (s \o r) \o u = s \o (r \o u)
      BY <2>1, ConcatAssociative
    <2> QED BY <2>2 DEF r, u
  <1>3. s \o Tail(x.steps) \in Seq(StepsOf(l))
    BY <1>1, ConcatProperties
  <1> QED BY <1>1, <1>2, <1>3

\* An if: the next token decides.
LEMMA ChooseKeeps ==
  ASSUME IInv, NEW st, NEW f, NEW x, NEW l, OnTop(st, f, x, l),
         KnowsSteps(f, x, l), KnowsCounts(f, x, l), Choose
  PROVE  IInv'
  <1> DEFINE step == Head(x.steps)
             rest == Tail(x.steps)
             others == Looks(l) \ step.kinds
  <1>1. step.op = "if" /\ step = Head(todo) /\ MayGoOn(l, x)
    BY DEF Choose, Doing, KnowsSteps
  <1>2. look \in x.look /\ look \in Looks(l)
    BY DEF KnowsSteps, KnowsCounts
  <1>3. UNCHANGED <<doc, look, eaten, open, fresh, panicked>>
    BY DEF Choose
  <1>4. CASE look \in step.kinds
    <2>1. step.yes \in Seq(StepsOf(l))
      BY <1>1, <1>2, <1>4 DEF MayGoOn
    <2>2. todo' = step.yes \o Tail(todo)
      BY <1>1, <1>4 DEF Choose, Continue
    <2>3. step.yes \o rest \in Seq(StepsOf(l)) /\ todo' = (step.yes \o rest) \o f.under
      BY <2>1, <2>2, PutBefore
    <2>4. Where(x, step.yes \o rest, step.kinds) \subseteq After(l, x)
      BY <1>1 DEF After
    <2> HIDE DEF step, rest
    <2> QED BY <1>3, <1>4, <2>3, <2>4, TopTurns
  <1>5. CASE look \notin step.kinds
    <2>1. step.no \in Seq(StepsOf(l))
      BY <1>1, <1>2, <1>5 DEF MayGoOn
    <2>2. todo' = step.no \o Tail(todo)
      BY <1>1, <1>5 DEF Choose, Continue
    <2>3. step.no \o rest \in Seq(StepsOf(l)) /\ todo' = (step.no \o rest) \o f.under
      BY <2>1, <2>2, PutBefore
    <2>4. Where(x, step.no \o rest, others) \subseteq After(l, x)
      BY <1>1 DEF After
    <2>5. look \in others
      BY <1>2, <1>5
    <2> HIDE DEF step, rest, others
    <2> QED BY <1>3, <2>3, <2>4, <2>5, TopTurns
  <1> QED BY <1>4, <1>5

\* The body of a loop is put before the function, or the loop is left.
LEMMA GoRound ==
  ASSUME NEW f, NEW x, NEW l, KnowsSteps(f, x, l), NEW s \in Seq(StepsOf(l)),
         todo' = (s \o <<Head(x.steps)>>) \o Tail(todo)
  PROVE  /\ s \o x.steps \in Seq(StepsOf(l))
         /\ todo' = (s \o x.steps) \o f.under
  <1> DEFINE one == <<Head(x.steps)>>
             rest == Tail(x.steps)
  <1>1. one \in Seq(StepsOf(l)) /\ rest \in Seq(StepsOf(l)) /\ x.steps = one \o rest
    BY DEF KnowsSteps
  <1> HIDE DEF one, rest
  <1>2. (s \o one) \o rest = s \o (one \o rest)
    BY <1>1, ConcatAssociative
  <1>3. s \o one \in Seq(StepsOf(l))
    BY <1>1, ConcatProperties
  <1>4. /\ (s \o one) \o rest \in Seq(StepsOf(l))
        /\ todo' = ((s \o one) \o rest) \o f.under
    <2>1. todo' = (s \o one) \o Tail(todo)
      BY DEF one
    <2> QED BY <1>3, <2>1, PutBefore DEF rest
  <1> QED BY <1>1, <1>2, <1>4

\* A loop is left for what comes after it.
LEMMA Leave ==
  ASSUME NEW f, NEW x, NEW l, KnowsSteps(f, x, l), todo' = << >> \o Tail(todo)
  PROVE  Tail(x.steps) \in Seq(StepsOf(l)) /\ todo' = Tail(x.steps) \o f.under
  <1>1. Tail(x.steps) \in Seq(StepsOf(l)) /\ Tail(todo) = Tail(x.steps) \o f.under
        /\ Tail(todo) \in Seq(StepsOf(l))
    BY DEF KnowsSteps
  <1>2. << >> \o Tail(todo) = Tail(todo)
    BY <1>1, ConcatEmptySeq
  <1> QED BY <1>1, <1>2

\* The head of a loop.
LEMMA LoopKeeps ==
  ASSUME IInv, NEW st, NEW f, NEW x, NEW l, OnTop(st, f, x, l),
         KnowsSteps(f, x, l), KnowsCounts(f, x, l), Loop
  PROVE  IInv'
  <1> DEFINE step == Head(x.steps)
             rest == Tail(x.steps)
  <1>1. step.op \in {"while", "until"} /\ step = Head(todo) /\ MayGoOn(l, x)
    BY DEF Loop, Doing, KnowsSteps
  <1>2. look \in x.look /\ look \in Looks(l)
    BY DEF KnowsSteps, KnowsCounts
  <1>3. UNCHANGED <<doc, look, eaten, open, fresh, panicked>>
    BY DEF Loop
  <1>4. CASE step.op = "while"
    <2> DEFINE others == Looks(l) \ step.kinds
    <2>1. CASE look \in step.kinds
      <3>1. step.body \in Seq(StepsOf(l))
        BY <1>2, <1>1, <1>4, <2>1 DEF MayGoOn
      <3>2. todo' = (step.body \o <<step>>) \o Tail(todo)
        BY <1>1, <1>4, <2>1 DEF Loop, Continue
      <3>3. step.body \o x.steps \in Seq(StepsOf(l))
            /\ todo' = (step.body \o x.steps) \o f.under
        BY <3>1, <3>2, GoRound
      <3>4. Where(x, step.body \o x.steps, step.kinds) \subseteq After(l, x)
        BY <1>4 DEF After
      <3> HIDE DEF step, rest
      <3> QED BY <1>3, <2>1, <3>3, <3>4, TopTurns
    <2>2. CASE look \notin step.kinds
      <3>1. todo' = << >> \o Tail(todo)
        BY <1>1, <1>4, <2>2 DEF Loop, Continue
      <3>2. rest \in Seq(StepsOf(l)) /\ todo' = rest \o f.under
        BY <3>1, Leave
      <3>3. Where(x, rest, others) \subseteq After(l, x)
        BY <1>4 DEF After
      <3>4. look \in others
        BY <1>2, <2>2
      <3> HIDE DEF step, rest, others
      <3> QED BY <1>3, <3>2, <3>3, <3>4, TopTurns
    <2> QED BY <2>1, <2>2
  <1>5. CASE step.op = "until"
    <2> DEFINE others == (Looks(l) \ step.kinds) \ {EOF}
               ends == step.kinds \union {EOF}
    <2>1. CASE look \in others
      <3>1. step.body \in Seq(StepsOf(l))
        BY <1>2, <1>1, <1>5, <2>1 DEF MayGoOn
      <3>2. todo' = (step.body \o <<step>>) \o Tail(todo)
        BY <1>1, <1>5, <2>1 DEF Loop, Continue
      <3>3. step.body \o x.steps \in Seq(StepsOf(l))
            /\ todo' = (step.body \o x.steps) \o f.under
        BY <3>1, <3>2, GoRound
      <3>4. Where(x, step.body \o x.steps, others) \subseteq After(l, x)
        BY <1>5 DEF After
      <3> HIDE DEF step, rest, others
      <3> QED BY <1>3, <2>1, <3>3, <3>4, TopTurns
    <2>2. CASE look \in ends
      <3>1. todo' = << >> \o Tail(todo)
        BY <1>1, <1>5, <2>2 DEF Loop, Continue
      <3>2. rest \in Seq(StepsOf(l)) /\ todo' = rest \o f.under
        BY <3>1, Leave
      <3>3. Where(x, rest, ends) \subseteq After(l, x)
        BY <1>5 DEF After
      <3> HIDE DEF step, rest, ends
      <3> QED BY <1>3, <2>2, <3>2, <3>3, TopTurns
    <2> QED BY <1>2, <2>1, <2>2
  <1> QED BY <1>1, <1>4, <1>5

\* The end of a concatenation.
LEMMA EndOfConcat ==
  ASSUME NEW S, NEW s \in Seq(S), NEW t \in Seq(S), NEW h \in 1..Len(s)
  PROVE  /\ SubSeq(s, h + 1, Len(s)) \in Seq(S)
         /\ SubSeq(s \o t, h + 1, Len(s \o t)) = SubSeq(s, h + 1, Len(s)) \o t
  <1> DEFINE a == SubSeq(s, h + 1, Len(s))
             b == SubSeq(s \o t, h + 1, Len(s \o t))
             m == Len(s)
             n == Len(t)
  <1>1. m \in Nat /\ n \in Nat /\ h \in 1..m
    OBVIOUS
  <1>2. s \o t \in Seq(S) /\ Len(s \o t) = m + n
        /\ \A i \in 1..m + n : (s \o t)[i] = IF i <= m THEN s[i] ELSE t[i - m]
    BY ConcatProperties
  <1>3. a \in Seq(S) /\ Len(a) = m - h /\ \A i \in 1..m - h : a[i] = s[i + h]
    <2>1. h + 1 \in Int /\ m \in Int /\ \A i \in h + 1..m : s[i] \in S
      BY <1>1
    <2>2. /\ a \in Seq(S) /\ Len(a) = IF h + 1 <= m THEN m - (h + 1) + 1 ELSE 0
          /\ \A i \in 1..m - (h + 1) + 1 : a[i] = s[(h + 1) + i - 1]
      BY <2>1, SubSeqProperties
    <2> HIDE DEF a, m
    <2>3. (IF h + 1 <= m THEN m - (h + 1) + 1 ELSE 0) = m - h /\ m - (h + 1) + 1 = m - h
      BY <1>1
    <2>4. \A i \in 1..m - h : (h + 1) + i - 1 = i + h
      BY <1>1
    <2> QED BY <2>2, <2>3, <2>4
  <1>4. b \in Seq(S) /\ Len(b) = m + n - h /\ \A i \in 1..m + n - h : b[i] = (s \o t)[i + h]
    <2>1. h + 1 \in Int /\ Len(s \o t) \in Int /\ \A i \in h + 1..Len(s \o t) : (s \o t)[i] \in S
      BY <1>1, <1>2
    <2>2. /\ b \in Seq(S)
          /\ Len(b) = IF h + 1 <= Len(s \o t) THEN Len(s \o t) - (h + 1) + 1 ELSE 0
          /\ \A i \in 1..Len(s \o t) - (h + 1) + 1 : b[i] = (s \o t)[(h + 1) + i - 1]
      BY <2>1, SubSeqProperties
    <2> HIDE DEF b, m, n
    <2>3. /\ (IF h + 1 <= m + n THEN (m + n) - (h + 1) + 1 ELSE 0) = m + n - h
          /\ (m + n) - (h + 1) + 1 = m + n - h
      BY <1>1
    <2>4. \A i \in 1..m + n - h : (h + 1) + i - 1 = i + h
      BY <1>1
    <2> QED BY <1>2, <2>2, <2>3, <2>4
  <1>5. a \o t \in Seq(S) /\ Len(a \o t) = (m - h) + n
        /\ \A i \in 1..(m - h) + n : (a \o t)[i] = IF i <= m - h THEN a[i] ELSE t[i - (m - h)]
    <2> HIDE DEF a
    <2>1. a \o t \in Seq(S) /\ Len(a \o t) = Len(a) + Len(t)
          /\ \A i \in 1..Len(a) + Len(t) :
               (a \o t)[i] = IF i <= Len(a) THEN a[i] ELSE t[i - Len(a)]
      BY <1>3, ConcatProperties
    <2>2. Len(a) = m - h /\ Len(t) = n
      BY <1>3
    <2> HIDE DEF m, n
    <2> QED BY <2>1, <2>2
  <1> HIDE DEF a, b, m, n
  <1>6. Len(b) = Len(a \o t)
    BY <1>1, <1>4, <1>5
  <1>7. ASSUME NEW i \in 1..Len(b) PROVE b[i] = (a \o t)[i]
    <2>1. i \in 1..m + n - h /\ i \in 1..(m - h) + n /\ i + h \in 1..m + n
      BY <1>1, <1>4
    <2>2. b[i] = IF i + h <= m THEN s[i + h] ELSE t[(i + h) - m]
      BY <1>2, <1>4, <2>1
    <2>3. (a \o t)[i] = IF i <= m - h THEN a[i] ELSE t[i - (m - h)]
      BY <1>5, <2>1
    <2>4. CASE i <= m - h
      <3>1. i + h <= m /\ i \in 1..m - h
        BY <1>1, <2>1, <2>4
      <3> QED BY <1>3, <2>2, <2>3, <2>4, <3>1
    <2>5. CASE ~(i <= m - h)
      <3>1. ~(i + h <= m) /\ (i + h) - m = i - (m - h)
        BY <1>1, <2>1, <2>5
      <3> QED BY <2>2, <2>3, <2>5, <3>1
    <2> QED BY <2>4, <2>5
  <1>8. b = a \o t
    BY <1>4, <1>5, <1>6, <1>7, SeqEqual
  <1> QED BY <1>3, <1>8 DEF a, b

\* The head of the innermost loop is in the function that breaks out of it.
LEMMA LoopIsLeft ==
  ASSUME BreakLoop, NEW S, NEW s \in Seq(S), NEW u \in Seq(S), todo = s \o u,
         NEW h \in LoopHeads(s), \A j \in LoopHeads(s) : h <= j
  PROVE  /\ h \in 1..Len(s) /\ SubSeq(s, h + 1, Len(s)) \in Seq(S)
         /\ todo' = SubSeq(s, h + 1, Len(s)) \o u
         /\ UNCHANGED <<doc, look, eaten, open, fresh, clean, panicked, owed>>
  <1> DEFINE heads == { i \in DOMAIN todo : todo[i].op \in {"while", "until"} }
             head == CHOOSE i \in heads : \A j \in heads : i <= j
  <1>1. h \in 1..Len(s) /\ LoopHeads(s) = { i \in 1..Len(s) : IsLoop(s[i]) }
    BY DEF LoopHeads
  <1>2. /\ todo \in Seq(S) /\ Len(todo) = Len(s) + Len(u)
        /\ Len(s) \in Nat /\ Len(u) \in Nat
        /\ \A i \in 1..Len(s) : todo[i] = s[i]
    <2>1. /\ todo \in Seq(S) /\ Len(todo) = Len(s) + Len(u)
          /\ \A i \in 1..Len(s) + Len(u) : todo[i] = IF i <= Len(s) THEN s[i] ELSE u[i - Len(s)]
      BY ConcatProperties
    <2>2. Len(s) \in Nat /\ Len(u) \in Nat
      OBVIOUS
    <2> QED BY <2>1, <2>2
  <1>3. heads = { i \in 1..Len(todo) : IsLoop(todo[i]) }
    BY <1>2 DEF IsLoop
  <1> HIDE DEF heads
  <1>4. h \in heads /\ \A j \in heads : h <= j
    <2>1. h \in 1..Len(todo) /\ todo[h] = s[h] /\ IsLoop(s[h])
      BY <1>1, <1>2
    <2>2. ASSUME NEW j \in heads PROVE h <= j
      <3>1. j \in 1..Len(todo) /\ IsLoop(todo[j])
        BY <1>3
      <3>2. CASE j \in 1..Len(s)
        <4>1. j \in LoopHeads(s)
          BY <1>1, <1>2, <3>1, <3>2
        <4> QED BY <4>1
      <3>3. CASE j > Len(s)
        BY <1>1, <1>2, <3>1, <3>3
      <3> QED BY <1>2, <3>1, <3>2, <3>3
    <2> QED BY <1>3, <2>1, <2>2
  <1>5. head = h
    <2>1. head \in heads /\ \A j \in heads : head <= j
      BY <1>4
    <2>2. h <= head /\ head <= h
      BY <1>4, <2>1
    <2>3. heads \subseteq Int
      BY <1>2, <1>3
    <2> HIDE DEF head
    <2> QED BY <1>4, <2>1, <2>2, <2>3
  <1>6. /\ todo' = SubSeq(todo, head + 1, Len(todo))
        /\ UNCHANGED <<doc, look, eaten, open, fresh, clean, panicked, owed>>
    BY DEF BreakLoop, heads
  <1> HIDE DEF head
  <1> QED BY <1>1, <1>5, <1>6, EndOfConcat

LEMMA BreakLoopKeeps ==
  ASSUME IInv, NEW st, NEW f, NEW x, NEW l, OnTop(st, f, x, l),
         KnowsSteps(f, x, l), KnowsCounts(f, x, l), BreakLoop
  PROVE  IInv'
  <1> DEFINE u == f.under
             s == x.steps
  <1>1. Head(s).op = "break" /\ MayGoOn(l, x)
    BY DEF BreakLoop, Doing, KnowsSteps
  <1>2. s \in Seq(StepsOf(l)) /\ u \in Seq(StepsOf(l)) /\ todo = s \o u
    BY DEF KnowsSteps, OnTop, Works
  <1>3. PICK h \in LoopHeads(s) : \A j \in LoopHeads(s) : h <= j
    BY <1>1 DEF MayGoOn
  <1> HIDE DEF s, u
  <1> DEFINE t == SubSeq(s, h + 1, Len(s))
  <1>4. h \in 1..Len(s) /\ UNCHANGED <<doc, look, eaten, open, fresh, panicked>>
    BY <1>2, <1>3, LoopIsLeft
  <1>5. t \in Seq(StepsOf(l)) /\ todo' = t \o u
    BY <1>2, <1>3, LoopIsLeft
  <1> HIDE DEF t
  <1>6. PICK y : y = [x EXCEPT !.steps = t]
    OBVIOUS
  <1>7. y \in After(l, x)
    BY <1>1, <1>3, <1>6 DEF After, s, t
  <1>8. /\ y \in AnyPlace(l)
        /\ y.steps = t /\ y.look = x.look /\ y.own = x.own
        /\ y.over = x.over /\ y.due = x.due /\ y.base = x.base /\ y.loose = x.loose
        /\ y.fresh = x.fresh
    <2> DEFINE S == Seq(StepsOf(l))
               L == Looks(l)
               K == Seq(Kinds(l))
               G == SUBSET Guarded
    <2>1. x \in [steps : S, look : SUBSET L, own : K, over : Int, due : Int,
                 base : Int, loose : G, fresh : BOOLEAN]
      BY DEF KnowsSteps, PlaceSet, Anywhere
    <2>2. t \in S
      BY <1>5
    <2> HIDE DEF S, L, K, G
    <2>3. y = [steps |-> t, look |-> x.look, own |-> x.own,
               over |-> x.over, due |-> x.due, base |-> x.base, loose |-> x.loose,
               fresh |-> x.fresh]
      BY <1>6, <2>1
    <2>4. /\ y.steps = t /\ y.look = x.look /\ y.own = x.own
          /\ y.over = x.over /\ y.due = x.due /\ y.base = x.base /\ y.loose = x.loose
          /\ y.fresh = x.fresh
      BY <2>3
    <2>5. x.own \in K /\ x.over \in Int /\ x.due \in Int /\ x.base \in Int
          /\ x.loose \in G /\ x.look \in SUBSET L /\ x.fresh \in BOOLEAN
      BY <2>1
    <2>6. y \in [steps : S, look : SUBSET L, own : K, over : Int, due : Int,
                 base : Int, loose : G, fresh : BOOLEAN]
      BY <2>2, <2>3, <2>5
    <2> QED BY <2>4, <2>6 DEF S, L, K, G, AnyPlace
  <1>9. Typed' /\ doc' = doc
    BY <1>4 DEF Typed, IInv
  <1>10. Moves(f, y)
    <2>1. /\ open = f.outer \o x.own /\ Len(open) <= 2 * eaten + x.over
          /\ f.goal <= eaten + x.due
          /\ look \in x.look /\ (x.fresh => fresh)
      BY DEF KnowsCounts
    <2> QED BY <1>4, <1>5, <1>8, <2>1 DEF Moves, u
  <1> QED BY <1>7, <1>8, <1>9, <1>10, TopGoesTo

, TopGoesTo

\* A call: the contract of the function is met.
LEMMA CallRuleKeeps ==
  ASSUME IInv, NEW st, NEW f, NEW x, NEW l, OnTop(st, f, x, l),
         KnowsSteps(f, x, l), KnowsCounts(f, x, l), CallRule
  PROVE  IInv'
  <1>1. PICK r : r = Head(x.steps).rule
    OBVIOUS
  <1>2. Head(x.steps).op = "call" /\ Head(x.steps) = Head(todo) /\ MayGoOn(l, x)
    BY DEF CallRule, Doing, KnowsSteps
  <1>3. r \in DOMAIN RulesOf(l) /\ Meets(l, x, r)
    BY <1>1, <1>2 DEF MayGoOn
  <1>4. look \in x.look /\ look \in FirstOf(l, r)
    BY <1>3 DEF Meets, KnowsCounts
  <1>5. PICK s : s = RulesOf(l)[r]
    OBVIOUS
  <1>6. PICK k \in Cases(l, r) : look \in k
    <2>1. CASE r \in Strict
      <3>1. {look} \in Cases(l, r)
        BY <1>4, <2>1 DEF Cases
      <3> QED BY <3>1
    <2>2. CASE r \notin Strict
      BY <1>4, <2>2 DEF Cases
    <2> QED BY <2>1, <2>2
  <1>7. PICK e : e = EnteredWith(l, r, s, k)
    OBVIOUS
  <1>8. e \in Entries(l) /\ LooseOf(l, r, k) \subseteq LooseAt(x)
    <2>1. e \in Entries(l)
      <3>1. e \in { EnteredWith(l, r, RulesOf(l)[r], ks) : ks \in Cases(l, r) }
        BY <1>5, <1>6, <1>7
      <3>2. e \in RuleEntries(l)
        BY <1>3, <3>1 DEF RuleEntries
      <3> QED BY <3>2 DEF Entries
    <2>2. x.look \intersect k # {}
      BY <1>4, <1>6
    <2> QED BY <1>3, <2>1, <2>2 DEF Meets
  <1>9. Enters(s)
    BY <1>1, <1>2, <1>5 DEF CallRule, Continue, Enters, OnTop, rules
  <1>10. IsStack(doc.language, st) /\ Works(st[1]) /\ f = st[1] /\ x = f.place
         /\ l = doc.language
    BY DEF OnTop
  <1>11. Head(x.steps).op \in {"call", "dispatch"} /\ look \in k
    BY <1>2, <1>4, <1>6
  <1> QED BY <1>1, <1>3, <1>7, <1>8, <1>9, <1>10, <1>11, TopEnters

\* A match: there is an arm for the next token.
LEMMA MatchTokenKeeps ==
  ASSUME IInv, NEW st, NEW f, NEW x, NEW l, OnTop(st, f, x, l),
         KnowsSteps(f, x, l), KnowsCounts(f, x, l), MatchToken
  PROVE  IInv'
  <1>1. PICK r : r = Head(x.steps).rule
    OBVIOUS
  <1>2. Head(x.steps).op = "dispatch" /\ Head(x.steps) = Head(todo) /\ MayGoOn(l, x)
    BY DEF MatchToken, Doing, KnowsSteps
  <1>3. r \in DOMAIN ArmsOf(l) /\ x.look \subseteq DOMAIN ArmsOf(l)[r] /\ Meets(l, x, r)
    BY <1>1, <1>2 DEF MayGoOn
  <1>4. look \in DOMAIN ArmsOf(l)[r] /\ look \in x.look /\ look \in FirstOf(l, r)
    BY <1>3 DEF KnowsCounts, Meets
  <1>5. PICK s : s = ArmsOf(l)[r][look]
    OBVIOUS
  <1>6. PICK k : k = {look}
    OBVIOUS
  <1>7. PICK e : e = EnteredWith(l, r, s, k)
    OBVIOUS
  <1>8. e \in Entries(l) /\ LooseOf(l, r, k) \subseteq LooseAt(x)
    <2>1. e \in Entries(l)
      <3>1. e \in { EnteredWith(l, r, ArmsOf(l)[r][t], {t}) : t \in DOMAIN ArmsOf(l)[r] }
        BY <1>4, <1>5, <1>6, <1>7
      <3>2. e \in ArmEntries(l)
        BY <1>3, <3>1 DEF ArmEntries
      <3> QED BY <3>2 DEF Entries
    <2>2. CASE r \in Strict
      <3>1. k \in Cases(l, r) /\ x.look \intersect k # {}
        BY <1>4, <1>6, <2>2 DEF Cases
      <3> QED BY <1>3, <2>1, <3>1 DEF Meets
    <2>3. CASE r \notin Strict
      <3>1. FirstOf(l, r) \in Cases(l, r) /\ x.look \intersect FirstOf(l, r) # {}
        BY <1>4, <2>3 DEF Cases
      <3>2. LooseOf(l, r, FirstOf(l, r)) \subseteq LooseAt(x)
        BY <1>3, <3>1 DEF Meets
      <3>3. LooseOf(l, r, k) = LooseOf(l, r, FirstOf(l, r))
        BY <2>3 DEF LooseOf
      <3> QED BY <2>1, <3>2, <3>3
    <2> QED BY <2>2, <2>3
  <1>9. Enters(s)
    <2>1. arms = ArmsOf(l)
      BY DEF OnTop, arms
    <2> QED BY <1>1, <1>2, <1>4, <1>5, <2>1 DEF MatchToken, Continue, Enters
  <1>10. IsStack(doc.language, st) /\ Works(st[1]) /\ f = st[1] /\ x = f.place
         /\ l = doc.language
    BY DEF OnTop
  <1>11. Head(x.steps).op \in {"call", "dispatch"} /\ look \in k
    BY <1>2, <1>6
  <1> QED BY <1>1, <1>3, <1>7, <1>8, <1>9, <1>10, <1>11, TopEnters

-----------------------------------------------------------------------------
(* The theorems.                                                            *)

\* The run begins with a stack of one call.
LEMMA InitEstablishesIInv ==
  ASSUME Init
  PROVE  IInv
  <1> DEFINE l == doc.language
             e == Outset(l)
             z == Widened(l, e)
             f == [place |-> z, outer |-> << >>, goal |-> 0, under |-> << >>]
             st == <<f>>
  <1>1. doc \in Documents /\ l \in {"latex", "bibtex"} /\ doc.tokens \subseteq TokensOf(l)
    BY DocumentsAssumption DEF Init
  <1>2. look \in Looks(l)
    <2>1. PICK t \in Readable("none", 0, WholeDocument) : look = t
      BY DEF Init
    <2> DEFINE more == (IF 0 < doc.length THEN FollowOf(doc.language, "none") \intersect doc.tokens
                                          ELSE {}) \union {EOF}
               fit == { k \in more : doc.wellFormed => Owed(WholeDocument, k) # NotWellFormed }
    <2>2. more \subseteq Looks(l)
      BY <1>1 DEF Looks
    <2>3. fit \subseteq Looks(l)
      BY <2>2
    <2>4. Readable("none", 0, WholeDocument) = IF fit = {} THEN {EOF} ELSE fit
      BY DEF Readable
    <2> HIDE DEF fit
    <2> QED BY <2>1, <2>3, <2>4 DEF Looks
  <1>3. z \in PlacesOf(l) /\ e.steps # << >>
    BY <1>1, FunctionsAreSafe DEF Entries
  <1>4. /\ e.steps = <<Call("parse")>> /\ z = e
    BY DEF Outset, Place, Widened, IsLoop, Call
  <1>5. /\ z.steps = <<Call("parse")>> /\ z.look = Looks(l) /\ z.own = << >>
        /\ z.over = 0 /\ z.due = 0 /\ z.base = 0 /\ z.loose = Guarded /\ ~z.fresh
    <2>1. e = [steps |-> <<Call("parse")>>, look |-> Looks(l), own |-> << >>, over |-> 0,
               due |-> 0, base |-> 0, loose |-> Guarded, fresh |-> FALSE]
      BY DEF Outset, Place
    <2> HIDE DEF e, z, l
    <2> QED BY <1>4, <2>1
  <1>6. f \in Frames(l)
    <2>1. << >> \in Seq(StepsOf(l))
      OBVIOUS
    <2> HIDE DEF z
    <2> QED BY <1>3, <2>1 DEF Frames
  <1>7. z.steps \in Seq(StepsOf(l))
    BY <1>1, <1>3, PlacesAreSafe DEF PlaceSet
  <1>8. eaten = 0 /\ todo = <<Call("parse")>> /\ open = << >> /\ ~panicked
    BY DEF Init
  <1>9. f.place = z /\ f.outer = << >> /\ f.goal = 0 /\ f.under = << >>
    OBVIOUS
  <1> HIDE DEF e, z, f
  <1>10. IsStack(l, st)
    <2>1. st \in Seq(Frames(l)) /\ st # << >> /\ Len(st) = 1 /\ st[1] = f
      BY <1>6
    <2>2. z.steps # << >>
      BY <1>5
    <2>3. Suits(z, << >>)
      <3>1. \A t \in Guarded : IsLoose(t, << >>)
        BY DEF Guarded, IsLoose, Shielded
      <3> QED BY <1>5, <3>1 DEF Suits
    <2> HIDE DEF st
    <2> QED BY <1>5, <1>9, <2>1, <2>2, <2>3 DEF IsStack
  <1>11. Works(f)
    <2>1. z.steps \o << >> = z.steps
      BY <1>7, ConcatEmptySeq
    <2>2. todo = f.place.steps \o f.under
      BY <1>5, <1>8, <1>9, <2>1
    <2>3. open = << >> \o << >> /\ Len(open) = 0
      BY <1>8
    <2> QED BY <1>2, <1>5, <1>8, <1>9, <2>2, <2>3 DEF Works
  <1>12. st[1] = f
    OBVIOUS
  <1>13. todo # << >> /\ open \in Seq(Kinds(l)) /\ Nested(open) /\ eaten \in Nat
    BY <1>8 DEF Nested
  <1> HIDE DEF st
  <1> QED BY <1>1, <1>2, <1>8, <1>10, <1>11, <1>12, <1>13 DEF IInv

\* Whatever step is taken, the stack still explains what is to be done.
LEMMA NextKeepsIInv ==
  ASSUME IInv, [Next]_vars
  PROVE  IInv'
  <1>1. CASE UNCHANGED vars
    BY <1>1 DEF IInv, vars, IsStack, Works, Waits
  <1>2. CASE Next
    <2>1. todo # << >>
      BY <1>2 DEF Next, StartNode, FinishNode, EatToken, ReportMissing, CallRule,
                  MatchToken, Choose, Loop, BreakLoop, Doing
    <2>2. PICK st : IsStack(doc.language, st) /\ Works(st[1])
      BY <2>1 DEF IInv
    <2>3. PICK f : f = st[1]
      OBVIOUS
    <2>4. PICK x : x = f.place
      OBVIOUS
    <2>5. PICK l : l = doc.language
      OBVIOUS
    <2>6. OnTop(st, f, x, l)
      BY <2>2, <2>3, <2>4, <2>5 DEF OnTop
    <2>7. KnowsSteps(f, x, l) /\ KnowsCounts(f, x, l)
      BY <2>6, AtTop
    <2> QED
      BY <1>2, <2>6, <2>7, StartNodeKeeps, FinishNodeKeeps, EatTokenKeeps,
         ReportMissingKeeps, CallRuleKeeps, MatchTokenKeeps, ChooseKeeps, LoopKeeps,
         BreakLoopKeeps DEF Next
  <1> QED BY <1>1, <1>2

\* In every state of a run the stack of calls explains what is still to be
\* done.
THEOREM IInvIsInvariant == Spec => []IInv
  <1>1. Init => IInv
    BY InitEstablishesIInv
  <1>2. IInv /\ [Next]_vars => IInv'
    BY NextKeepsIInv
  <1> QED BY <1>1, <1>2, PTL DEF Spec

\* Where something is left to do, a function is at work.
LEMMA IInvGivesStack ==
  ASSUME IInv, todo # << >>
  PROVE  \E st, f, x, l : OnTop(st, f, x, l) /\ KnowsSteps(f, x, l) /\ KnowsCounts(f, x, l)
  <1>1. PICK st : IsStack(doc.language, st) /\ Works(st[1])
    BY DEF IInv
  <1>2. OnTop(st, st[1], st[1].place, doc.language)
    BY <1>1 DEF OnTop
  <1>3. KnowsSteps(st[1], st[1].place, doc.language)
        /\ KnowsCounts(st[1], st[1].place, doc.language)
    BY <1>2, AtTop
  <1> QED BY <1>2, <1>3

\* A document of any length gets a tree: no function panics, every node is
\* finished, and what is open is bounded by what has been eaten.
THEOREM TreeIsAlwaysBuilt == Spec => []TreeIsBuilt
  <1>1. ASSUME IInv PROVE TreeIsBuilt
    <2>1. ~panicked /\ (todo = << >> => open = << >>) /\ eaten \in Nat
      BY <1>1 DEF IInv
    <2>2. Len(open) <= 2 * eaten + 4
      <3>1. CASE todo = << >>
        <4>1. Len(open) = 0
          BY <2>1, <3>1
        <4> QED BY <2>1, <4>1
      <3>2. CASE todo # << >>
        <4>1. PICK st, f, x, l : OnTop(st, f, x, l) /\ KnowsSteps(f, x, l)
                                 /\ KnowsCounts(f, x, l)
          BY <1>1, <3>2, IInvGivesStack
        <4>2. x \in PlacesOf(l) /\ l \in {"latex", "bibtex"}
          BY <1>1, <4>1, TopIsAtAPlace DEF OnTop
        <4>3. x.over <= 4
          BY <4>2, PlacesAreSafe
        <4>4. Len(open) <= 2 * eaten + x.over /\ x.over \in Int /\ open \in Seq(Kinds(l))
          BY <4>1 DEF KnowsCounts
        <4>5. Len(open) \in Nat
          BY <4>4
        <4> QED BY <2>1, <4>3, <4>4, <4>5
      <3> QED BY <3>1, <3>2
    <2> QED BY <2>1, <2>2 DEF TreeIsBuilt
  <1> QED BY <1>1, IInvIsInvariant, PTL

\* However long the document, a node that several functions start begins with
\* its own first token.
THEOREM NodesStartAtTheirTokens == Spec => []NodesStartRight
  <1>1. ASSUME IInv PROVE NodesStartRight
    <2> SUFFICES ASSUME Doing("open"), Head(todo).kind \in DOMAIN NodeBegins
                 PROVE  look \in NodeBegins[Head(todo).kind]
      BY DEF NodesStartRight
    <2>1. PICK st, f, x, l : KnowsSteps(f, x, l) /\ KnowsCounts(f, x, l)
      BY <1>1, IInvGivesStack DEF Doing
    <2>2. Head(x.steps) = Head(todo) /\ Head(todo).op = "open" /\ MayGoOn(l, x) /\ look \in x.look
      BY <2>1 DEF KnowsSteps, KnowsCounts, Doing
    <2>3. x.look \subseteq NodeBegins[Head(todo).kind]
      <3>1. MayStart(x, Head(todo).kind)
        BY <2>2 DEF MayGoOn
      <3> QED BY <3>1 DEF MayStart
    <2> QED BY <2>2, <2>3
  <1> QED BY <1>1, IInvIsInvariant, PTL

\* However long the document, the type of a BibTeX entry is the first thing of
\* a node right under the root.
THEOREM EntriesAlwaysSurvive == Spec => []EntriesSurvive
  <1>1. ASSUME IInv PROVE EntriesSurvive
    <2> SUFFICES ASSUME Doing("eat"), look \in BibtexParser!Types
                 PROVE  fresh /\ Len(open) = 2
      BY DEF EntriesSurvive
    <2>1. PICK st, f, x, l : OnTop(st, f, x, l) /\ KnowsSteps(f, x, l)
                             /\ KnowsCounts(f, x, l)
      BY <1>1, IInvGivesStack DEF Doing
    <2>2. Head(x.steps).op = "eat" /\ MayGoOn(l, x) /\ look \in x.look
      BY <2>1 DEF KnowsSteps, KnowsCounts, Doing
    <2>3. x.fresh /\ x.base = 1 /\ Len(x.own) = 1
      BY <2>2 DEF MayGoOn
    <2>4. Len(f.outer) = 1
      BY <2>1, <2>3 DEF KnowsCounts, Suits, Anywhere
    <2>5. /\ fresh /\ open = f.outer \o x.own
          /\ f.outer \in Seq(Kinds(l)) /\ x.own \in Seq(Kinds(l))
      BY <2>1, <2>3 DEF KnowsCounts
    <2>6. Len(open) = Len(f.outer) + Len(x.own)
      BY <2>5, ConcatProperties
    <2> QED BY <2>3, <2>4, <2>5, <2>6
  <1> QED BY <1>1, IInvIsInvariant, PTL

\* Where an error or an ordinary command begins nothing waits for its token.
LEMMA StartedWhereLoose ==
  ASSUME IInv, NEW k, Starting(k), NEW t,
         \/ k = "ERROR" /\ t = "R_CURLY"
         \/ k = "GENERIC_COMMAND" /\ t = "END_ENVIRONMENT_NAME",
         look = t
  PROVE  IsLoose(t, open)
  <1>1. PICK st, f, x, l : KnowsSteps(f, x, l) /\ KnowsCounts(f, x, l)
    BY IInvGivesStack DEF Starting, Doing
  <1>2. Head(x.steps).op = "open" /\ Head(x.steps).kind = k /\ MayGoOn(l, x)
        /\ look \in x.look
    BY <1>1 DEF KnowsSteps, KnowsCounts, Starting, Doing
  <1>3. MayStart(x, k)
    BY <1>2 DEF MayGoOn
  <1>4. t \in LooseAt(x)
    BY <1>2, <1>3 DEF MayStart
  <1> QED BY <1>1, <1>4, LooseIsLoose DEF KnowsCounts

\* However long the document, an error, a division or an ordinary command does
\* not swallow what an enclosing group, environment or division waits for.
THEOREM StructureIsKept == Spec => []StructureIsNotLost
  <1>1. ASSUME IInv PROVE StructureIsNotLost
    <2>1. \A i \in 1 .. Len(open) - 1 : Fits(open[i], open[i + 1])
      BY <1>1 DEF IInv, Nested
    <2>2. ASSUME Starting("ERROR"), look = "R_CURLY"
          PROVE  Shielded(open, CurlyKinds, {"ENVIRONMENT"})
      <3>1. IsLoose("R_CURLY", open)
        BY <1>1, <2>2, StartedWhereLoose
      <3> QED BY <3>1 DEF IsLoose
    <2>3. ASSUME Starting("GENERIC_COMMAND"), look = "END_ENVIRONMENT_NAME"
          PROVE  Shielded(open, {"ENVIRONMENT"}, EndsNothing)
      <3>1. IsLoose("END_ENVIRONMENT_NAME", open)
        BY <1>1, <2>3, StartedWhereLoose
      <3> QED BY <3>1 DEF IsLoose
    <2> QED BY <2>1, <2>2, <2>3 DEF StructureIsNotLost
  <1> QED BY <1>1, IInvIsInvariant, PTL
=============================================================================
