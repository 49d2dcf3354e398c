-------------------------- MODULE VideoPlayerProof --------------------------
(* The player's invariants, for videos of any length and any number of inputs.

   Each is about a state of the player and the runnables that its handlers have left
   in the queue.  Handlers take runnables out of the queue's middle and put others at
   its end, so the first part says what is due afterwards, and what Pending and Due
   lose and gain with each of the ways in which the handlers treat the queue. *)
EXTENDS VideoPlayer, FiniteSets, FiniteSetTheorems, SequenceTheorems, TLAPS

Holds(q, r) == \E i \in DOMAIN q : q[i] = r

(* What the handlers store. *)
TypeOK ==
  /\ queue \in Seq(Runnables) /\ later \in [Runnables -> Nat]
  /\ mPlayState \in {"PLAY", "PAUSE"} /\ button \in {"PLAY", "PAUSE"}
  /\ panel \in BOOLEAN /\ small \in BOOLEAN /\ dragging \in BOOLEAN
  /\ resumed \in BOOLEAN /\ loaded \in BOOLEAN /\ alive \in BOOLEAN
  /\ writing \subseteq Planes

----------------------------------------------------------------------------
(* The queue. *)

(* Induction, by the pigeonhole principle: a set of numbers with 0, and with the next
   number after each of its numbers below n, has n. *)
LEMMA Climbs ==
  ASSUME NEW S, NEW n \in Nat, 0 \in S, \A i \in 0 .. n - 1 : i \in S => i + 1 \in S
  PROVE  n \in S
<1> SUFFICES ASSUME n \notin S
             PROVE  FALSE
  OBVIOUS
<1> DEFINE T == {i \in 0 .. n : i \in S}
           f == [i \in T |-> i + 1]
<1>1. IsFiniteSet(T)
  <2>1. IsFiniteSet(0 .. n)
    BY FS_Interval
  <2>2. QED
    BY <2>1, FS_Subset
<1>2. IsFiniteSet(T \ {0}) /\ Cardinality(T \ {0}) < Cardinality(T)
  <2>1. 0 \in T
    OBVIOUS
  <2> HIDE DEF T
  <2>2. Cardinality(T) \in Nat
    BY <1>1, FS_CardinalityType
  <2>3. IsFiniteSet(T \ {0}) /\ Cardinality(T \ {0}) = Cardinality(T) - 1
    BY <1>1, <2>1, FS_RemoveElement
  <2>4. QED
    BY <2>2, <2>3
<1>3. f \in [T -> T \ {0}]
  <2> SUFFICES ASSUME NEW i \in T
               PROVE  i + 1 \in T \ {0}
    OBVIOUS
  <2>1. i \in 0 .. n - 1
    OBVIOUS
  <2>2. QED
    BY <2>1
<1>4. \A x, y \in T : x # y => f[x] # f[y]
  OBVIOUS
<1> HIDE DEF T, f
<1>5. \E x, y \in T : x # y /\ f[x] = f[y]
  BY <1>1, <1>2, <1>3, FS_PigeonHole
<1>6. QED
  BY <1>4, <1>5

(* What is posted last is due as well, and at its end nothing else. *)
LEMMA AppendHolds ==
  ASSUME NEW T, NEW q \in Seq(T), NEW x \in T
  PROVE  Append(q, x) \in Seq(T) /\ \A r : Holds(Append(q, x), r) <=> Holds(q, r) \/ r = x
<1> DEFINE n == Len(q)
<1>1. Append(q, x) \in Seq(T) /\ Len(Append(q, x)) = n + 1 /\ n \in Nat
  OBVIOUS
<1>2. DOMAIN q = 1 .. n /\ DOMAIN Append(q, x) = 1 .. n + 1
  BY <1>1
<1>3. \A i \in 1 .. n : Append(q, x)[i] = q[i]
  OBVIOUS
<1>4. Append(q, x)[n + 1] = x
  OBVIOUS
<1> HIDE DEF n
<1>5. ASSUME NEW r, Holds(Append(q, x), r) PROVE Holds(q, r) \/ r = x
  <2>1. PICK i \in 1 .. n + 1 : Append(q, x)[i] = r
    BY <1>2, <1>5 DEF Holds
  <2>2. CASE i = n + 1
    BY <1>4, <2>1, <2>2
  <2>3. CASE i # n + 1
    <3>1. i \in 1 .. n
      BY <1>1, <2>3
    <3> QED BY <1>2, <1>3, <2>1, <3>1 DEF Holds
  <2> QED BY <2>2, <2>3
<1>6. ASSUME NEW r, Holds(q, r) \/ r = x PROVE Holds(Append(q, x), r)
  <2>1. CASE r = x
    <3>1. n + 1 \in 1 .. n + 1
      BY <1>1
    <3> QED BY <1>2, <1>4, <2>1, <3>1 DEF Holds
  <2>2. CASE Holds(q, r)
    <3>1. PICK i \in 1 .. n : q[i] = r
      BY <1>2, <2>2 DEF Holds
    <3>2. i \in 1 .. n + 1
      BY <1>1
    <3> QED BY <1>2, <1>3, <3>1, <3>2 DEF Holds
  <2> QED BY <1>6, <2>1, <2>2
<1> QED BY <1>1, <1>5, <1>6

LEMMA TogetherHold ==
  ASSUME NEW T, NEW q \in Seq(T), NEW p \in Seq(T)
  PROVE  q \o p \in Seq(T) /\ \A r : Holds(q \o p, r) <=> Holds(q, r) \/ Holds(p, r)
<1> DEFINE n == Len(q)
           m == Len(p)
<1>1. q \o p \in Seq(T) /\ Len(q \o p) = n + m /\ n \in Nat /\ m \in Nat
  OBVIOUS
<1>2. DOMAIN q = 1 .. n /\ DOMAIN p = 1 .. m /\ DOMAIN (q \o p) = 1 .. n + m
  BY <1>1
<1>3. \A i \in 1 .. n + m : (q \o p)[i] = IF i <= n THEN q[i] ELSE p[i - n]
  OBVIOUS
<1> HIDE DEF n, m
<1>4. ASSUME NEW r, Holds(q \o p, r) PROVE Holds(q, r) \/ Holds(p, r)
  <2>1. PICK i \in 1 .. n + m : (q \o p)[i] = r
    BY <1>2, <1>4 DEF Holds
  <2>2. CASE i <= n
    <3>1. i \in 1 .. n /\ q[i] = r
      BY <1>1, <1>3, <2>1, <2>2
    <3> QED BY <1>2, <3>1 DEF Holds
  <2>3. CASE ~(i <= n)
    <3>1. i - n \in 1 .. m /\ p[i - n] = r
      BY <1>1, <1>3, <2>1, <2>3
    <3> QED BY <1>2, <3>1 DEF Holds
  <2> QED BY <2>2, <2>3
<1>5. ASSUME NEW r, Holds(q, r) PROVE Holds(q \o p, r)
  <2>1. PICK i \in 1 .. n : q[i] = r
    BY <1>2, <1>5 DEF Holds
  <2>2. i \in 1 .. n + m /\ (q \o p)[i] = r
    BY <1>1, <1>3, <2>1
  <2> QED BY <1>2, <2>2 DEF Holds
<1>6. ASSUME NEW r, Holds(p, r) PROVE Holds(q \o p, r)
  <2>1. PICK i \in 1 .. m : p[i] = r
    BY <1>2, <1>6 DEF Holds
  <2>2. i + n \in 1 .. n + m /\ (q \o p)[i + n] = r
    BY <1>1, <1>3, <2>1
  <2> QED BY <1>2, <2>2 DEF Holds
<1> QED BY <1>1, <1>4, <1>5, <1>6

(* When the first runnable has run, the others are still due. *)
LEMMA TailHolds ==
  ASSUME NEW T, NEW q \in Seq(T), q # <<>>
  PROVE  /\ Tail(q) \in Seq(T) /\ Holds(q, Head(q))
         /\ \A r : Holds(Tail(q), r) => Holds(q, r)
         /\ \A r : Holds(q, r) => Holds(Tail(q), r) \/ r = Head(q)
<1> DEFINE n == Len(q)
<1>1. Tail(q) \in Seq(T) /\ Len(Tail(q)) = n - 1 /\ n \in Nat /\ n # 0 /\ Head(q) = q[1]
  OBVIOUS
<1>2. DOMAIN q = 1 .. n /\ DOMAIN Tail(q) = 1 .. n - 1
  BY <1>1
<1>3. \A i \in 1 .. n - 1 : Tail(q)[i] = q[i + 1]
  OBVIOUS
<1> HIDE DEF n
<1>4. Holds(q, Head(q))
  <2>1. 1 \in 1 .. n
    BY <1>1
  <2> QED BY <1>1, <1>2, <2>1 DEF Holds
<1>5. ASSUME NEW r, Holds(Tail(q), r) PROVE Holds(q, r)
  <2>1. PICK i \in 1 .. n - 1 : Tail(q)[i] = r
    BY <1>2, <1>5 DEF Holds
  <2>2. i + 1 \in 1 .. n /\ q[i + 1] = r
    BY <1>1, <1>3, <2>1
  <2> QED BY <1>2, <2>2 DEF Holds
<1>6. ASSUME NEW r, Holds(q, r) PROVE Holds(Tail(q), r) \/ r = Head(q)
  <2>1. PICK i \in 1 .. n : q[i] = r
    BY <1>2, <1>6 DEF Holds
  <2>2. CASE i = 1
    BY <1>1, <2>1, <2>2
  <2>3. CASE i # 1
    <3>1. i - 1 \in 1 .. n - 1 /\ Tail(q)[i - 1] = q[(i - 1) + 1] /\ (i - 1) + 1 = i
      BY <1>1, <1>3, <2>3
    <3> QED BY <1>2, <2>1, <3>1 DEF Holds
  <2> QED BY <2>2, <2>3
<1> QED BY <1>1, <1>4, <1>5, <1>6

(* removeCallbacks takes every instance of what it is asked to remove, and nothing
   else. *)
LEMMA WithoutHolds ==
  ASSUME NEW T, NEW q \in Seq(T), NEW removed
  PROVE  /\ Without(q, removed) \in Seq(T)
         /\ \A r : Holds(Without(q, removed), r) <=> Holds(q, r) /\ r \notin removed
<1> DEFINE n == Len(q)
           Step(before, i) == IF i = 0 THEN <<>>
                              ELSE IF q[i] \in removed THEN before ELSE Append(before, q[i])
           F(g, m) == g = [i \in 0 .. m |->
                             IF i = 0 THEN <<>>
                             ELSE IF q[i] \in removed THEN g[i - 1] ELSE Append(g[i - 1], q[i])]
           Right(s, m) == /\ s \in Seq(T)
                          /\ \A r : Holds(s, r) <=>
                               r \notin removed /\ \E i \in 1 .. m : q[i] = r
           S == {m \in 0 .. n : \E g : F(g, m)}
<1>0. n \in Nat /\ DOMAIN q = 1 .. n /\ \A i \in 1 .. n : q[i] \in T
  OBVIOUS
<1> HIDE DEF n
<1>1. 0 \in S
  <2> DEFINE g == [i \in 0 .. 0 |-> <<>>]
  <2>1. \A i \in 0 .. 0 : <<>> = IF i = 0 THEN <<>>
                                 ELSE IF q[i] \in removed THEN g[i - 1] ELSE Append(g[i - 1], q[i])
    OBVIOUS
  <2>2. F(g, 0)
    BY <2>1
  <2> HIDE DEF F, g
  <2> QED BY <1>0, <2>2
<1>2. ASSUME NEW m \in 0 .. n - 1, m \in S PROVE m + 1 \in S
  <2>1. PICK g : F(g, m)
    BY <1>2
  <2> DEFINE longer == Step(g[m], m + 1)
             more == [i \in 0 .. m + 1 |-> IF i = m + 1 THEN longer ELSE g[i]]
  <2>2. ASSUME NEW i \in 0 .. m + 1 PROVE more[i] = Step(more[i - 1], i)
    <3>1. CASE i = m + 1
      <4>1. more[i] = longer /\ more[i - 1] = g[m]
        BY <3>1
      <4> HIDE DEF more
      <4> QED BY <3>1, <4>1
    <3>2. CASE i # m + 1
      <4>1. i \in 0 .. m /\ more[i] = g[i]
        BY <3>2
      <4>2. i # 0 => more[i - 1] = g[i - 1]
        BY <3>2
      <4>3. g[i] = Step(g[i - 1], i)
        BY <2>1, <4>1
      <4> HIDE DEF more
      <4> QED BY <4>1, <4>2, <4>3
    <3> QED BY <3>1, <3>2
  <2>3. F(more, m + 1)
    <3>1. more = [i \in 0 .. m + 1 |-> more[i]]
      OBVIOUS
    <3> HIDE DEF more
    <3> QED BY <2>2, <3>1
  <2> HIDE DEF F, more
  <2>4. m + 1 \in 0 .. n
    BY <1>0
  <2> QED BY <2>3, <2>4
<1>3. n \in S
  <2> HIDE DEF S
  <2> QED BY <1>0, <1>1, <1>2, Climbs
<1> DEFINE kept == CHOOSE g : F(g, n)
<1>4. F(kept, n)
  <2> HIDE DEF F
  <2> QED BY <1>3
<1>5. Without(q, removed) = kept[n]
  BY Zenon DEF Without, n
<1> HIDE DEF kept
<1>6. \A i \in 0 .. n : kept[i] = Step(kept[i - 1], i)
  BY <1>4
<1> DEFINE R == {m \in 0 .. n : Right(kept[m], m)}
<1>7. 0 \in R
  <2>1. kept[0] = <<>>
    BY <1>0, <1>6
  <2>2. <<>> \in Seq(T) /\ \A r : ~Holds(<<>>, r)
    BY DEF Holds
  <2>3. Right(kept[0], 0)
    BY <2>1, <2>2
  <2> HIDE DEF Right
  <2> QED BY <1>0, <2>3
<1>8. ASSUME NEW m \in 0 .. n - 1, m \in R PROVE m + 1 \in R
  <2>1. m \in Nat /\ m + 1 \in 0 .. n /\ m + 1 \in 1 .. n /\ (m + 1) - 1 = m /\ m + 1 # 0
    BY <1>0
  <2>2. kept[m + 1] = IF q[m + 1] \in removed THEN kept[m] ELSE Append(kept[m], q[m + 1])
    BY <1>6, <2>1
  <2>3. Right(kept[m], m)
    BY <1>8
  <2>4. \A r : (\E i \in 1 .. m + 1 : q[i] = r) <=> (\E i \in 1 .. m : q[i] = r) \/ q[m + 1] = r
    <3>1. \A i \in 1 .. m + 1 : i \in 1 .. m \/ i = m + 1
      BY <2>1
    <3>2. \A i \in 1 .. m : i \in 1 .. m + 1
      BY <2>1
    <3>3. m + 1 \in 1 .. m + 1
      BY <2>1
    <3> QED BY <3>1, <3>2, <3>3
  <2>5. CASE q[m + 1] \in removed
    BY <2>1, <2>2, <2>3, <2>4, <2>5
  <2>6. CASE q[m + 1] \notin removed
    <3>1. kept[m] \in Seq(T) /\ q[m + 1] \in T
      BY <1>0, <2>1, <2>3
    <3>2. /\ Append(kept[m], q[m + 1]) \in Seq(T)
          /\ \A r : Holds(Append(kept[m], q[m + 1]), r) <=> Holds(kept[m], r) \/ r = q[m + 1]
      BY <3>1, AppendHolds
    <3>3. Right(kept[m + 1], m + 1)
      BY <2>2, <2>3, <2>4, <2>6, <3>2
    <3> HIDE DEF Right
    <3> QED BY <2>1, <3>3
  <2> QED BY <2>5, <2>6
<1>9. n \in R
  <2> HIDE DEF R
  <2> QED BY <1>0, <1>7, <1>8, Climbs
<1>10. Right(kept[n], n)
  BY <1>9
<1> QED BY <1>0, <1>5, <1>10 DEF Holds

(* What is posted comes to what was there. *)
LEMMA PostedHolds ==
  ASSUME NEW q \in Seq(Runnables), NEW posted \in Seq(Runnables), Posted(q, posted)
  PROVE  /\ queue' \in Seq(Runnables)
         /\ \A r : Holds(queue', r) <=> Holds(q, r) \/ Holds(posted, r)
BY TogetherHold DEF Posted

LEMMA NothingHolds ==
  <<>> \in Seq(Runnables) /\ \A r : ~Holds(<<>>, r)
BY DEF Holds

LEMMA OneHolds ==
  ASSUME NEW a \in Runnables
  PROVE  <<a>> \in Seq(Runnables) /\ \A r : Holds(<<a>>, r) <=> r = a
BY DEF Holds

LEMMA TwoHold ==
  ASSUME NEW a \in Runnables, NEW b \in Runnables
  PROVE  <<a, b>> \in Seq(Runnables) /\ \A r : Holds(<<a, b>>, r) <=> r = a \/ r = b
<1>1. <<a, b>> \in Seq(Runnables) /\ DOMAIN <<a, b>> = 1 .. 2
  OBVIOUS
<1>2. <<a, b>>[1] = a /\ <<a, b>>[2] = b
  OBVIOUS
<1>3. \A i \in 1 .. 2 : i = 1 \/ i = 2
  OBVIOUS
<1>4. 1 \in 1 .. 2 /\ 2 \in 1 .. 2
  OBVIOUS
<1> QED BY <1>1, <1>2, <1>3, <1>4, Zenon DEF Holds

(* A runnable runs when it is the first that is due, and no longer is so when it
   runs. *)
LEMMA Dispatched ==
  ASSUME TypeOK, NEW r, Running(r)
  PROVE  /\ r \in Runnables /\ alive /\ writing = {}
         /\ Tail(queue) \in Seq(Runnables) /\ Holds(queue, r)
         /\ \A x : Holds(Tail(queue), x) => Holds(queue, x)
         /\ \A x : Holds(queue, x) /\ x # r => Holds(Tail(queue), x)
<1>1. queue \in Seq(Runnables) /\ queue # <<>> /\ Head(queue) = r /\ alive /\ writing = {}
  BY DEF Running, Ready, TypeOK
<1>2. r \in Runnables
  BY <1>1
<1> QED BY <1>1, <1>2, TailHolds

LEMMA DeferredType ==
  ASSUME TypeOK, NEW removed
  PROVE  /\ Deferred(removed) \in [Runnables -> Nat]
         /\ \A r \in Runnables : Deferred(removed)[r] = IF r \in removed THEN 0 ELSE later[r]
BY DEF TypeOK, Deferred

----------------------------------------------------------------------------
(* The invariants, said with Holds. *)

Asked(r) == later[r] > 0 \/ Holds(queue, r)

Still == alive /\ resumed /\ mPlayState = "PAUSE" => ~Asked("test") /\ writing = {}

Follows ==
  alive /\ resumed /\ panel /\ mPlayState = "PLAY" =>
    Asked("skb") \/ Holds(queue, "show") \/ Holds(queue, "hide")

Tells ==
  alive /\ resumed =>
    (button = mPlayState) \/ Holds(queue, "showSmall") \/ Holds(queue, "hideSmall")

IInv == TypeOK /\ Still /\ Follows /\ Tells

LEMMA InitIInv == Init => IInv
<1> SUFFICES ASSUME Init
             PROVE  IInv
  OBVIOUS
<1>1. TypeOK
  BY NothingHolds DEF Init, TypeOK
<1>2. Still /\ Follows /\ Tells
  BY DEF Init, Still, Follows, Tells
<1> QED BY <1>1, <1>2 DEF IInv

(* A delayed runnable changes its place only. *)
LEMMA FallDueKeeps ==
  ASSUME IInv, NEW r \in Runnables, FallDue(r)
  PROVE  IInv'
<1>1. queue' \in Seq(Runnables) /\ \A x : Holds(queue', x) <=> Holds(queue, x) \/ x = r
  BY PostedHolds, OneHolds DEF FallDue, IInv, TypeOK
<1>2. /\ later \in [Runnables -> Nat] /\ later[r] > 0
      /\ later' = [later EXCEPT ![r] = later[r] - 1]
  BY DEF FallDue, IInv, TypeOK
<1>3. /\ later' \in [Runnables -> Nat]
      /\ \A x \in Runnables : later'[x] > 0 => later[x] > 0
      /\ \A x \in Runnables : later[x] > 0 => later'[x] > 0 \/ x = r
  BY <1>2
<1>4. \A x \in Runnables : Asked(x)' <=> Asked(x)
  BY <1>1, <1>2, <1>3 DEF Asked
<1>5. "test" \in Runnables /\ "skb" \in Runnables
  BY DEF Runnables
<1>6. UNCHANGED <<mPlayState, panel, small, button, dragging, resumed, loaded, writing, alive>>
  BY DEF FallDue, ui, decoder
<1> HIDE DEF Asked
<1>7. TypeOK'
  BY <1>1, <1>3, <1>6 DEF IInv, TypeOK
<1>8. Still' /\ Follows' /\ Tells'
  BY <1>1, <1>4, <1>5, <1>6 DEF IInv, Still, Follows, Tells
<1> QED BY <1>7, <1>8 DEF IInv

(* A frame is asked for while one is due, so not of a player that stands still. *)
LEMMA FrameKeeps ==
  ASSUME IInv, Frame
  PROVE  IInv'
<1>0. TypeOK /\ Running("test")
  BY DEF Frame, IInv
<1>1. /\ Tail(queue) \in Seq(Runnables) /\ Holds(queue, "test") /\ alive
      /\ \A x : Holds(queue, x) /\ x # "test" => Holds(Tail(queue), x)
  BY <1>0, Dispatched
<1>2. UNCHANGED <<mPlayState, panel, small, button, dragging, resumed>>
  BY DEF Frame, ui
<1>3. ~(resumed /\ mPlayState = "PAUSE")
  BY <1>1 DEF IInv, Still, Asked
<1>4. "test" \in Runnables /\ "skb" \in Runnables
  BY DEF Runnables
<1>5. CASE /\ loaded /\ writing' = Planes /\ Posted(Tail(queue), <<>>)
           /\ later' = [later EXCEPT !["test"] = @ + 1] /\ UNCHANGED <<loaded, alive>>
  <2>1. queue' \in Seq(Runnables) /\ \A x : Holds(queue', x) <=> Holds(Tail(queue), x)
    BY <1>1, <1>5, PostedHolds, NothingHolds
  <2>2. later' \in [Runnables -> Nat] /\ later'["skb"] = later["skb"]
    BY <1>0, <1>4, <1>5 DEF TypeOK
  <2>3. TypeOK'
    BY <1>0, <1>2, <1>5, <2>1, <2>2 DEF TypeOK
  <2>4. Still'
    BY <1>2, <1>3 DEF Still
  <2>5. Follows' /\ Tells'
    BY <1>1, <1>2, <1>5, <2>1, <2>2 DEF IInv, Follows, Tells, Asked
  <2> QED BY <2>3, <2>4, <2>5 DEF IInv
<1>6. CASE /\ Posted(Without(Tail(queue), {"test"}), <<>>) /\ later' = Deferred({"test"})
           /\ UNCHANGED <<loaded, writing, alive>>
  <2>1. /\ Without(Tail(queue), {"test"}) \in Seq(Runnables)
        /\ \A x : Holds(Without(Tail(queue), {"test"}), x) <=> Holds(Tail(queue), x) /\ x # "test"
    BY <1>1, WithoutHolds
  <2>2. /\ queue' \in Seq(Runnables)
        /\ \A x : Holds(queue', x) <=> Holds(Tail(queue), x) /\ x # "test"
    BY <1>6, <2>1, PostedHolds, NothingHolds
  <2>3. later' \in [Runnables -> Nat] /\ later'["skb"] = later["skb"]
    BY <1>0, <1>4, <1>6, DeferredType
  <2>4. TypeOK'
    BY <1>0, <1>2, <1>6, <2>2, <2>3 DEF TypeOK
  <2>5. Still'
    BY <1>2, <1>3 DEF Still
  <2>6. Follows' /\ Tells'
    BY <1>1, <1>2, <1>6, <2>2, <2>3 DEF IInv, Follows, Tells, Asked
  <2> QED BY <2>4, <2>5, <2>6 DEF IInv
<1>7. CASE alive' = FALSE /\ UNCHANGED <<queue, later, decoder>>
  BY <1>0, <1>2, <1>7 DEF IInv, TypeOK, Still, Follows, Tells, decoder
<1> QED BY <1>5, <1>6, <1>7 DEF Frame

(* A plane is written while a frame is being decoded. *)
LEMMA WriteKeeps ==
  ASSUME IInv, NEW plane \in Planes, Write(plane)
  PROVE  IInv'
<1>1. /\ UNCHANGED <<queue, later, mPlayState, panel, small, button, dragging, resumed, loaded, alive>>
      /\ writing' = writing \ {plane} /\ plane \in writing
  BY DEF Write, ui
<1> QED BY <1>1 DEF IInv, TypeOK, Still, Follows, Tells, Asked

LEMMA UpdataSkbKeeps ==
  ASSUME IInv, UpdataSkb
  PROVE  IInv'
<1>0. TypeOK /\ Running("skb")
  BY DEF UpdataSkb, IInv
<1>1. /\ Tail(queue) \in Seq(Runnables)
      /\ \A x : Holds(Tail(queue), x) => Holds(queue, x)
      /\ \A x : Holds(queue, x) /\ x # "skb" => Holds(Tail(queue), x)
  BY <1>0, Dispatched
<1>2. queue' \in Seq(Runnables) /\ \A x : Holds(queue', x) <=> Holds(Tail(queue), x)
  BY <1>1, PostedHolds, NothingHolds DEF UpdataSkb
<1>3. UNCHANGED <<mPlayState, panel, small, button, dragging, resumed, loaded, writing, alive>>
  BY DEF UpdataSkb, ui, decoder
<1>4. "test" \in Runnables /\ "skb" \in Runnables
  BY DEF Runnables
<1>5. /\ later' \in [Runnables -> Nat] /\ later'["test"] = later["test"]
      /\ panel /\ mPlayState = "PLAY" => later'["skb"] > 0
  BY <1>0, <1>4 DEF UpdataSkb, TypeOK
<1>6. TypeOK'
  BY <1>0, <1>2, <1>3, <1>5 DEF TypeOK
<1>7. Still' /\ Follows' /\ Tells'
  BY <1>1, <1>2, <1>3, <1>5 DEF IInv, Still, Follows, Tells, Asked
<1> QED BY <1>6, <1>7 DEF IInv

(* Nobody updates the seek bar of a panel that is hidden. *)
LEMMA HidePannelKeeps ==
  ASSUME IInv, HidePannel
  PROVE  IInv'
<1>0. TypeOK /\ Running("hide")
  BY DEF HidePannel, IInv
<1>1. /\ Tail(queue) \in Seq(Runnables)
      /\ \A x : Holds(Tail(queue), x) => Holds(queue, x)
      /\ \A x : Holds(queue, x) /\ x # "hide" => Holds(Tail(queue), x)
  BY <1>0, Dispatched
<1>2. /\ Without(Tail(queue), {"skb"}) \in Seq(Runnables)
      /\ \A x : Holds(Without(Tail(queue), {"skb"}), x) <=> Holds(Tail(queue), x) /\ x # "skb"
  BY <1>1, WithoutHolds
<1>3. /\ queue' \in Seq(Runnables)
      /\ \A x : Holds(queue', x) <=> Holds(Tail(queue), x) /\ x # "skb"
  BY <1>2, PostedHolds, NothingHolds DEF HidePannel
<1>4. /\ UNCHANGED <<mPlayState, small, button, dragging, resumed, loaded, writing, alive>>
      /\ panel' = FALSE /\ later' = Deferred({"skb"})
  BY DEF HidePannel, decoder
<1>5. later' \in [Runnables -> Nat] /\ later'["test"] = later["test"]
  BY <1>0, <1>4, DeferredType DEF Runnables
<1>6. TypeOK'
  BY <1>0, <1>3, <1>4, <1>5 DEF TypeOK
<1>7. Still' /\ Follows' /\ Tells'
  BY <1>1, <1>3, <1>4, <1>5 DEF IInv, Still, Follows, Tells, Asked
<1> QED BY <1>6, <1>7 DEF IInv

LEMMA ShowPannelKeeps ==
  ASSUME IInv, ShowPannel
  PROVE  IInv'
<1>0. TypeOK /\ Running("show")
  BY DEF ShowPannel, IInv
<1>1. /\ Tail(queue) \in Seq(Runnables)
      /\ \A x : Holds(Tail(queue), x) => Holds(queue, x)
      /\ \A x : Holds(queue, x) /\ x # "show" => Holds(Tail(queue), x)
  BY <1>0, Dispatched
<1>2. queue' \in Seq(Runnables) /\ \A x : Holds(queue', x) <=> Holds(Tail(queue), x) \/ x = "skb"
  BY <1>1, PostedHolds, OneHolds DEF ShowPannel, updateAll, Runnables
<1>3. /\ UNCHANGED <<later, mPlayState, small, button, dragging, resumed, loaded, writing, alive>>
      /\ panel' = TRUE
  BY DEF ShowPannel, decoder
<1>4. TypeOK'
  BY <1>0, <1>2, <1>3 DEF TypeOK
<1>5. Still' /\ Follows' /\ Tells'
  BY <1>1, <1>2, <1>3 DEF IInv, Still, Follows, Tells, Asked
<1> QED BY <1>4, <1>5 DEF IInv

(* Either runnable of the small panel shows the state in its button. *)
LEMMA SmallPannelKeeps ==
  ASSUME IInv, NEW r \in Runnables, SmallPannel(r)
  PROVE  IInv'
<1>0. TypeOK /\ Running(r) /\ r \in {"hideSmall", "showSmall"}
  BY DEF SmallPannel, IInv
<1>1. /\ Tail(queue) \in Seq(Runnables)
      /\ \A x : Holds(Tail(queue), x) => Holds(queue, x)
      /\ \A x : Holds(queue, x) /\ x # r => Holds(Tail(queue), x)
  BY <1>0, Dispatched
<1>2. queue' \in Seq(Runnables) /\ \A x : Holds(queue', x) <=> Holds(Tail(queue), x)
  BY <1>1, PostedHolds, NothingHolds DEF SmallPannel
<1>3. /\ UNCHANGED <<later, mPlayState, panel, dragging, resumed, loaded, writing, alive>>
      /\ small' \in BOOLEAN /\ button' = mPlayState
  BY DEF SmallPannel, decoder
<1>4. TypeOK'
  BY <1>0, <1>2, <1>3 DEF TypeOK
<1>5. Still' /\ Tells'
  BY <1>1, <1>2, <1>3 DEF IInv, Still, Tells, Asked
<1>6. Follows'
  BY <1>0, <1>1, <1>2, <1>3 DEF IInv, Follows, Asked
<1> QED BY <1>4, <1>5, <1>6 DEF IInv

(* What GLSurfaceView's thread and native_seekTo change is not what the invariants are
   about. *)
LEMMA OthersKeep ==
  ASSUME IInv, onDrawFrame \/ CopyPlane \/ seekTo
  PROVE  IInv'
<1>1. UNCHANGED <<queue, later, mPlayState, panel, small, button, dragging, resumed, loaded, writing>>
  BY DEF onDrawFrame, CopyPlane, seekTo, ui, decoder
<1>2. alive /\ alive' \in BOOLEAN
  BY DEF onDrawFrame, CopyPlane, seekTo, Input, Ready, IInv, TypeOK
<1>3. TypeOK'
  BY <1>1, <1>2 DEF IInv, TypeOK
<1>4. CASE alive' = alive
  BY <1>1, <1>3, <1>4 DEF IInv, Still, Follows, Tells, Asked
<1>5. CASE ~alive'
  BY <1>3, <1>5 DEF IInv, Still, Follows, Tells
<1> QED BY <1>2, <1>4, <1>5

----------------------------------------------------------------------------
(* The user. *)

LEMMA ReadyFacts ==
  ASSUME IInv, Input
  PROVE  /\ TypeOK /\ alive /\ writing = {}
         /\ queue \in Seq(Runnables) /\ later \in [Runnables -> Nat]
BY DEF IInv, TypeOK, Input, Ready

LEMMA HideIfVisibleHolds ==
  /\ HideIfVisible \in Seq(Runnables)
  /\ \A r : Holds(HideIfVisible, r) <=> panel /\ r = "hide"
BY OneHolds, NothingHolds DEF HideIfVisible, Runnables

(* Start asks for a frame, and posts what it is given. *)
LEMMA StartHolds ==
  ASSUME IInv, Input, NEW posted \in Seq(Runnables), Start(posted)
  PROVE  /\ queue' \in Seq(Runnables) /\ mPlayState' = "PLAY"
         /\ \A r : Holds(queue', r) <=> Holds(queue, r) \/ r = "test" \/ Holds(posted, r)
<1>1. /\ <<"test">> \o posted \in Seq(Runnables)
      /\ \A r : Holds(<<"test">> \o posted, r) <=> r = "test" \/ Holds(posted, r)
  <2>1. <<"test">> \in Seq(Runnables) /\ \A r : Holds(<<"test">>, r) <=> r = "test"
    BY OneHolds DEF Runnables
  <2> QED BY <2>1, TogetherHold
<1>2. Posted(queue, <<"test">> \o posted) /\ mPlayState' = "PLAY"
  BY DEF Start
<1> QED BY <1>1, <1>2, ReadyFacts, PostedHolds

LEMMA onplayKeeps ==
  ASSUME IInv, onplay
  PROVE  IInv'
<1>0. Input
  BY DEF onplay
<1>1. /\ HideIfVisible \o <<"hideSmall">> \in Seq(Runnables)
      /\ \A r : Holds(HideIfVisible \o <<"hideSmall">>, r)
                  <=> (panel /\ r = "hide") \/ r = "hideSmall"
  <2>1. <<"hideSmall">> \in Seq(Runnables) /\ \A r : Holds(<<"hideSmall">>, r) <=> r = "hideSmall"
    BY OneHolds DEF Runnables
  <2> QED BY <2>1, HideIfVisibleHolds, TogetherHold
<1>2. /\ queue' \in Seq(Runnables) /\ mPlayState' = "PLAY"
      /\ Holds(queue', "hideSmall") /\ (panel => Holds(queue', "hide"))
  BY <1>0, <1>1, StartHolds DEF onplay
<1>3. UNCHANGED <<later, panel, small, button, dragging, resumed, loaded, writing, alive>>
  BY DEF onplay, decoder
<1>4. TypeOK'
  BY <1>0, <1>2, <1>3, ReadyFacts DEF TypeOK
<1>5. Still' /\ Follows' /\ Tells'
  BY <1>2, <1>3 DEF Still, Follows, Tells
<1> QED BY <1>4, <1>5 DEF IInv

(* Every test is taken back. *)
LEMMA onPauseButtonKeeps ==
  ASSUME IInv, onPauseButton
  PROVE  IInv'
<1>0. Input
  BY DEF onPauseButton
<1> DEFINE removed == {"test", "skb"}
<1>1. /\ Without(queue, removed) \in Seq(Runnables)
      /\ \A r : Holds(Without(queue, removed), r) <=> Holds(queue, r) /\ r \notin removed
  BY <1>0, ReadyFacts, WithoutHolds
<1>2. /\ <<"show", "showSmall">> \in Seq(Runnables)
      /\ \A r : Holds(<<"show", "showSmall">>, r) <=> r = "show" \/ r = "showSmall"
  BY TwoHold DEF Runnables
<1>3. /\ queue' \in Seq(Runnables)
      /\ ~Holds(queue', "test") /\ Holds(queue', "showSmall")
  <2>1. Posted(Without(queue, removed), <<"show", "showSmall">>)
    BY DEF onPauseButton
  <2> QED BY <1>1, <1>2, <2>1, PostedHolds
<1>4. /\ UNCHANGED <<panel, small, button, dragging, resumed, loaded, writing, alive>>
      /\ mPlayState' = "PAUSE" /\ later' = Deferred(removed)
  BY DEF onPauseButton, decoder
<1>5. later' \in [Runnables -> Nat] /\ later'["test"] = 0
  BY <1>0, <1>4, ReadyFacts, DeferredType DEF Runnables
<1>6. TypeOK'
  BY <1>0, <1>3, <1>4, <1>5, ReadyFacts DEF TypeOK
<1>7. Still' /\ Follows' /\ Tells'
  BY <1>0, <1>3, <1>4, <1>5, ReadyFacts DEF Still, Follows, Tells, Asked
<1> QED BY <1>6, <1>7 DEF IInv

LEMMA singleTapKeeps ==
  ASSUME IInv, singleTap
  PROVE  IInv'
<1>0. Input
  BY DEF singleTap
<1> DEFINE last == IF mPlayState = "PLAY" THEN "hideSmall" ELSE "showSmall"
           posted == IF ~panel THEN <<"show", "showSmall">> ELSE <<"hide", last>>
<1>1. /\ posted \in Seq(Runnables) /\ ~Holds(posted, "test")
      /\ panel => Holds(posted, "hide")
  <2>1. last \in Runnables /\ last # "test"
    BY DEF Runnables
  <2> HIDE DEF last
  <2>2. /\ <<"show", "showSmall">> \in Seq(Runnables)
        /\ ~Holds(<<"show", "showSmall">>, "test")
    BY TwoHold DEF Runnables
  <2>3. /\ <<"hide", last>> \in Seq(Runnables)
        /\ ~Holds(<<"hide", last>>, "test") /\ Holds(<<"hide", last>>, "hide")
    BY <2>1, TwoHold DEF Runnables
  <2> QED BY <2>2, <2>3
<1>2. Posted(queue, posted)
  BY DEF singleTap
<1> HIDE DEF posted
<1>3. /\ queue' \in Seq(Runnables)
      /\ \A r : Holds(queue', r) <=> Holds(queue, r) \/ Holds(posted, r)
  BY <1>0, <1>1, <1>2, ReadyFacts, PostedHolds
<1>4. UNCHANGED <<later, mPlayState, panel, small, button, dragging, resumed, loaded, writing, alive>>
  BY DEF singleTap, ui, decoder
<1>5. TypeOK'
  BY <1>0, <1>3, <1>4, ReadyFacts DEF TypeOK
<1>6. Still' /\ Follows' /\ Tells'
  BY <1>1, <1>3, <1>4 DEF IInv, Still, Follows, Tells, Asked
<1> QED BY <1>5, <1>6 DEF IInv

LEMMA doubleTapKeeps ==
  ASSUME IInv, doubleTap
  PROVE  IInv'
<1>0. Input
  BY DEF doubleTap
<1>1. UNCHANGED <<panel, small, button, dragging, resumed, loaded, writing, alive>>
  BY DEF doubleTap, decoder
<1>2. CASE mPlayState = "PLAY"
  <2>1. /\ Without(queue, {"test"}) \in Seq(Runnables)
        /\ \A r : Holds(Without(queue, {"test"}), r) <=> Holds(queue, r) /\ r # "test"
    BY <1>0, ReadyFacts, WithoutHolds
  <2>2. <<"showSmall">> \in Seq(Runnables) /\ \A r : Holds(<<"showSmall">>, r) <=> r = "showSmall"
    BY OneHolds DEF Runnables
  <2>3. /\ Posted(Without(queue, {"test"}), <<"showSmall">>)
        /\ mPlayState' = "PAUSE" /\ later' = Deferred({"test"})
    BY <1>2 DEF doubleTap
  <2>4. queue' \in Seq(Runnables) /\ ~Holds(queue', "test") /\ Holds(queue', "showSmall")
    BY <2>1, <2>2, <2>3, PostedHolds
  <2>5. later' \in [Runnables -> Nat] /\ later'["test"] = 0
    BY <1>0, <2>3, ReadyFacts, DeferredType DEF Runnables
  <2>6. TypeOK'
    BY <1>0, <1>1, <2>3, <2>4, <2>5, ReadyFacts DEF TypeOK
  <2>7. Still' /\ Follows' /\ Tells'
    BY <1>0, <1>1, <2>3, <2>4, <2>5, ReadyFacts DEF Still, Follows, Tells, Asked
  <2> QED BY <2>6, <2>7 DEF IInv
<1>3. CASE mPlayState # "PLAY"
  <2>1. /\ <<"hideSmall">> \o HideIfVisible \in Seq(Runnables)
        /\ \A r : Holds(<<"hideSmall">> \o HideIfVisible, r)
                    <=> r = "hideSmall" \/ (panel /\ r = "hide")
    <3>1. <<"hideSmall">> \in Seq(Runnables) /\ \A r : Holds(<<"hideSmall">>, r) <=> r = "hideSmall"
      BY OneHolds DEF Runnables
    <3> QED BY <3>1, HideIfVisibleHolds, TogetherHold
  <2>2. Start(<<"hideSmall">> \o HideIfVisible) /\ UNCHANGED later
    BY <1>3 DEF doubleTap
  <2>3. /\ queue' \in Seq(Runnables) /\ mPlayState' = "PLAY"
        /\ Holds(queue', "hideSmall") /\ (panel => Holds(queue', "hide"))
    BY <1>0, <2>1, <2>2, StartHolds
  <2>4. TypeOK'
    BY <1>0, <1>1, <2>2, <2>3, ReadyFacts DEF TypeOK
  <2>5. Still' /\ Follows' /\ Tells'
    BY <1>1, <2>3 DEF Still, Follows, Tells
  <2> QED BY <2>4, <2>5 DEF IInv
<1> QED BY <1>2, <1>3

LEMMA startTrackingKeeps ==
  ASSUME IInv, startTracking
  PROVE  IInv'
<1>0. Input
  BY DEF startTracking
<1> DEFINE removed == {"test", "hideSmall", "hide"}
<1>1. /\ Without(queue, removed) \in Seq(Runnables)
      /\ \A r : Holds(Without(queue, removed), r) <=> Holds(queue, r) /\ r \notin removed
  BY <1>0, ReadyFacts, WithoutHolds
<1>2. <<"hideSmall">> \in Seq(Runnables) /\ \A r : Holds(<<"hideSmall">>, r) <=> r = "hideSmall"
  BY OneHolds DEF Runnables
<1>3. queue' \in Seq(Runnables) /\ ~Holds(queue', "test") /\ Holds(queue', "hideSmall")
  <2>1. Posted(Without(queue, removed), <<"hideSmall">>)
    BY DEF startTracking
  <2> QED BY <1>1, <1>2, <2>1, PostedHolds
<1>4. /\ UNCHANGED <<panel, small, button, resumed, loaded, writing, alive>>
      /\ dragging' = TRUE /\ mPlayState' = "PAUSE" /\ later' = Deferred(removed)
  BY DEF startTracking, decoder
<1>5. later' \in [Runnables -> Nat] /\ later'["test"] = 0
  BY <1>0, <1>4, ReadyFacts, DeferredType DEF Runnables
<1>6. TypeOK'
  BY <1>0, <1>3, <1>4, <1>5, ReadyFacts DEF TypeOK
<1>7. Still' /\ Follows' /\ Tells'
  BY <1>0, <1>3, <1>4, <1>5, ReadyFacts DEF Still, Follows, Tells, Asked
<1> QED BY <1>6, <1>7 DEF IInv

LEMMA stopTrackingKeeps ==
  ASSUME IInv, stopTracking
  PROVE  IInv'
<1>0. Input
  BY DEF stopTracking
<1>1. /\ AfterDrag \in Seq(Runnables)
      /\ \A r : Holds(AfterDrag, r) <=> r = "showSmall" \/ r = "skb"
  <2>1. <<"showSmall">> \in Seq(Runnables) /\ \A r : Holds(<<"showSmall">>, r) <=> r = "showSmall"
    BY OneHolds DEF Runnables
  <2>2. updateAll \in Seq(Runnables) /\ \A r : Holds(updateAll, r) <=> r = "skb"
    BY OneHolds DEF updateAll, Runnables
  <2> QED BY <2>1, <2>2, TogetherHold DEF AfterDrag
<1>2. /\ queue' \in Seq(Runnables) /\ mPlayState' = "PLAY"
      /\ Holds(queue', "showSmall") /\ Holds(queue', "skb")
  BY <1>0, <1>1, StartHolds DEF stopTracking
<1>3. /\ UNCHANGED <<panel, small, button, resumed, loaded, writing, alive>>
      /\ dragging' = FALSE
  BY DEF stopTracking, decoder
<1>4. later' \in [Runnables -> Nat]
  <2>1. /\ later \in [Runnables -> Nat] /\ "hide" \in Runnables /\ "hideSmall" \in Runnables
        /\ "hide" # "hideSmall"
    BY <1>0, ReadyFacts DEF Runnables
  <2>2. later' = [later EXCEPT !["hide"] = @ + 1, !["hideSmall"] = @ + 1]
    BY DEF stopTracking
  <2>3. [later EXCEPT !["hide"] = @ + 1] \in [Runnables -> Nat]
    BY <2>1
  <2> QED BY <2>1, <2>2, <2>3
<1>5. TypeOK'
  BY <1>0, <1>2, <1>3, <1>4, ReadyFacts DEF TypeOK
<1>6. Still' /\ Follows' /\ Tells'
  BY <1>2, <1>3 DEF Still, Follows, Tells, Asked
<1> QED BY <1>5, <1>6 DEF IInv

----------------------------------------------------------------------------
(* The host. *)

LEMMA playUrlKeeps ==
  ASSUME IInv, playUrl
  PROVE  IInv'
<1>0. Input
  BY DEF playUrl
<1>1. <<"test", "hide">> \in Seq(Runnables)
  BY TwoHold DEF Runnables
<1>2. queue' \in Seq(Runnables)
  BY <1>0, <1>1, ReadyFacts, PostedHolds DEF playUrl
<1>3. /\ UNCHANGED <<later, mPlayState, panel, small, button, dragging, resumed, writing>>
      /\ loaded' \in BOOLEAN /\ alive' \in BOOLEAN /\ ~resumed
  BY <1>0, ReadyFacts DEF playUrl, ui, TypeOK
<1>4. TypeOK'
  BY <1>0, <1>2, <1>3, ReadyFacts DEF TypeOK
<1>5. Still' /\ Follows' /\ Tells'
  BY <1>3 DEF Still, Follows, Tells
<1> QED BY <1>4, <1>5 DEF IInv

LEMMA onResumeKeeps ==
  ASSUME IInv, onResume
  PROVE  IInv'
<1>0. Input
  BY DEF onResume
<1>1. /\ Resumed \in Seq(Runnables)
      /\ \A r : Holds(Resumed, r) <=> r = "skb" \/ r = "showSmall"
  <2>1. <<"showSmall">> \in Seq(Runnables) /\ \A r : Holds(<<"showSmall">>, r) <=> r = "showSmall"
    BY OneHolds DEF Runnables
  <2>2. updateAll \in Seq(Runnables) /\ \A r : Holds(updateAll, r) <=> r = "skb"
    BY OneHolds DEF updateAll, Runnables
  <2> QED BY <2>1, <2>2, TogetherHold DEF Resumed
<1>2. queue' \in Seq(Runnables) /\ Holds(queue', "skb") /\ Holds(queue', "showSmall")
  BY <1>0, <1>1, ReadyFacts, PostedHolds DEF onResume
<1>3. /\ UNCHANGED <<later, panel, small, button, dragging, loaded, writing, alive>>
      /\ resumed' = TRUE /\ mPlayState' = "PLAY"
  BY DEF onResume, decoder
<1>4. TypeOK'
  BY <1>0, <1>2, <1>3, ReadyFacts DEF TypeOK
<1>5. Still' /\ Follows' /\ Tells'
  BY <1>2, <1>3 DEF Still, Follows, Tells, Asked
<1> QED BY <1>4, <1>5 DEF IInv

LEMMA onPauseKeeps ==
  ASSUME IInv, onPause
  PROVE  IInv'
<1>0. Input
  BY DEF onPause
<1>1. Without(queue, {"skb"}) \in Seq(Runnables)
  BY <1>0, ReadyFacts, WithoutHolds
<1>2. queue' \in Seq(Runnables)
  BY <1>1, NothingHolds, PostedHolds DEF onPause
<1>3. /\ UNCHANGED <<mPlayState, panel, small, button, dragging, loaded, writing, alive>>
      /\ resumed' = FALSE /\ later' = Deferred({"skb"})
  BY DEF onPause, ui, decoder
<1>4. later' \in [Runnables -> Nat]
  BY <1>0, <1>3, ReadyFacts, DeferredType
<1>5. TypeOK'
  BY <1>0, <1>2, <1>3, <1>4, ReadyFacts DEF TypeOK
<1>6. Still' /\ Follows' /\ Tells'
  BY <1>3 DEF Still, Follows, Tells
<1> QED BY <1>5, <1>6 DEF IInv

----------------------------------------------------------------------------
(* Together. *)

LEMMA NextIInv == IInv /\ [Next]_vars => IInv'
<1> SUFFICES ASSUME IInv, [Next]_vars
             PROVE  IInv'
  OBVIOUS
<1>1. CASE Looper
  BY <1>1, FrameKeeps, UpdataSkbKeeps, HidePannelKeeps, ShowPannelKeeps, SmallPannelKeeps,
     WriteKeeps DEF Looper
<1>2. CASE GLThread
  BY <1>2, OthersKeep DEF GLThread
<1>3. CASE User
  BY <1>3, onplayKeeps, onPauseButtonKeeps, singleTapKeeps, doubleTapKeeps,
     startTrackingKeeps, stopTrackingKeeps, OthersKeep DEF User
<1>4. CASE \E r \in Runnables : FallDue(r)
  BY <1>4, FallDueKeeps
<1>5. CASE playUrl \/ onResume \/ onPause
  BY <1>5, playUrlKeeps, onResumeKeeps, onPauseKeeps
<1>6. CASE UNCHANGED vars
  <2>1. UNCHANGED <<queue, later, mPlayState, panel, small, button, dragging, resumed, loaded, writing, alive>>
    BY <1>6 DEF vars, ui, decoder
  <2> QED BY <2>1 DEF IInv, TypeOK, Still, Follows, Tells, Asked
<1> QED BY <1>1, <1>2, <1>3, <1>4, <1>5, <1>6 DEF Next

LEMMA PlayerInvariant == Spec => []IInv
BY InitIInv, NextIInv, PTL DEF Spec

(* A paused video stands still, however its starts and pauses have overlapped. *)
THEOREM PausedStandsStill == Spec => []PausedIsStill
<1>1. IInv => PausedIsStill
  BY DEF IInv, Still, Asked, Holds, PausedIsStill, Pending
<1> QED BY <1>1, PlayerInvariant, PTL

(* A visible panel of a video that plays is being updated, shown or hidden. *)
THEOREM BarIsUpdated == Spec => []SeekBarFollows
<1>1. IInv => SeekBarFollows
  BY DEF IInv, Follows, Asked, Holds, SeekBarFollows, Pending, Due
<1> QED BY <1>1, PlayerInvariant, PTL

(* The button shows whether the video plays, or is about to. *)
THEOREM ButtonIsRight == Spec => []ButtonTellsState
<1>1. IInv => ButtonTellsState
  BY DEF IInv, Tells, Holds, ButtonTellsState, Due
<1> QED BY <1>1, PlayerInvariant, PTL
============================================================================
