--------------------------- MODULE TimerWheelProofs ---------------------------
(***************************************************************************)
(* Proofs about the timer wheel, for any sizes of the wheels, any interval *)
(* and any number of timers.                                               *)
(***************************************************************************)
EXTENDS MCTimerWheel, TLAPS, FunctionTheorems, FiniteSetTheorems

Pos == Nat \ {0}

(***************************************************************************)
(* Induction over the wheels.  A set of numbers up to n that holds 0 and,  *)
(* with each smaller number, the next one, holds them all: if c were       *)
(* missing, i |-> i - 1 would be an injection of the missing numbers up to *)
(* c into themselves that does not hit c.                                  *)
(***************************************************************************)
LEMMA FiniteInduction ==
  ASSUME NEW n \in Nat, NEW S, 0 \in S,
         \A i \in 0 .. n : i # n /\ i \in S => i + 1 \in S
  PROVE  0 .. n \subseteq S
<1> SUFFICES ASSUME NEW c \in 0 .. n, c \notin S PROVE FALSE
  OBVIOUS
<1> DEFINE U == {i \in 0 .. c : i \notin S}
           f == [i \in U |-> i - 1]
<1>1. ASSUME NEW i \in U PROVE i - 1 \in U
  <2>1. i \in Nat /\ i # 0 /\ i <= c /\ i <= n /\ i \notin S
    OBVIOUS
  <2>2. i - 1 \in 0 .. n /\ i - 1 # n /\ (i - 1) + 1 = i
    BY <2>1
  <2> QED BY <2>1, <2>2
<1>2. f \in Injection(U, U)
  <2>1. f \in [U -> U]
    BY <1>1
  <2>2. ASSUME NEW i \in U, NEW j \in U, f[i] = f[j] PROVE i = j
    <3>1. i \in Int /\ j \in Int /\ i - 1 = j - 1
      BY <2>2
    <3> QED BY <3>1
  <2> QED BY <2>1, <2>2 DEF Injection, IsInjective
<1>3. IsFiniteSet(U)
  <2>1. IsFiniteSet(0 .. c)
    BY FS_Interval
  <2> QED BY <2>1, FS_Subset
<1>4. f \in Surjection(U, U)
  BY <1>2, <1>3, FS_Injection
<1>5. c \in U
  OBVIOUS
<1>6. PICK i \in U : f[i] = c
  BY <1>4, <1>5 DEF Surjection
<1>7. i \in Int /\ i <= c /\ i - 1 = c
  BY <1>6
<1> QED BY <1>7

(***************************************************************************)
(* The spans of the wheels: the recursion of Span is well-founded, each    *)
(* span is a positive number, and none is shorter than the one before.     *)
(***************************************************************************)
span(g, i) == IF i = 0 THEN TVR_SIZE ELSE g[i - 1] * TVN_SIZE

LEMMA SizesPositive ==
  /\ TVR_SIZE \in Pos /\ TVN_SIZE \in Pos /\ Interval \in Pos /\ Levels \in Pos
  /\ TVR_SIZE > 1 /\ TVN_SIZE > 1
BY TimerWheelAssumption DEF Pos

LEMMA ProductPositive == ASSUME NEW a \in Pos, NEW b \in Pos PROVE a * b \in Pos /\ a <= a * b
<1>1. a \in Nat /\ b \in Nat /\ a >= 1 /\ b >= 1
  BY DEF Pos
<1>2. a * b \in Nat /\ a * b >= a
  BY <1>1
<1> QED BY <1>1, <1>2 DEF Pos

LEMMA SpanDefined == Span = [i \in 0 .. Levels |-> span(Span, i)]
<1> DEFINE Some(n) == \E g : g = [i \in 0 .. n |-> span(g, i)]
           S == {n \in 0 .. Levels : Some(n)}
<1>1. 0 \in S
  <2> DEFINE g == [i \in 0 .. 0 |-> TVR_SIZE]
  <2>1. g = [i \in 0 .. 0 |-> span(g, i)]
    BY DEF span
  <2>2. Some(0)
    <3> HIDE DEF g
    <3> QED BY <2>1
  <2>3. 0 \in 0 .. Levels
    BY SizesPositive DEF Pos
  <2> QED BY <2>2, <2>3
<1>2. ASSUME NEW n \in 0 .. Levels, n # Levels, n \in S PROVE n + 1 \in S
  <2>1. PICK g : g = [i \in 0 .. n |-> span(g, i)]
    BY <1>2
  <2> DEFINE h == [i \in 0 .. n + 1 |-> IF i = n + 1 THEN g[n] * TVN_SIZE ELSE g[i]]
  <2>2. n \in Nat /\ Levels \in Nat /\ n + 1 \in 0 .. Levels
    BY <1>2, SizesPositive DEF Pos
  <2>3. ASSUME NEW i \in 0 .. n + 1 PROVE h[i] = span(h, i)
    <3>1. CASE i = n + 1
      <4>1. h[i] = g[n] * TVN_SIZE /\ i - 1 = n /\ i # 0 /\ h[n] = g[n]
        BY <2>2, <3>1
      <4> HIDE DEF h
      <4> QED BY <4>1 DEF span
    <3>2. CASE i = 0
      <4>1. h[i] = g[0] /\ g[0] = span(g, 0)
        BY <2>1, <2>2, <3>2
      <4> QED BY <4>1, <3>2 DEF span
    <3>3. CASE i # n + 1 /\ i # 0
      <4>1. i \in 0 .. n /\ i - 1 \in 0 .. n /\ i - 1 # n + 1 /\ i - 1 \in 0 .. n + 1
        BY <2>2, <3>3
      <4>2. h[i] = g[i] /\ h[i - 1] = g[i - 1] /\ g[i] = span(g, i)
        BY <2>1, <4>1, <3>3
      <4> HIDE DEF h
      <4> QED BY <4>2, <3>3 DEF span
    <3> QED BY <3>1, <3>2, <3>3
  <2>4. h = [i \in 0 .. n + 1 |-> span(h, i)]
    <3>1. h = [i \in 0 .. n + 1 |-> h[i]]
      OBVIOUS
    <3> HIDE DEF h
    <3> QED BY <2>3, <3>1
  <2>5. Some(n + 1)
    BY <2>4
  <2> QED BY <2>2, <2>5
<1>3. Levels \in Nat /\ Levels \in 0 .. Levels
  BY SizesPositive DEF Pos
<1>4. Some(Levels)
  <2> HIDE DEF S
  <2>1. 0 .. Levels \subseteq S
    BY <1>1, <1>2, <1>3, FiniteInduction
  <2> QED BY <2>1, <1>3 DEF S
<1> QED BY <1>4 DEF Span, span

LEMMA SpanStep ==
  /\ Span[0] = TVR_SIZE
  /\ \A i \in 0 .. Levels : i # Levels => Span[i + 1] = Span[i] * TVN_SIZE
<1>1. \A i \in 0 .. Levels : Span[i] = span(Span, i)
  BY SpanDefined
<1>2. 0 \in 0 .. Levels /\ Levels \in Nat
  BY SizesPositive DEF Pos
<1>3. ASSUME NEW i \in 0 .. Levels, i # Levels
      PROVE  i + 1 \in 0 .. Levels /\ i + 1 # 0 /\ (i + 1) - 1 = i
  BY <1>2, <1>3
<1> QED BY <1>1, <1>2, <1>3 DEF span

LEMMA SpansPositive == \A i \in 0 .. Levels : Span[i] \in Pos
<1> DEFINE S == {i \in 0 .. Levels : Span[i] \in Pos}
<1>1. Levels \in Nat /\ 0 \in S
  BY SpanStep, SizesPositive DEF Pos
<1>2. ASSUME NEW i \in 0 .. Levels, i # Levels, i \in S PROVE i + 1 \in S
  <2>1. i + 1 \in 0 .. Levels
    BY <1>1, <1>2
  <2> QED BY <2>1, <1>2, SpanStep, SizesPositive, ProductPositive
<1> HIDE DEF S
<1>3. 0 .. Levels \subseteq S
  BY <1>1, <1>2, FiniteInduction
<1> QED BY <1>3 DEF S

LEMMA ModulusPositive == Modulus \in Pos
BY SpansPositive, SizesPositive DEF Modulus, Pos

(***************************************************************************)
(* Remainders.                                                             *)
(***************************************************************************)
LEMMA ModRange ==
  ASSUME NEW a \in Int, NEW k \in Pos
  PROVE  a % k \in 0 .. k - 1 /\ a \div k \in Int /\ a = k * (a \div k) + (a % k)
<1>1. k \in Int /\ k > 0
  BY DEF Pos
<1> QED BY <1>1

LEMMA ModSplit ==
  ASSUME NEW a \in Int, NEW k \in Pos
  PROVE  \E p \in Int, r \in 0 .. k - 1 : a % k = r /\ a = k * p + r
<1> DEFINE p == a \div k
           r == a % k
<1>1. p \in Int /\ r \in 0 .. k - 1 /\ a = k * p + r
  BY ModRange
<1>2. r = a % k
  OBVIOUS
<1> HIDE DEF p, r
<1> QED BY <1>1, <1>2

LEMMA ModUnique ==
  ASSUME NEW a \in Int, NEW k \in Pos, NEW q \in Int, NEW r \in 0 .. k - 1, a = k * q + r
  PROVE  a % k = r
<1> DEFINE p == a \div k
           s == a % k
<1>1. s \in 0 .. k - 1 /\ p \in Int /\ a = k * p + s
  BY ModRange
<1> HIDE DEF p, s
<1>2. k \in Nat /\ k > 0
  BY DEF Pos
<1>3. k * (p - q) = r - s
  BY <1>1, <1>2
<1>4. CASE p - q >= 1
  <2>1. k * (p - q) >= k
    BY <1>1, <1>2, <1>4
  <2> QED BY <1>1, <1>2, <1>3, <2>1
<1>5. CASE p - q <= -1
  <2>1. k * (p - q) <= -k
    BY <1>1, <1>2, <1>5
  <2> QED BY <1>1, <1>2, <1>3, <2>1
<1>6. CASE p = q
  BY <1>1, <1>2, <1>6 DEF s
<1> QED BY <1>1, <1>4, <1>5, <1>6

LEMMA ModPlus ==
  ASSUME NEW a \in Int, NEW b \in Int, NEW k \in Pos
  PROVE  ((a % k) + b) % k = (a + b) % k
<1>1. PICK p \in Int, r \in 0 .. k - 1 : a % k = r /\ a = k * p + r
  BY ModSplit
<1>2. k \in Int /\ r \in Int
  BY DEF Pos
<1>3. PICK q \in Int, t \in 0 .. k - 1 : (r + b) % k = t /\ r + b = k * q + t
  BY <1>2, ModSplit
<1>4. t \in Int /\ a + b \in Int /\ p + q \in Int /\ a + b = k * (p + q) + t
  BY <1>1, <1>2, <1>3
<1>5. (a + b) % k = t
  BY <1>4, ModUnique
<1> QED BY <1>1, <1>3, <1>5

LEMMA ModTurn ==
  ASSUME NEW a \in Int, NEW k \in Pos
  PROVE  (a + k) % k = a % k
<1>1. PICK p \in Int, r \in 0 .. k - 1 : a % k = r /\ a = k * p + r
  BY ModSplit
<1>2. r \in Int /\ k \in Int
  BY DEF Pos
<1>3. a + k \in Int /\ p + 1 \in Int /\ a + k = k * (p + 1) + r
  BY <1>1, <1>2
<1>4. (a + k) % k = r
  BY <1>3, ModUnique
<1> QED BY <1>1, <1>4

\* A distance that the first wheel does not span lies between the spans of two outer wheels.
LEMMA WheelOf ==
  ASSUME NEW idx \in 0 .. Modulus - 1, ~ idx < TVR_SIZE
  PROVE  \E j \in 0 .. Levels - 1 : Span[j] <= idx /\ idx < Span[j + 1]
<1> DEFINE In(j) == Span[j] <= idx /\ idx < Span[j + 1]
           S == {i \in 0 .. Levels : Span[i] <= idx}
<1> SUFFICES ASSUME \A j \in 0 .. Levels - 1 : ~ In(j) PROVE FALSE
  OBVIOUS
<1>1. Modulus \in Nat /\ idx \in Nat /\ idx < Modulus /\ Levels \in Nat
  BY ModulusPositive, SizesPositive DEF Pos
<1>2. 0 \in S
  BY <1>1, SpanStep, SizesPositive DEF Pos
<1>3. ASSUME NEW i \in 0 .. Levels, i # Levels, i \in S PROVE i + 1 \in S
  <2>1. i \in 0 .. Levels - 1 /\ i + 1 \in 0 .. Levels
    BY <1>1, <1>3
  <2>2. Span[i] <= idx /\ Span[i + 1] \in Nat
    BY <1>3, <2>1, SpansPositive DEF Pos
  <2> QED BY <1>1, <2>1, <2>2
<1>4. 0 .. Levels \subseteq S
  <2> HIDE DEF S
  <2> QED BY <1>1, <1>2, <1>3, FiniteInduction
<1>5. Levels \in 0 .. Levels
  BY <1>1
<1>6. Span[Levels] <= idx
  BY <1>4, <1>5
<1> QED BY <1>1, <1>6 DEF Modulus

\* Where a timer is put: in the wheel that spans the distance.
LEMMA PlaceIs ==
  ASSUME NEW e \in Int, NEW tick \in Int
  PROVE  \/ /\ (e - tick) % Modulus < TVR_SIZE
            /\ place(e, tick) = <<0, FIRST_INDEX(e)>>
         \/ \E i \in 0 .. Levels - 1 :
              /\ Span[i] <= (e - tick) % Modulus
              /\ place(e, tick) = <<i + 1, NTH_INDEX(e, i)>>
<1> DEFINE idx == (e - tick) % Modulus
<1>1. idx \in 0 .. Modulus - 1
  BY ModulusPositive, ModRange
<1>2. place(e, tick) =
        IF idx < TVR_SIZE
          THEN <<0, FIRST_INDEX(e)>>
          ELSE LET i == CHOOSE j \in 0 .. Levels - 1 : Span[j] <= idx /\ idx < Span[j + 1]
               IN  <<i + 1, NTH_INDEX(e, i)>>
  BY DEF place
<1> HIDE DEF idx
<1>3. CASE idx < TVR_SIZE
  BY <1>2, <1>3 DEF idx
<1>4. CASE ~ idx < TVR_SIZE
  <2> DEFINE i == CHOOSE j \in 0 .. Levels - 1 : Span[j] <= idx /\ idx < Span[j + 1]
  <2>1. i \in 0 .. Levels - 1 /\ Span[i] <= idx
    BY <1>1, <1>4, WheelOf
  <2>2. place(e, tick) = <<i + 1, NTH_INDEX(e, i)>>
    BY <1>2, <1>4
  <2> HIDE DEF i
  <2> QED BY <2>1, <2>2 DEF idx
<1> QED BY <1>3, <1>4

LEMMA IndexRange ==
  ASSUME NEW e \in Int
  PROVE  /\ FIRST_INDEX(e) \in 0 .. TVR_SIZE - 1
         /\ \A i \in 0 .. Levels : NTH_INDEX(e, i) \in 0 .. TVN_SIZE - 1
<1>1. FIRST_INDEX(e) \in 0 .. TVR_SIZE - 1
  BY ModRange, SizesPositive DEF FIRST_INDEX
<1>2. ASSUME NEW i \in 0 .. Levels PROVE NTH_INDEX(e, i) \in 0 .. TVN_SIZE - 1
  <2>1. e \div Span[i] \in Int
    BY SpansPositive, ModRange
  <2> QED BY <2>1, ModRange, SizesPositive DEF NTH_INDEX
<1> QED BY <1>1, <1>2

\* Wherever a timer expires and whatever the tick is, the wheels have a slot for
\* it: the list for timers beyond the last wheel stays empty.
THEOREM EveryTimerHasASlot ==
  ASSUME NEW e \in Int, NEW tick \in Int
  PROVE  place(e, tick) \in Slots
<1>1. Levels \in Nat
  BY SizesPositive DEF Pos
<1>2. CASE place(e, tick) = <<0, FIRST_INDEX(e)>>
  BY <1>2, IndexRange DEF Slots
<1>3. ASSUME NEW i \in 0 .. Levels - 1, place(e, tick) = <<i + 1, NTH_INDEX(e, i)>>
      PROVE  place(e, tick) \in Slots
  <2>1. i \in 0 .. Levels /\ i + 1 \in 1 .. Levels
    BY <1>1
  <2> QED BY <1>3, <2>1, IndexRange DEF Slots
<1> QED BY <1>2, <1>3, PlaceIs

-----------------------------------------------------------------------------
(***************************************************************************)
(* The inductive invariant: the two properties with the types.             *)
(***************************************************************************)
TWTypeOK ==
  /\ currtick \in Ticks
  /\ lag \in Nat /\ remainder \in Nat /\ diff \in Nat /\ clock \in Nat
  /\ ticking \in BOOLEAN /\ child \in BOOLEAN
  /\ running \in Node \cup {NoNode}
  /\ loc \in [Node -> Slots \cup {Free, Head, InCall}]
  /\ expire \in [Node -> Ticks]
  /\ num \in 0 .. Modulus
  /\ heirs \subseteq Node

IInv == TWTypeOK /\ PendingCounted /\ ClockExact

LEMMA TicksAreNat == Ticks \subseteq Nat /\ 0 \in Ticks /\ \A a \in Int : a % Modulus \in Ticks
BY ModulusPositive, ModRange DEF Ticks, Pos

LEMMA InitIInv == TWInit => IInv
<1> SUFFICES ASSUME TWInit PROVE IInv
  OBVIOUS
<1> USE DEF TWInit
<1>1. TWTypeOK
  <2>1. 0 \in Ticks /\ 0 \in 0 .. Modulus
    BY TicksAreNat, ModulusPositive DEF Pos
  <2>2. loc \in [Node -> Slots \cup {Free, Head, InCall}] /\ expire \in [Node -> Ticks]
    BY <2>1
  <2> QED BY <2>1, <2>2 DEF TWTypeOK
<1>2. Pending = {} /\ Cardinality({}) = 0
  BY FS_EmptySet DEF Pending, Slots, Free, Head
<1>3. PendingCounted
  BY <1>2 DEF PendingCounted
<1>4. 0 % (Modulus * Interval) = 0 /\ 0 * Interval + 0 + 0 = 0
  <2>1. Modulus * Interval \in Pos
    BY ModulusPositive, SizesPositive, ProductPositive
  <2>2. 0 \in 0 .. (Modulus * Interval) - 1 /\ 0 = (Modulus * Interval) * 0 + 0
    BY <2>1 DEF Pos
  <2> QED BY <2>1, <2>2, ModUnique, SizesPositive DEF Pos
<1>5. ClockExact
  BY <1>4 DEF ClockExact
<1> QED BY <1>1, <1>3, <1>5 DEF IInv

(***************************************************************************)
(* Types.                                                                  *)
(***************************************************************************)
LEMMA TypeStep == TWTypeOK /\ [TWNext]_twvars => TWTypeOK'
<1> SUFFICES ASSUME TWTypeOK, [TWNext]_twvars PROVE TWTypeOK'
  OBVIOUS
<1> USE DEF TWTypeOK
<1> DEFINE Places == Slots \cup {Free, Head, InCall}
<1>0. /\ Modulus \in Nat /\ Modulus > 0 /\ Interval \in Nat /\ Interval > 0 /\ MaxNum \in Nat
      /\ MaxNum <= Modulus
  BY ModulusPositive, SizesPositive, TimerWheelAssumption, CounterAssumption DEF Pos
<1>00. Ticks \subseteq Int /\ 0 \in Ticks
  BY TicksAreNat
<1>1. ASSUME NEW n \in Node, NEW ticks \in Ticks, Add(n, ticks) PROVE TWTypeOK'
  <2> DEFINE e == (currtick + (IF ticks > 0 THEN ticks ELSE 1)) % Modulus
  <2>1. e \in Ticks
    <3>1. currtick + (IF ticks > 0 THEN ticks ELSE 1) \in Int
      BY <1>00
    <3> QED BY <3>1, TicksAreNat
  <2>2. place(e, currtick) \in Slots
    BY <1>00, <2>1, EveryTimerHasASlot
  <2>3. expire' = [expire EXCEPT ![n] = e] /\ loc' = [loc EXCEPT ![n] = place(e, currtick)]
    BY <1>1 DEF Add
  <2> HIDE DEF e
  <2>4. loc' \in [Node -> Places] /\ expire' \in [Node -> Ticks]
    BY <2>1, <2>2, <2>3
  <2>5. num' \in 0 .. Modulus
    BY <1>0, <1>1 DEF Add
  <2> QED BY <1>1, <2>4, <2>5 DEF Add, time, birth
<1>2. ASSUME NEW n \in Node, Del(n) PROVE TWTypeOK'
  BY <1>2 DEF Del, time, birth
<1>3. CASE TimePasses
  <2>1. Modulus * Interval \in Pos
    BY ModulusPositive, SizesPositive, ProductPositive
  <2>2. clock + 1 \in Int /\ Modulus * Interval \in Int
    BY <2>1 DEF Pos
  <2>3. clock' \in Nat
    BY <1>3, <2>1, <2>2, ModRange DEF TimePasses
  <2> QED BY <1>3, <2>3 DEF TimePasses, birth
<1>4. CASE UpdateStarts
  BY <1>4 DEF UpdateStarts, birth
<1>5. CASE UpdateEnds
  BY <1>5 DEF UpdateEnds, birth
<1>6. CASE Tick
  <2> DEFINE put == [n \in Node |-> IF cascaded(loc[n], currtick') THEN place(expire[n], currtick')
                                    ELSE loc[n]]
  <2>1. currtick' \in Ticks
    <3>1. currtick + 1 \in Int
      BY <1>00
    <3> QED BY <1>6, <3>1, TicksAreNat DEF Tick
  <2>2. \A n \in Node : place(expire[n], currtick') \in Slots
    BY <1>00, <2>1, EveryTimerHasASlot
  <2>3. \A n \in Node : put[n] \in Places
    BY <2>2
  <2> HIDE DEF put
  <2>4. loc' = [n \in Node |-> IF put[n] = <<0, FIRST_INDEX(currtick')>> THEN Head ELSE put[n]]
    BY <1>6 DEF Tick, put
  <2>5. loc' \in [Node -> Places]
    BY <2>3, <2>4
  <2>6. diff' \in Nat
    BY <1>0, <1>6 DEF Tick
  <2> QED BY <1>6, <2>1, <2>5, <2>6 DEF Tick, birth
<1>7. ASSUME NEW n \in Node, CallbackStarts(n) PROVE TWTypeOK'
  <2>1. num' \in Ticks
    <3>1. num - 1 \in Int
      BY <1>0
    <3> QED BY <1>7, <3>1, TicksAreNat DEF CallbackStarts
  <2>2. num' \in 0 .. Modulus
    BY <1>0, <2>1 DEF Ticks
  <2> QED BY <1>7, <2>2 DEF CallbackStarts, time, birth
<1>8. CASE CallbackEnds
  BY <1>8 DEF CallbackEnds, time, birth
<1>9. CASE wmTimerWheel_clear
  BY <1>0, <1>9 DEF wmTimerWheel_clear, time
<1>10. CASE UNCHANGED twvars
  BY <1>10 DEF twvars, time, birth
<1> QED BY <1>1, <1>2, <1>3, <1>4, <1>5, <1>6, <1>7, <1>8, <1>9, <1>10 DEF TWNext, Wheel

(***************************************************************************)
(* The counter.  It counts what is added and what is served; deletions     *)
(* only make it too large.                                                 *)
(***************************************************************************)
LEMMA PlacesDistinct ==
  /\ Free \notin Slots \cup {Head} /\ InCall \notin Slots \cup {Head} /\ Free # Head
  /\ \A l \in Slots : l[1] >= 0 /\ l[1] \in Int
  /\ Free[1] = -1 /\ InCall[1] = -3
<1>1. Levels \in Nat
  BY SizesPositive DEF Pos
<1>2. \A l \in Slots : l[1] >= 0 /\ l[1] \in Int
  BY <1>1 DEF Slots
<1> QED BY <1>2 DEF Free, Head, InCall

LEMMA PendingFinite ==
  /\ IsFiniteSet(Pending) /\ Cardinality(Pending) \in Nat
  /\ IsFiniteSet(Pending)' /\ Cardinality(Pending)' \in Nat
<1>1. Pending \in SUBSET Node /\ Pending' \in SUBSET Node
  BY DEF Pending
<1>2. IsFiniteSet(Pending) /\ IsFiniteSet(Pending')
  BY <1>1, CounterAssumption, FS_Subset
<1> QED BY <1>2, FS_CardinalityType

LEMMA FewerPending ==
  ASSUME TWTypeOK, PendingCounted, heirs' = heirs, num' = num, Pending' \subseteq Pending
  PROVE  PendingCounted'
<1>1. Cardinality(Pending') <= Cardinality(Pending)
  BY PendingFinite, FS_Subset
<1>2. Cardinality(Pending) \in Nat /\ Cardinality(Pending') \in Nat /\ num \in Nat
  BY PendingFinite DEF TWTypeOK
<1> QED
  BY <1>1, <1>2 DEF PendingCounted

LEMMA CounterStep == TWTypeOK /\ PendingCounted /\ [TWNext]_twvars => PendingCounted'
<1> SUFFICES ASSUME TWTypeOK, PendingCounted, [TWNext]_twvars PROVE PendingCounted'
  OBVIOUS
<1> USE DEF TWTypeOK
<1>0. /\ Modulus \in Nat /\ Modulus > 0 /\ num \in Nat /\ num <= Modulus
      /\ Cardinality(Pending) \in Nat /\ Cardinality(Pending') \in Nat
      /\ IsFiniteSet(Pending) /\ IsFiniteSet(Pending')
  BY ModulusPositive, PendingFinite DEF Pos
<1>1. ASSUME NEW n \in Node, NEW ticks \in Ticks, Add(n, ticks) PROVE PendingCounted'
  <2>1. PICK l : loc' = [loc EXCEPT ![n] = l]
    BY <1>1 DEF Add
  <2>2. Pending' \in SUBSET (Pending \cup {n})
    BY <2>1 DEF Pending
  <2>3. /\ IsFiniteSet(Pending \cup {n}) /\ Cardinality(Pending \cup {n}) \in Nat
        /\ Cardinality(Pending \cup {n}) <= Cardinality(Pending) + 1
    <3>1. IsFiniteSet(Pending \cup {n})
      BY <1>0, FS_AddElement
    <3>2. Cardinality(Pending \cup {n}) =
            IF n \in Pending THEN Cardinality(Pending) ELSE Cardinality(Pending) + 1
      BY <1>0, FS_AddElement
    <3> QED BY <1>0, <3>1, <3>2
  <2>4. Cardinality(Pending') <= Cardinality(Pending \cup {n})
    BY <2>2, <2>3, FS_Subset
  <2>5. num' = num + 1 /\ heirs' = heirs
    BY <1>1 DEF Add, birth
  <2> QED BY <1>0, <2>3, <2>4, <2>5 DEF PendingCounted
<1>2. ASSUME NEW n \in Node, Del(n) PROVE PendingCounted'
  <2>1. num' = num /\ heirs' = heirs /\ loc' = [loc EXCEPT ![n] = Free]
    BY <1>2 DEF Del, birth
  <2>2. Pending' \subseteq Pending
    BY <2>1, PlacesDistinct DEF Pending
  <2> QED BY <2>1, <2>2, FewerPending
<1>3. CASE TimePasses \/ UpdateStarts \/ UpdateEnds \/ UNCHANGED twvars
  <2>1. num' = num /\ heirs' = heirs /\ loc' = loc
    BY <1>3 DEF TimePasses, UpdateStarts, UpdateEnds, twvars, birth
  <2>2. Pending' \subseteq Pending
    BY <2>1 DEF Pending
  <2> QED BY <2>1, <2>2, FewerPending
<1>4. CASE Tick
  <2> DEFINE put == [n \in Node |-> IF cascaded(loc[n], currtick') THEN place(expire[n], currtick')
                                    ELSE loc[n]]
  <2>1. ASSUME NEW n \in Node, loc[n] \in {Free, InCall} PROVE put[n] = loc[n]
    <3>1. loc[n][1] < 0
      BY <2>1, PlacesDistinct
    <3>2. \A i \in 0 .. Levels - 1 : \A x : loc[n] = <<i + 1, x>> => loc[n][1] > 0
      BY SizesPositive DEF Pos
    <3>3. ~ cascaded(loc[n], currtick')
      BY <3>1, <3>2, <2>1, PlacesDistinct DEF cascaded
    <3> QED BY <3>3
  <2>2. loc' = [n \in Node |-> IF put[n] = <<0, FIRST_INDEX(currtick')>> THEN Head ELSE put[n]]
    BY <1>4 DEF Tick
  <2>3. Free # <<0, FIRST_INDEX(currtick')>> /\ InCall # <<0, FIRST_INDEX(currtick')>>
    BY DEF Free, InCall
  <2> HIDE DEF put
  <2>4. ASSUME NEW n \in Node, n \notin Pending PROVE n \notin Pending'
    <3>1. loc[n] \in {Free, InCall}
      BY <2>4 DEF Pending
    <3>2. loc'[n] = loc[n]
      BY <2>1, <2>2, <2>3, <3>1
    <3> QED BY <3>1, <3>2, PlacesDistinct DEF Pending
  <2>5. Pending' \subseteq Pending
    BY <2>4 DEF Pending
  <2>6. num' = num /\ heirs' = heirs
    BY <1>4 DEF Tick, birth
  <2> QED BY <2>5, <2>6, FewerPending
<1>5. ASSUME NEW n \in Node, CallbackStarts(n) PROVE PendingCounted'
  <2>1. n \in Pending /\ loc' = [loc EXCEPT ![n] = InCall]
    BY <1>5 DEF CallbackStarts, Pending
  <2>2. Pending' = Pending \ {n}
    BY <2>1, PlacesDistinct DEF Pending
  <2>3. Cardinality(Pending') = Cardinality(Pending) - 1
    BY <1>0, <2>1, <2>2, FS_RemoveElement
  <2>4. num' = (num - 1) % Modulus /\ heirs' = heirs
    BY <1>5 DEF CallbackStarts, birth
  <2>5. CASE heirs = {}
    <3>1. num - 1 \in 0 .. Modulus - 1
      BY <1>0, <2>3, <2>5 DEF PendingCounted
    <3>2. (num - 1) % Modulus = num - 1
      <4>1. num - 1 \in Int /\ num - 1 = Modulus * 0 + (num - 1)
        BY <1>0
      <4> QED BY <3>1, <4>1, ModUnique, ModulusPositive
    <3> QED BY <1>0, <2>3, <2>4, <2>5, <3>2 DEF PendingCounted
  <2> QED BY <2>4, <2>5 DEF PendingCounted
<1>6. CASE CallbackEnds
  <2>1. num' = num /\ heirs' = heirs /\ loc' = [loc EXCEPT ![running] = Free]
    BY <1>6 DEF CallbackEnds, birth
  <2>2. Pending' \subseteq Pending
    BY <2>1, PlacesDistinct DEF Pending
  <2> QED BY <2>1, <2>2, FewerPending
<1>7. CASE wmTimerWheel_clear
  <2>1. num' = 0 /\ heirs' = {n \in Node : loc'[n] # Free}
    BY <1>7 DEF wmTimerWheel_clear
  <2>2. Pending' \subseteq heirs'
    BY <2>1, PlacesDistinct DEF Pending
  <2>3. heirs' = {} => Cardinality(Pending') = 0
    BY <2>2, FS_EmptySet
  <2> QED BY <2>1, <2>3 DEF PendingCounted
<1> QED BY <1>1, <1>2, <1>3, <1>4, <1>5, <1>6, <1>7 DEF TWNext, Wheel

(***************************************************************************)
(* The clock.  A whole turn of the wheels is a whole turn of the clock.    *)
(***************************************************************************)
Turn == Modulus * Interval
Gone == currtick * Interval + lag + (IF ticking THEN diff ELSE remainder)

LEMMA ClockStep == TWTypeOK /\ ClockExact /\ [TWNext]_twvars => ClockExact'
<1> SUFFICES ASSUME TWTypeOK, ClockExact, [TWNext]_twvars PROVE ClockExact'
  OBVIOUS
<1>0. /\ Modulus \in Nat /\ Modulus > 0 /\ Interval \in Nat /\ Interval > 0
      /\ currtick \in Nat /\ currtick < Modulus /\ lag \in Nat /\ diff \in Nat
      /\ remainder \in Nat /\ clock \in Nat /\ ticking \in BOOLEAN
  BY ModulusPositive, SizesPositive DEF Pos, TWTypeOK, Ticks
<1>1. Turn \in Pos /\ Turn \in Int
  BY ModulusPositive, SizesPositive, ProductPositive DEF Turn, Pos
<1>2. currtick * Interval \in Nat /\ Gone \in Int
  BY <1>0 DEF Gone
<1>3. clock = Gone % Turn
  BY DEF ClockExact, Gone, Turn
<1>4. SUFFICES clock' = Gone' % Turn
  BY DEF ClockExact, Gone, Turn
<1>5. CASE TimePasses
  <2>1. Gone' = Gone + 1
    BY <1>0, <1>2, <1>5 DEF TimePasses, Gone
  <2>2. clock' = (clock + 1) % Turn
    BY <1>5 DEF TimePasses, Turn
  <2>3. ((Gone % Turn) + 1) % Turn = (Gone + 1) % Turn
    BY <1>1, <1>2, ModPlus
  <2> QED BY <1>3, <2>1, <2>2, <2>3
<1>6. CASE UpdateStarts
  <2>1. Gone' = Gone /\ clock' = clock
    BY <1>0, <1>2, <1>6 DEF UpdateStarts, Gone
  <2> QED BY <1>3, <2>1
<1>7. CASE UpdateEnds
  <2>1. Gone' = Gone /\ clock' = clock
    BY <1>0, <1>2, <1>7 DEF UpdateEnds, Gone
  <2> QED BY <1>3, <2>1
<1>8. CASE Tick
  <2>1. /\ clock' = clock /\ ticking /\ ticking' = ticking /\ lag' = lag
        /\ diff' = diff - Interval /\ currtick' = (currtick + 1) % Modulus
    BY <1>8 DEF Tick
  <2>2. CASE currtick + 1 < Modulus
    <3>1. currtick' = currtick + 1
      <4>1. currtick + 1 \in 0 .. Modulus - 1 /\ currtick + 1 = Modulus * 0 + (currtick + 1)
        BY <1>0, <2>2
      <4> QED BY <2>1, <4>1, ModUnique, ModulusPositive
    <3>2. currtick' * Interval = currtick * Interval + Interval
      BY <1>0, <3>1
    <3>3. Gone' = Gone
      BY <1>0, <1>2, <2>1, <3>2 DEF Gone
    <3> QED BY <1>3, <2>1, <3>3
  <2>3. CASE currtick + 1 = Modulus
    <3>1. currtick' = 0
      <4>1. 0 \in 0 .. Modulus - 1 /\ currtick + 1 = Modulus * 1 + 0 /\ currtick + 1 \in Int
        BY <1>0, <2>3
      <4> QED BY <2>1, <4>1, ModUnique, ModulusPositive
    <3>2. Turn = currtick * Interval + Interval
      BY <1>0, <2>3 DEF Turn
    <3>3. currtick' * Interval = 0
      BY <1>0, <3>1
    <3>4. Gone' \in Int /\ Gone = Gone' + Turn
      BY <1>0, <1>2, <2>1, <3>2, <3>3 DEF Gone
    <3>5. (Gone' + Turn) % Turn = Gone' % Turn
      BY <1>1, <3>4, ModTurn
    <3> QED BY <1>3, <2>1, <3>4, <3>5
  <2> QED BY <1>0, <2>2, <2>3
<1>9. ASSUME \/ \E n \in Node : Del(n) \/ CallbackStarts(n) \/ \E ticks \in Ticks : Add(n, ticks)
             \/ CallbackEnds \/ wmTimerWheel_clear \/ UNCHANGED twvars
      PROVE  clock' = Gone' % Turn
  <2>1. UNCHANGED time
    BY <1>9 DEF Del, CallbackStarts, Add, CallbackEnds, wmTimerWheel_clear, twvars
  <2>2. Gone' = Gone /\ clock' = clock
    BY <2>1 DEF time, Gone
  <2> QED BY <1>3, <2>2
<1> QED BY <1>5, <1>6, <1>7, <1>8, <1>9 DEF TWNext, Wheel

-----------------------------------------------------------------------------
\* The inductive invariant holds of every wheel.
THEOREM SpecIInv == TWSpec => []IInv
<1>1. TWInit => IInv
  BY InitIInv
<1>2. IInv /\ [TWNext]_twvars => IInv'
  BY TypeStep, CounterStep, ClockStep DEF IInv
<1> QED BY <1>1, <1>2, PTL DEF TWSpec

\* The event loop never forgets a timer: the counter is at least the number of
\* those that are set, in a process that has none of its parent's.
THEOREM CounterCorrect == TWSpec => []PendingCounted
<1>1. IInv => PendingCounted
  BY DEF IInv
<1> QED BY <1>1, SpecIInv, PTL

\* The wheel does not drift from the clock, over any number of turns.
THEOREM ClockCorrect == TWSpec => []ClockExact
<1>1. IInv => ClockExact
  BY DEF IInv
<1> QED BY <1>1, SpecIInv, PTL

-----------------------------------------------------------------------------
(***************************************************************************)
(* The wheels implement TimerSet.  A timer in slot s of the first wheel    *)
(* expires at the next tick with this index.  One in an outer wheel        *)
(* expires after its slot is put in again, which is when the ticks it has  *)
(* left are the remainder of its tick by the length of the slot.           *)
(***************************************************************************)

\* The ticks from t to e, on a clock that wraps around.
ahead(e, t) == (e - t) % Modulus

\* A timer that expires at e is well placed in l at tick t.
Waits(l, e, t) ==
  \/ /\ l = <<0, FIRST_INDEX(e)>>
     /\ 0 < ahead(e, t) /\ ahead(e, t) < TVR_SIZE
  \/ \E i \in 0 .. Levels - 1 :
       /\ l = <<i + 1, NTH_INDEX(e, i)>>
       /\ e % Span[i] < ahead(e, t)

WheelInv ==
  /\ \A n \in Node : loc[n] \in Slots => Waits(loc[n], expire[n], currtick)
  /\ running # NoNode => loc[running] = InCall

LEMMA TicksAhead ==
  ASSUME NEW e \in Ticks, NEW t \in Ticks
  PROVE  /\ e \in Nat /\ t \in Nat /\ e < Modulus /\ t < Modulus /\ Modulus \in Nat
         /\ ahead(e, t) = IF t <= e THEN e - t ELSE (e - t) + Modulus
         /\ ahead(e, t) \in 0 .. Modulus - 1
<1>1. /\ e \in Nat /\ t \in Nat /\ e < Modulus /\ t < Modulus /\ Modulus \in Nat
      /\ e - t \in Int /\ Modulus > 0
  BY ModulusPositive DEF Ticks, Pos
<1>2. CASE t <= e
  <2>1. e - t \in 0 .. Modulus - 1 /\ e - t = Modulus * 0 + (e - t)
    BY <1>1, <1>2
  <2>2. (e - t) % Modulus = e - t
    BY <1>1, <2>1, ModUnique, ModulusPositive
  <2> QED BY <1>1, <1>2, <2>1, <2>2 DEF ahead
<1>3. CASE ~ t <= e
  <2> DEFINE r == (e - t) + Modulus
  <2>1. r \in 0 .. Modulus - 1 /\ e - t = Modulus * (-1) + r /\ -1 \in Int
    BY <1>1, <1>3
  <2> HIDE DEF r
  <2>2. (e - t) % Modulus = r
    BY <1>1, <2>1, ModUnique, ModulusPositive
  <2> QED BY <1>1, <1>3, <2>1, <2>2 DEF ahead, r
<1> QED BY <1>1, <1>2, <1>3

LEMMA NextTick ==
  ASSUME NEW t \in Ticks
  PROVE  /\ (t + 1) % Modulus = IF t + 1 = Modulus THEN 0 ELSE t + 1
         /\ (t + 1) % Modulus \in Ticks
<1>1. t \in Nat /\ t < Modulus /\ Modulus \in Nat /\ Modulus > 0 /\ t + 1 \in Int
  BY ModulusPositive DEF Ticks, Pos
<1>2. CASE t + 1 = Modulus
  <2>1. 0 \in 0 .. Modulus - 1 /\ t + 1 = Modulus * 1 + 0
    BY <1>1, <1>2
  <2>2. (t + 1) % Modulus = 0
    BY <1>1, <2>1, ModUnique, ModulusPositive
  <2> QED BY <1>2, <2>1, <2>2 DEF Ticks
<1>3. CASE t + 1 # Modulus
  <2>1. t + 1 \in 0 .. Modulus - 1 /\ t + 1 = Modulus * 0 + (t + 1)
    BY <1>1, <1>3
  <2>2. (t + 1) % Modulus = t + 1
    BY <1>1, <2>1, ModUnique, ModulusPositive
  <2> QED BY <1>3, <2>1, <2>2 DEF Ticks
<1> QED BY <1>2, <1>3

\* A tick brings every timer one tick nearer.
LEMMA Nearer ==
  ASSUME NEW e \in Ticks, NEW t \in Ticks, ahead(e, t) # 0
  PROVE  ahead(e, (t + 1) % Modulus) = ahead(e, t) - 1
<1> DEFINE u == (t + 1) % Modulus
<1>1. u \in Ticks /\ u = IF t + 1 = Modulus THEN 0 ELSE t + 1
  BY NextTick
<1> HIDE DEF u
<1>2. /\ ahead(e, t) = IF t <= e THEN e - t ELSE (e - t) + Modulus
      /\ e \in Nat /\ t \in Nat /\ e < Modulus /\ t < Modulus /\ Modulus \in Nat
  BY TicksAhead
<1>3. ahead(e, u) = IF u <= e THEN e - u ELSE (e - u) + Modulus
  BY <1>1, TicksAhead
<1>4. ahead(e, u) = ahead(e, t) - 1
  BY <1>1, <1>2, <1>3
<1> QED BY <1>4 DEF u

\* A timer that is put in again has a tick left, or is due.
LEMMA PlaceWaits ==
  ASSUME NEW e \in Ticks, NEW t \in Ticks
  PROVE  \/ Waits(place(e, t), e, t)
         \/ ahead(e, t) = 0 /\ place(e, t) = <<0, FIRST_INDEX(t)>>
<1>1. /\ e \in Nat /\ t \in Nat /\ Modulus \in Nat /\ ahead(e, t) \in 0 .. Modulus - 1
      /\ ahead(e, t) = IF t <= e THEN e - t ELSE (e - t) + Modulus
      /\ e < Modulus /\ t < Modulus
  BY TicksAhead
<1>2. CASE ahead(e, t) < TVR_SIZE /\ place(e, t) = <<0, FIRST_INDEX(e)>>
  <2>1. CASE ahead(e, t) = 0
    <3>1. e = t
      BY <1>1, <2>1
    <3> QED BY <1>2, <2>1, <3>1
  <2>2. CASE ahead(e, t) # 0
    <3>1. 0 < ahead(e, t)
      BY <1>1, <2>2
    <3> QED BY <1>2, <3>1 DEF Waits
  <2> QED BY <2>1, <2>2
<1>3. ASSUME NEW i \in 0 .. Levels - 1, Span[i] <= ahead(e, t),
             place(e, t) = <<i + 1, NTH_INDEX(e, i)>>
      PROVE  Waits(place(e, t), e, t)
  <2>1. i \in 0 .. Levels
    BY SizesPositive DEF Pos
  <2>2. e % Span[i] \in 0 .. Span[i] - 1 /\ Span[i] \in Nat
    <3>1. e \in Int /\ Span[i] \in Pos
      BY <1>1, <2>1, SpansPositive
    <3> QED BY <3>1, ModRange DEF Pos
  <2>3. e % Span[i] < ahead(e, t)
    BY <1>1, <1>3, <2>2
  <2> QED BY <1>3, <2>3 DEF Waits
<1> QED BY <1>1, <1>2, <1>3, PlaceIs DEF ahead

\* A slot of an outer wheel is put in again before its timers are due.
LEMMA SlotOpens ==
  ASSUME NEW e \in Ticks, NEW t \in Ticks, NEW i \in 0 .. Levels - 1,
         ahead(e, t) = e % Span[i]
  PROVE  t % Span[i] = 0 /\ NTH_INDEX(t, i) = NTH_INDEX(e, i)
<1> DEFINE k == Span[i]
           p == e \div k
           r == e % k
<1>1. /\ e \in Nat /\ t \in Nat /\ e < Modulus /\ t < Modulus /\ Modulus \in Nat
      /\ ahead(e, t) = IF t <= e THEN e - t ELSE (e - t) + Modulus
  BY TicksAhead
<1>2. k \in Pos /\ k \in Nat
  BY SpansPositive, SizesPositive DEF Pos
<1>3. r \in 0 .. k - 1 /\ p \in Int /\ e = k * p + r
  BY <1>1, <1>2, ModRange
<1>4. r <= e
  <2> HIDE DEF p, r, k
  <2>1. p >= 0
    <3> SUFFICES ASSUME p <= -1 PROVE FALSE
      BY <1>3
    <3>1. k * p <= -k
      BY <1>2, <1>3
    <3> QED BY <1>1, <1>2, <1>3, <3>1
  <2>2. k * p >= 0
    BY <1>2, <1>3, <2>1
  <2> QED BY <1>1, <1>2, <1>3, <2>2
<1>5. ahead(e, t) = r
  OBVIOUS
<1> HIDE DEF p, r, k
<1>6. t = e - r
  BY <1>1, <1>2, <1>3, <1>4, <1>5
<1>7. t = k * p + 0 /\ 0 \in 0 .. k - 1 /\ t \in Int
  BY <1>1, <1>2, <1>3, <1>6 DEF Pos
<1>t. t \in Int
  BY <1>1
<1>8. t % k = 0
  BY <1>2, <1>3, <1>7, ModUnique
<1>9. t \div k = p
  <2>1. t \div k \in Int /\ t = k * (t \div k) + (t % k)
    BY <1>2, <1>t, ModRange
  <2> DEFINE q == t \div k
  <2>2. q \in Int /\ k * q = k * p /\ k > 0
    BY <1>2, <1>3, <1>7, <1>8, <2>1 DEF Pos
  <2> HIDE DEF q
  <2>3. q = p
    <3>1. k * (q - p) = 0
      BY <1>2, <1>3, <2>2
    <3>2. CASE q - p >= 1
      <4>1. k * (q - p) >= k
        BY <1>2, <1>3, <2>2, <3>2
      <4> QED BY <1>2, <2>2, <3>1, <4>1
    <3>3. CASE q - p <= -1
      <4>1. k * (q - p) <= -k
        BY <1>2, <1>3, <2>2, <3>3
      <4> QED BY <1>2, <2>2, <3>1, <4>1
    <3> QED BY <1>3, <2>2, <3>2, <3>3
  <2> QED BY <2>3 DEF q
<1> QED BY <1>8, <1>9 DEF NTH_INDEX, k, p

\* A whole turn of the wheels is a number of turns of the first one.
LEMMA FirstWheelDivides == \E k \in Pos : Modulus = TVR_SIZE * k
<1> DEFINE S == {i \in 0 .. Levels : \E k \in Pos : Span[i] = TVR_SIZE * k}
<1>1. Levels \in Nat /\ TVR_SIZE \in Nat
  BY SizesPositive DEF Pos
<1>2. 0 \in S
  <2>1. Span[0] = TVR_SIZE * 1 /\ 1 \in Pos
    BY <1>1, SpanStep DEF Pos
  <2> QED BY <1>1, <2>1
<1>3. ASSUME NEW i \in 0 .. Levels, i # Levels, i \in S PROVE i + 1 \in S
  <2>1. PICK k \in Pos : Span[i] = TVR_SIZE * k
    BY <1>3
  <2>2. k * TVN_SIZE \in Pos /\ i + 1 \in 0 .. Levels /\ Span[i + 1] = Span[i] * TVN_SIZE
    BY <1>1, <1>3, SpanStep, SizesPositive, ProductPositive
  <2>3. (TVR_SIZE * k) * TVN_SIZE = TVR_SIZE * (k * TVN_SIZE)
    BY <1>1, <2>1, SizesPositive DEF Pos
  <2> QED BY <2>1, <2>2, <2>3
<1>4. 0 .. Levels \subseteq S
  <2> HIDE DEF S
  <2> QED BY <1>1, <1>2, <1>3, FiniteInduction
<1> QED BY <1>1, <1>4 DEF Modulus

\* The first wheel comes to a slot exactly when its timers are due.
LEMMA FirstSlot ==
  ASSUME NEW e \in Ticks, NEW t \in Ticks, ahead(e, t) < TVR_SIZE
  PROVE  FIRST_INDEX(e) = FIRST_INDEX(t) <=> ahead(e, t) = 0
<1>1. /\ e \in Nat /\ t \in Nat /\ e < Modulus /\ t < Modulus /\ Modulus \in Nat
      /\ ahead(e, t) = IF t <= e THEN e - t ELSE (e - t) + Modulus
      /\ ahead(e, t) \in 0 .. Modulus - 1
  BY TicksAhead
<1>2. TVR_SIZE \in Nat /\ TVR_SIZE > 0 /\ TVR_SIZE \in Pos
  BY SizesPositive DEF Pos
<1>e. e \in Int /\ t \in Int
  BY <1>1
<1>3. ASSUME ahead(e, t) = 0 PROVE FIRST_INDEX(e) = FIRST_INDEX(t)
  <2>1. e = t
    BY <1>1, <1>3
  <2> QED BY <2>1
<1>4. ASSUME FIRST_INDEX(e) = FIRST_INDEX(t) PROVE ahead(e, t) = 0
  <2>1. PICK p \in Int, r \in 0 .. TVR_SIZE - 1 : e % TVR_SIZE = r /\ e = TVR_SIZE * p + r
    BY <1>e, <1>2, ModSplit
  <2>2. PICK q \in Int, s \in 0 .. TVR_SIZE - 1 : t % TVR_SIZE = s /\ t = TVR_SIZE * q + s
    BY <1>e, <1>2, ModSplit
  <2>3. r = s
    BY <1>4, <2>1, <2>2 DEF FIRST_INDEX
  <2>4. PICK k \in Pos : Modulus = TVR_SIZE * k
    BY FirstWheelDivides
  <2>5. \E m \in Int : ahead(e, t) = TVR_SIZE * m
    <3>1. k \in Int /\ r \in Int
      BY <2>4 DEF Pos
    <3>2. CASE t <= e
      <4>1. ahead(e, t) = TVR_SIZE * (p - q) /\ p - q \in Int
        BY <1>1, <1>2, <2>1, <2>2, <2>3, <3>1, <3>2
      <4> QED BY <4>1
    <3>3. CASE ~ t <= e
      <4>1. ahead(e, t) = TVR_SIZE * ((p - q) + k) /\ (p - q) + k \in Int
        BY <1>1, <1>2, <2>1, <2>2, <2>3, <2>4, <3>1, <3>3
      <4> QED BY <4>1
    <3> QED BY <3>2, <3>3
  <2>6. PICK m \in Int : ahead(e, t) = TVR_SIZE * m
    BY <2>5
  <2> DEFINE x == ahead(e, t)
  <2>7. x \in Nat /\ x < TVR_SIZE /\ x = TVR_SIZE * m
    BY <1>1, <2>6
  <2> HIDE DEF x
  <2>8. CASE m >= 1
    <3>1. TVR_SIZE * m >= TVR_SIZE
      BY <1>2, <2>8
    <3> QED BY <1>2, <2>7, <3>1
  <2>9. CASE m <= -1
    <3>1. TVR_SIZE * m <= -TVR_SIZE
      BY <1>2, <2>9
    <3> QED BY <1>2, <2>7, <3>1
  <2>10. CASE m = 0
    <3>1. x = 0
      BY <1>2, <2>7, <2>10
    <3> QED BY <3>1 DEF x
  <2> QED BY <2>8, <2>9, <2>10
<1> QED BY <1>3, <1>4

\* A tick: a timer that was well placed is due now and taken out, or it is not, and it
\* is well placed again.
LEMMA TickWaits ==
  ASSUME NEW e \in Ticks, NEW t \in Ticks, NEW l, Waits(l, e, t),
         NEW u, u = (t + 1) % Modulus,
         NEW put, put = (IF cascaded(l, u) THEN place(e, u) ELSE l)
  PROVE  /\ ahead(e, t) > 0 /\ ahead(e, u) = ahead(e, t) - 1
         /\ put \in Slots
         /\ put = <<0, FIRST_INDEX(u)>> => ahead(e, u) = 0
         /\ put # <<0, FIRST_INDEX(u)>> => Waits(put, e, u)
<1>1. u \in Ticks /\ e \in Int /\ u \in Int /\ Levels \in Nat
  BY NextTick, TicksAreNat, SizesPositive DEF Pos
<1>2. ahead(e, t) \in Nat /\ ahead(e, u) \in Nat
  BY <1>1, TicksAhead
<1>3. ahead(e, t) > 0
  <2>1. CASE l = <<0, FIRST_INDEX(e)>> /\ 0 < ahead(e, t)
    BY <2>1, <1>2
  <2>2. ASSUME NEW i \in 0 .. Levels - 1, e % Span[i] < ahead(e, t) PROVE ahead(e, t) > 0
    <3>1. i \in 0 .. Levels
      BY <1>1
    <3>2. e % Span[i] \in 0 .. Span[i] - 1
      BY <1>1, <3>1, SpansPositive, ModRange
    <3> QED BY <1>2, <2>2, <3>2
  <2> QED BY <2>1, <2>2 DEF Waits
<1>4. ahead(e, u) = ahead(e, t) - 1
  BY <1>2, <1>3, Nearer
<1>5. ASSUME NEW x, x = <<0, FIRST_INDEX(e)>>, ahead(e, u) < TVR_SIZE
      PROVE  /\ x \in Slots
             /\ x = <<0, FIRST_INDEX(u)>> => ahead(e, u) = 0
             /\ x # <<0, FIRST_INDEX(u)>> => Waits(x, e, u)
  <2>1. x \in Slots
    BY <1>1, <1>5, IndexRange DEF Slots
  <2>2. FIRST_INDEX(e) = FIRST_INDEX(u) <=> ahead(e, u) = 0
    BY <1>1, <1>5, FirstSlot
  <2>3. x = <<0, FIRST_INDEX(u)>> => FIRST_INDEX(e) = FIRST_INDEX(u)
    BY <1>5
  <2>4. CASE x # <<0, FIRST_INDEX(u)>>
    <3>1. FIRST_INDEX(e) # FIRST_INDEX(u)
      BY <1>5, <2>4
    <3>2. ahead(e, u) # 0
      BY <2>2, <3>1
    <3>3. 0 < ahead(e, u)
      BY <1>2, <3>2
    <3>4. Waits(x, e, u)
      BY <1>5, <3>3 DEF Waits
    <3> QED BY <2>1, <2>4, <3>4
  <2>5. CASE x = <<0, FIRST_INDEX(u)>>
    BY <2>1, <2>2, <2>3, <2>5
  <2> QED BY <2>4, <2>5
<1>6. ASSUME NEW i \in 0 .. Levels - 1, NEW x, x = <<i + 1, NTH_INDEX(e, i)>>
      PROVE  x \in Slots /\ x # <<0, FIRST_INDEX(u)>>
  <2>1. i \in 0 .. Levels /\ i + 1 \in 1 .. Levels /\ i + 1 # 0
    BY <1>1
  <2>2. x \in Slots
    BY <1>1, <1>6, <2>1, IndexRange DEF Slots
  <2>3. x[1] = i + 1 /\ <<0, FIRST_INDEX(u)>>[1] = 0
    BY <1>6
  <2> QED BY <2>1, <2>2, <2>3
<1>7. CASE cascaded(l, u)
  <2>1. put = place(e, u)
    BY <1>7
  <2>2. CASE put = <<0, FIRST_INDEX(e)>> /\ ahead(e, u) < TVR_SIZE
    BY <1>3, <1>4, <1>5, <2>2
  <2>3. ASSUME NEW i \in 0 .. Levels - 1, put = <<i + 1, NTH_INDEX(e, i)>>
        PROVE  put \in Slots /\ put # <<0, FIRST_INDEX(u)>> /\ Waits(put, e, u)
    <3>1. put \in Slots /\ put # <<0, FIRST_INDEX(u)>>
      BY <1>6, <2>3
    <3> QED BY <1>1, <2>1, <3>1, PlaceWaits
  <2>4. \/ put = <<0, FIRST_INDEX(e)>> /\ ahead(e, u) < TVR_SIZE
        \/ \E i \in 0 .. Levels - 1 : put = <<i + 1, NTH_INDEX(e, i)>>
    BY <1>1, <2>1, PlaceIs DEF ahead
  <2> QED BY <1>3, <1>4, <2>2, <2>3, <2>4
<1>8. CASE ~ cascaded(l, u)
  <2>1. put = l
    BY <1>8
  <2>2. CASE l = <<0, FIRST_INDEX(e)>> /\ ahead(e, t) < TVR_SIZE
    <3>1. ahead(e, u) < TVR_SIZE
      BY <1>2, <1>4, <2>2, SizesPositive DEF Pos
    <3> QED BY <1>3, <1>4, <1>5, <2>1, <2>2, <3>1
  <2>3. ASSUME NEW i \in 0 .. Levels - 1, l = <<i + 1, NTH_INDEX(e, i)>>,
               e % Span[i] < ahead(e, t)
        PROVE  put \in Slots /\ put # <<0, FIRST_INDEX(u)>> /\ Waits(put, e, u)
    <3>1. put \in Slots /\ put # <<0, FIRST_INDEX(u)>>
      BY <1>6, <2>1, <2>3
    <3>2. i \in 0 .. Levels
      BY <1>1
    <3>3. e % Span[i] \in Nat
      <4>1. Span[i] \in Pos
        BY <3>2, SpansPositive
      <4>2. e % Span[i] \in 0 .. Span[i] - 1
        BY <1>1, <4>1, ModRange
      <4> QED BY <4>1, <4>2 DEF Pos
    <3>4. ahead(e, u) # e % Span[i]
      <4> SUFFICES ASSUME ahead(e, u) = e % Span[i] PROVE FALSE
        OBVIOUS
      <4>1. u % Span[i] = 0 /\ NTH_INDEX(u, i) = NTH_INDEX(e, i)
        BY <1>1, SlotOpens
      <4>2. cascaded(l, u)
        BY <2>3, <4>1 DEF cascaded
      <4> QED BY <1>8, <4>2
    <3>5. e % Span[i] < ahead(e, u)
      BY <1>2, <1>4, <2>3, <3>3, <3>4
    <3>6. Waits(put, e, u)
      BY <2>1, <2>3, <3>5 DEF Waits
    <3> QED BY <3>1, <3>6
  <2> QED BY <1>3, <1>4, <2>2, <2>3 DEF Waits
<1> QED BY <1>3, <1>4, <1>7, <1>8

LEMMA WheelInit == TWInit => WheelInv
<1> SUFFICES ASSUME TWInit PROVE WheelInv
  OBVIOUS
<1>1. \A n \in Node : loc[n] = Free
  BY DEF TWInit
<1> QED BY <1>1, PlacesDistinct DEF TWInit, WheelInv

\* A timer is added for a tick that is still to come.
LEMMA AddedAhead ==
  ASSUME NEW t \in Ticks, NEW ticks \in Ticks,
         NEW e, e = (t + (IF ticks > 0 THEN ticks ELSE 1)) % Modulus
  PROVE  e \in Ticks /\ ahead(e, t) \in Nat \ {0}
<1> DEFINE k == IF ticks > 0 THEN ticks ELSE 1
<1>1. /\ Modulus \in Nat /\ Modulus > 1 /\ t \in Nat /\ t < Modulus
      /\ k \in Nat /\ 0 < k /\ k < Modulus
  <2>1. PICK m \in Pos : Modulus = TVR_SIZE * m
    BY FirstWheelDivides
  <2>2. TVR_SIZE <= Modulus
    BY <2>1, SizesPositive, ProductPositive
  <2>3. Modulus \in Nat /\ Modulus > 1
    BY <2>2, ModulusPositive, SizesPositive DEF Pos
  <2>4. t \in Nat /\ t < Modulus /\ ticks \in Nat /\ ticks < Modulus
    BY <2>3 DEF Ticks
  <2> QED BY <2>3, <2>4
<1>2. e = (t + k) % Modulus
  OBVIOUS
<1> HIDE DEF k
<1>3. t + k \in Int /\ e \in Ticks
  BY <1>1, <1>2, TicksAreNat
<1>4. /\ ahead(e, t) = IF t <= e THEN e - t ELSE (e - t) + Modulus
      /\ e \in Nat /\ e < Modulus
  BY <1>3, TicksAhead
<1>5. PICK q \in Int, r \in 0 .. Modulus - 1 : (t + k) % Modulus = r /\ t + k = Modulus * q + r
  BY <1>3, ModSplit, ModulusPositive
<1>6. e # t
  <2> SUFFICES ASSUME e = t PROVE FALSE
    OBVIOUS
  <2>1. k = Modulus * q
    BY <1>1, <1>2, <1>5
  <2>2. CASE q >= 1
    <3>1. Modulus * q >= Modulus
      BY <1>1, <2>2
    <3> QED BY <1>1, <2>1, <3>1
  <2>3. CASE q <= 0
    <3>1. Modulus * q <= 0
      BY <1>1, <2>3
    <3> QED BY <1>1, <2>1, <3>1
  <2> QED BY <2>2, <2>3
<1> QED BY <1>1, <1>3, <1>4, <1>6

\* Where the timers are after a tick.
LEMMA TickMoves ==
  ASSUME TWTypeOK, WheelInv, Tick, NEW n \in Node
  PROVE  /\ loc[n] \in Slots \cup {Free, InCall}
         /\ loc[n] \in {Free, InCall} => loc'[n] = loc[n]
         /\ loc[n] \in Slots =>
              /\ ahead(expire[n], currtick) > 0
              /\ ahead(expire[n], currtick') = ahead(expire[n], currtick) - 1
              /\ \/ loc'[n] = Head /\ ahead(expire[n], currtick') = 0
                 \/ loc'[n] \in Slots /\ Waits(loc'[n], expire[n], currtick')
<1> DEFINE put == [m \in Node |-> IF cascaded(loc[m], currtick')
                                   THEN place(expire[m], currtick') ELSE loc[m]]
           first == <<0, FIRST_INDEX(currtick')>>
<1>1. /\ currtick \in Ticks /\ expire[n] \in Ticks
      /\ loc[n] \in Slots \cup {Free, Head, InCall}
  BY DEF TWTypeOK
<1>2. /\ currtick' = (currtick + 1) % Modulus /\ loc[n] # Head
      /\ loc' = [m \in Node |-> IF put[m] = first THEN Head ELSE put[m]]
  BY DEF Tick, Served
<1>3. put[n] = IF cascaded(loc[n], currtick') THEN place(expire[n], currtick') ELSE loc[n]
  OBVIOUS
<1>4. loc'[n] = IF put[n] = first THEN Head ELSE put[n]
  BY <1>2
<1>5. CASE loc[n] \in {Free, InCall}
  <2>1. loc[n][1] < 0
    BY <1>5, PlacesDistinct
  <2>2. \A i \in 0 .. Levels - 1 : \A x : loc[n] = <<i + 1, x>> => loc[n][1] > 0
    BY SizesPositive DEF Pos
  <2>3. ~ cascaded(loc[n], currtick')
    BY <2>1, <2>2, <1>5, PlacesDistinct DEF cascaded
  <2>4. loc[n] # first
    BY <1>5 DEF Free, InCall
  <2>5. loc'[n] = loc[n]
    BY <1>3, <1>4, <2>3, <2>4
  <2> QED BY <1>5, <2>5, PlacesDistinct
<1>6. CASE loc[n] \in Slots
  <2>1. Waits(loc[n], expire[n], currtick)
    BY <1>6 DEF WheelInv
  <2> HIDE DEF put
  <2> DEFINE u == currtick'
             p == put[n]
             l == loc[n]
             e == expire[n]
  <2>a. /\ u = (currtick + 1) % Modulus /\ Waits(l, e, currtick)
        /\ e \in Ticks /\ currtick \in Ticks
        /\ p = IF cascaded(l, u) THEN place(e, u) ELSE l
    BY <1>1, <1>2, <1>3, <2>1
  <2>2. /\ ahead(expire[n], currtick) > 0
        /\ ahead(expire[n], currtick') = ahead(expire[n], currtick) - 1
        /\ put[n] \in Slots
        /\ put[n] = first => ahead(expire[n], currtick') = 0
        /\ put[n] # first => Waits(put[n], expire[n], currtick')
    <3> HIDE DEF u, p, l, e
    <3>1. /\ ahead(e, currtick) > 0 /\ ahead(e, u) = ahead(e, currtick) - 1
          /\ p \in Slots
          /\ p = <<0, FIRST_INDEX(u)>> => ahead(e, u) = 0
          /\ p # <<0, FIRST_INDEX(u)>> => Waits(p, e, u)
      BY <2>a, TickWaits
    <3> QED BY <3>1 DEF u, p, l, e
  <2>3. Free \notin Slots /\ InCall \notin Slots
    BY PlacesDistinct
  <2> HIDE DEF first
  <2> QED BY <1>4, <1>6, <2>2, <2>3
<1> QED BY <1>1, <1>2, <1>5, <1>6

LEMMA HeadNotSlot == Head \notin Slots /\ Head # InCall /\ Free # InCall
<1>1. Head[1] = -2 /\ InCall[1] = -3
  BY DEF Head, InCall
<1> QED BY <1>1, PlacesDistinct DEF Head

LEMMA WheelStep == TWTypeOK /\ WheelInv /\ [TWNext]_twvars => WheelInv'
<1> SUFFICES ASSUME TWTypeOK, WheelInv, [TWNext]_twvars PROVE WheelInv'
  OBVIOUS
<1>0. /\ loc \in [Node -> Slots \cup {Free, Head, InCall}] /\ expire \in [Node -> Ticks]
      /\ currtick \in Ticks /\ running \in Node \cup {NoNode}
      /\ \A n \in Node : loc[n] \in Slots => Waits(loc[n], expire[n], currtick)
      /\ running # NoNode => loc[running] = InCall
  BY DEF TWTypeOK, WheelInv
<1>1. ASSUME NEW n \in Node, NEW ticks \in Ticks, Add(n, ticks) PROVE WheelInv'
  <2> DEFINE e == (currtick + (IF ticks > 0 THEN ticks ELSE 1)) % Modulus
  <2>1. /\ expire' = [expire EXCEPT ![n] = e] /\ loc' = [loc EXCEPT ![n] = place(e, currtick)]
        /\ loc[n] = Free /\ currtick' = currtick /\ running' = running
    BY <1>1 DEF Add, time
  <2>2. e \in Ticks /\ ahead(e, currtick) # 0
    BY <1>0, AddedAhead
  <2> HIDE DEF e
  <2>3. Waits(place(e, currtick), e, currtick)
    BY <1>0, <2>2, PlaceWaits
  <2>4. /\ loc'[n] = place(e, currtick) /\ expire'[n] = e
        /\ \A m \in Node \ {n} : loc'[m] = loc[m] /\ expire'[m] = expire[m]
    BY <1>0, <2>1
  <2>5. running # n
    BY <1>0, <2>1, HeadNotSlot, TimerWheelAssumption
  <2>6. \A m \in Node : loc'[m] \in Slots => Waits(loc'[m], expire'[m], currtick')
    BY <1>0, <2>1, <2>3, <2>4
  <2>7. running' # NoNode => loc'[running'] = InCall
    BY <1>0, <2>1, <2>4, <2>5
  <2> QED BY <2>6, <2>7 DEF WheelInv
<1>2. ASSUME NEW n \in Node, Del(n) PROVE WheelInv'
  <2>1. /\ loc' = [loc EXCEPT ![n] = Free] /\ loc[n] # InCall
        /\ UNCHANGED <<currtick, expire, running>>
    BY <1>2 DEF Del, time
  <2>2. running # n
    BY <1>0, <2>1, TimerWheelAssumption
  <2> QED BY <1>0, <2>1, <2>2, PlacesDistinct DEF WheelInv
<1>3. CASE TimePasses \/ UpdateStarts \/ UpdateEnds \/ UNCHANGED twvars
  <2>1. UNCHANGED <<currtick, expire, running, loc>>
    BY <1>3 DEF TimePasses, UpdateStarts, UpdateEnds, twvars, time
  <2> QED BY <1>0, <2>1 DEF WheelInv
<1>4. CASE Tick
  <2>1. UNCHANGED <<expire, running>> /\ running = NoNode
    BY <1>4 DEF Tick, Served
  <2>2. \A n \in Node : loc'[n] \in Slots => Waits(loc'[n], expire[n], currtick')
    BY <1>4, TickMoves, HeadNotSlot, PlacesDistinct
  <2> QED BY <2>1, <2>2 DEF WheelInv
<1>5. ASSUME NEW n \in Node, CallbackStarts(n) PROVE WheelInv'
  <2>1. /\ loc' = [loc EXCEPT ![n] = InCall] /\ running' = n
        /\ UNCHANGED <<currtick, expire>>
    BY <1>5 DEF CallbackStarts, time
  <2> QED BY <1>0, <2>1, PlacesDistinct DEF WheelInv
<1>6. CASE CallbackEnds
  <2>1. /\ loc' = [loc EXCEPT ![running] = Free] /\ running' = NoNode /\ running \in Node
        /\ UNCHANGED <<currtick, expire>>
    BY <1>0, <1>6 DEF CallbackEnds, time
  <2> QED BY <1>0, <2>1, PlacesDistinct DEF WheelInv
<1>7. CASE wmTimerWheel_clear
  <2>1. /\ loc' = [n \in Node |-> IF loc[n][1] = 0 THEN Free ELSE loc[n]]
        /\ UNCHANGED <<currtick, expire, running>>
    BY <1>7 DEF wmTimerWheel_clear, time
  <2>2. \A n \in Node : loc'[n] \in Slots => loc'[n] = loc[n]
    BY <2>1, PlacesDistinct
  <2>3. running # NoNode => loc'[running] = loc[running]
    BY <1>0, <2>1, PlacesDistinct
  <2> QED BY <1>0, <2>1, <2>2, <2>3 DEF WheelInv
<1> QED BY <1>1, <1>2, <1>3, <1>4, <1>5, <1>6, <1>7 DEF TWNext, Wheel

(***************************************************************************)
(* The refinement mapping.                                                 *)
(***************************************************************************)
left(l, e, t) == IF l \in {Free, InCall} THEN -1 ELSE IF l = Head THEN 0 ELSE ahead(e, t)

LEMMA LeftIs ==
  /\ Left = [n \in Node |-> left(loc[n], expire[n], currtick)]
  /\ Left' = [n \in Node |-> left(loc'[n], expire'[n], currtick')]
BY DEF Left, left, ahead

\* What a step that changes one timer does to the mapping.
LEMMA OneMoves ==
  ASSUME NEW n \in Node, currtick' = currtick,
         \A m \in Node \ {n} : loc'[m] = loc[m] /\ expire'[m] = expire[m]
  PROVE  Left' = [Left EXCEPT ![n] = Left'[n]]
<1>1. \A m \in Node \ {n} : Left'[m] = Left[m]
  BY LeftIs
<1>2. Left = [m \in Node |-> Left[m]] /\ Left' = [m \in Node |-> Left'[m]]
  BY LeftIs
<1> HIDE DEF Left
<1>3. [Left EXCEPT ![n] = Left'[n]] = [m \in Node |-> IF m = n THEN Left'[n] ELSE Left[m]]
  BY <1>2
<1>4. [m \in Node |-> IF m = n THEN Left'[n] ELSE Left[m]] = [m \in Node |-> Left'[m]]
  BY <1>1
<1> QED BY <1>2, <1>3, <1>4

LEMMA WheelImplements ==
  TWTypeOK /\ WheelInv /\ [TWNext]_twvars => [Set!TSNext]_Left
<1> SUFFICES ASSUME TWTypeOK, WheelInv, [TWNext]_twvars PROVE [Set!TSNext]_Left
  OBVIOUS
<1>0. /\ loc \in [Node -> Slots \cup {Free, Head, InCall}] /\ expire \in [Node -> Ticks]
      /\ currtick \in Ticks /\ running \in Node \cup {NoNode}
      /\ \A n \in Node : loc[n] \in Slots => Waits(loc[n], expire[n], currtick)
      /\ running # NoNode => loc[running] = InCall
  BY DEF TWTypeOK, WheelInv
<1>a. ASSUME UNCHANGED <<loc, expire, currtick>> PROVE Left' = Left
  BY <1>a, LeftIs
<1>b. \A n \in Node : /\ Left[n] = left(loc[n], expire[n], currtick)
                      /\ Left'[n] = left(loc'[n], expire'[n], currtick')
  BY LeftIs
<1>1. ASSUME NEW n \in Node, NEW ticks \in Ticks, Add(n, ticks) PROVE [Set!TSNext]_Left
  <2> DEFINE e == (currtick + (IF ticks > 0 THEN ticks ELSE 1)) % Modulus
  <2>1. /\ expire' = [expire EXCEPT ![n] = e] /\ loc' = [loc EXCEPT ![n] = place(e, currtick)]
        /\ loc[n] = Free /\ currtick' = currtick
    BY <1>1 DEF Add, time
  <2>2. e \in Ticks /\ ahead(e, currtick) \in Nat \ {0}
    BY <1>0, AddedAhead
  <2> HIDE DEF e
  <2>3. place(e, currtick) \in Slots
    BY <1>0, <2>2, TicksAreNat, EveryTimerHasASlot
  <2>4. Left[n] = -1 /\ Left'[n] = ahead(e, currtick)
    BY <1>0, <1>b, <2>1, <2>3, PlacesDistinct, HeadNotSlot DEF left
  <2>5. Left' = [Left EXCEPT ![n] = Left'[n]]
    BY <1>0, <2>1, OneMoves
  <2>6. Set!Arm(n)
    BY <2>2, <2>4, <2>5 DEF Set!Arm, Set!Unset
  <2> QED BY <2>6 DEF Set!TSNext
<1>2. ASSUME NEW n \in Node, Del(n) PROVE [Set!TSNext]_Left
  <2>1. /\ loc' = [loc EXCEPT ![n] = Free] /\ loc[n] \notin {Free, InCall}
        /\ UNCHANGED <<currtick, expire>>
    BY <1>2 DEF Del, time
  <2>2. Left[n] # -1 /\ Left'[n] = -1
    <3>1. loc[n] \in Slots => ahead(expire[n], currtick) \in 0 .. Modulus - 1
      BY <1>0, TicksAhead
    <3> QED BY <1>0, <1>b, <2>1, <3>1, PlacesDistinct DEF left
  <2>3. \A m \in Node \ {n} : Left'[m] = Left[m]
    BY <1>0, <1>b, <2>1
  <2>4. Left' = [m \in Node |-> IF m \in {n} THEN -1 ELSE Left[m]]
    BY <1>b, <2>2, <2>3, LeftIs
  <2>5. Set!Cancel({n})
    BY <2>2, <2>4 DEF Set!Cancel, Set!Unset
  <2> QED BY <2>5 DEF Set!TSNext
<1>3. CASE TimePasses \/ UpdateStarts \/ UpdateEnds \/ UNCHANGED twvars
  <2>1. UNCHANGED <<currtick, expire, loc>>
    BY <1>3 DEF TimePasses, UpdateStarts, UpdateEnds, twvars, time
  <2> QED BY <1>a, <2>1
<1>4. CASE Tick
  <2>1. expire' = expire
    BY <1>4 DEF Tick
  <2>2. ASSUME NEW n \in Node
        PROVE  Left[n] # 0 /\ Left'[n] = IF Left[n] = -1 THEN -1 ELSE Left[n] - 1
    <3>1. CASE loc[n] \in {Free, InCall}
      <4>1. loc'[n] = loc[n]
        BY <1>4, <3>1, TickMoves
      <4> QED BY <1>b, <3>1, <4>1 DEF left
    <3>2. CASE loc[n] \in Slots
      <4>1. /\ ahead(expire[n], currtick) > 0
            /\ ahead(expire[n], currtick') = ahead(expire[n], currtick) - 1
            /\ \/ loc'[n] = Head /\ ahead(expire[n], currtick') = 0
               \/ loc'[n] \in Slots
        BY <1>4, <3>2, TickMoves
      <4>2. ahead(expire[n], currtick) \in 0 .. Modulus - 1
        BY <1>0, TicksAhead
      <4>3. Left[n] = ahead(expire[n], currtick)
        BY <1>b, <3>2, PlacesDistinct, HeadNotSlot DEF left
      <4>4. Left'[n] = ahead(expire[n], currtick')
        BY <1>b, <2>1, <4>1, PlacesDistinct, HeadNotSlot DEF left
      <4> QED BY <4>1, <4>2, <4>3, <4>4
    <3> QED BY <1>4, <3>1, <3>2, TickMoves
  <2>3. Left' = [n \in Node |-> IF Left[n] = -1 THEN -1 ELSE Left[n] - 1]
    BY <2>2, LeftIs
  <2>4. Set!Elapse
    BY <2>2, <2>3 DEF Set!Elapse, Set!Unset
  <2> QED BY <2>4 DEF Set!TSNext
<1>5. ASSUME NEW n \in Node, CallbackStarts(n) PROVE [Set!TSNext]_Left
  <2>1. /\ loc' = [loc EXCEPT ![n] = InCall] /\ loc[n] = Head
        /\ UNCHANGED <<currtick, expire>>
    BY <1>5 DEF CallbackStarts, time
  <2>2. Left[n] = 0 /\ Left'[n] = -1
    BY <1>0, <1>b, <2>1, PlacesDistinct, HeadNotSlot DEF left
  <2>3. Left' = [Left EXCEPT ![n] = Left'[n]]
    BY <1>0, <2>1, OneMoves
  <2>4. Set!Expire(n)
    BY <2>2, <2>3 DEF Set!Expire, Set!Unset
  <2> QED BY <2>4 DEF Set!TSNext
<1>6. CASE CallbackEnds
  <2>1. /\ loc' = [loc EXCEPT ![running] = Free] /\ running \in Node /\ loc[running] = InCall
        /\ UNCHANGED <<currtick, expire>>
    BY <1>0, <1>6 DEF CallbackEnds, time
  <2>2. \A n \in Node : left(loc'[n], expire[n], currtick) = left(loc[n], expire[n], currtick)
    BY <1>0, <2>1 DEF left
  <2>3. Left' = Left
    BY <2>1, <2>2, LeftIs
  <2> QED BY <2>3
<1>7. CASE wmTimerWheel_clear
  <2> DEFINE S == {n \in Node : loc[n][1] = 0}
  <2>1. /\ loc' = [n \in Node |-> IF loc[n][1] = 0 THEN Free ELSE loc[n]]
        /\ UNCHANGED <<currtick, expire>>
    BY <1>7 DEF wmTimerWheel_clear, time
  <2>2. ASSUME NEW n \in S PROVE Left[n] # -1
    <3>1. loc[n] \notin {Free, InCall, Head}
      BY DEF Free, InCall, Head
    <3>2. ahead(expire[n], currtick) \in 0 .. Modulus - 1
      BY <1>0, TicksAhead
    <3> QED BY <1>b, <3>1, <3>2 DEF left
  <2>3. \A n \in Node : Left'[n] = IF n \in S THEN -1 ELSE Left[n]
    BY <1>b, <2>1 DEF left
  <2> HIDE DEF S
  <2>4. Left' = [n \in Node |-> IF n \in S THEN -1 ELSE Left[n]]
    BY <2>3, LeftIs
  <2>5. S \in SUBSET Node
    BY DEF S
  <2>6. Set!Cancel(S)
    BY <2>2, <2>4, <2>5 DEF Set!Cancel, Set!Unset
  <2> QED BY <2>5, <2>6 DEF Set!TSNext
<1> QED BY <1>1, <1>2, <1>3, <1>4, <1>5, <1>6, <1>7 DEF TWNext, Wheel

\* src/src/core/timer.c: however timers are set, deleted and moved from wheel to wheel, also
\* by the callbacks of others, and when the ticks wrap around, each fires when exactly the
\* ticks it was set to have gone by, and no tick goes by while one is due.
THEOREM FiresOnTime == TWSpec => FiresAtItsTick
<1>1. TWInit => Set!TSInit
  <2> SUFFICES ASSUME TWInit PROVE Set!TSInit
    OBVIOUS
  <2>1. \A n \in Node : left(loc[n], expire[n], currtick) = -1
    BY DEF TWInit, left
  <2> QED BY <2>1, LeftIs DEF Set!TSInit, Set!Unset
<1>2. TWSpec => []WheelInv
  <2>1. IInv /\ WheelInv /\ [TWNext]_twvars => WheelInv'
    BY WheelStep DEF IInv
  <2> QED BY <2>1, WheelInit, SpecIInv, PTL DEF TWSpec
<1>3. IInv /\ WheelInv /\ [TWNext]_twvars => [Set!TSNext]_Left
  BY WheelImplements DEF IInv
<1> QED BY <1>1, <1>2, <1>3, SpecIInv, PTL DEF TWSpec, FiresAtItsTick, Set!TSSpec
===============================================================================
