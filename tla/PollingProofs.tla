--------------------------- MODULE PollingProofs ----------------------------
(***************************************************************************)
(* Proofs about the poll loop and its token, for any lengths of the day,   *)
(* the interval, the work and the waits, and any steps of the wall clock   *)
(* within MaxSkew.  That no tick outlives its token follows from two       *)
(* things a single step does not show: a token is never dated later than   *)
(* its request by more than an authentication and a step of the clock      *)
(* (Dated), and the decision of Refresh bounds the true age during the     *)
(* tick (Fresh).  When the ticks are follows from what a tick and what     *)
(* comes after it may take at most (DInv), how far apart they are from     *)
(* where the clock is when the next is asked for (Spaced).                 *)
(***************************************************************************)
EXTENDS Polling, SequenceTheorems, TLAPS

Past == 0 <= clock + skew

Dated == acquired <= born + MaxAuth + MaxSkew /\ born <= clock

Connected == pc \in {"sample", "refresh", "poll", "sleep"} => smart /\ acquired # NoToken

Ticking == pc \in {"refresh", "poll", "sleep"} => ticks # <<>> /\ t0 <= clock

Fresh ==
    /\ pc = "poll" => clock - born < Threshold + MaxAuth + 2 * MaxSkew
    /\ pc = "sleep" => clock - born < Lifetime

IInv == TypeOK /\ Past /\ Dated /\ Connected /\ Ticking /\ Fresh

Ticks == [wall : Int, at : Nat, skew : Int, took : Nat]

\* The bounds are numbers.
LEMMA Bounds ==
    /\ DayLen \in Nat \ {0} /\ Threshold \in Nat \ {0} /\ Lifetime \in Nat \ {0}
    /\ MaxWork \in Nat /\ MaxAuth \in Nat /\ MaxLate \in Nat /\ MaxSkew \in Nat
    /\ Interval \in Nat \ {0} /\ Starts \subseteq Nat
    /\ Threshold + MaxWork + MaxAuth + 2 * MaxSkew <= Lifetime
  BY PollingAssumption, SMT

\* The times are numbers, the skew is within its bound.
LEMMA Numbers ==
    TypeOK => /\ clock \in Nat /\ t0 \in Nat /\ acquired \in Int /\ born \in Int
              /\ skew \in Int /\ -MaxSkew <= skew /\ skew <= MaxSkew
<1> SUFFICES ASSUME TypeOK
             PROVE  skew \in Int /\ -MaxSkew <= skew /\ skew <= MaxSkew
  BY DEF TypeOK
<1>1. skew \in -MaxSkew..MaxSkew
  BY DEF TypeOK
<1> QED
  BY <1>1, Bounds, SMT

LEMMA InitIInv == Init => IInv
<1> SUFFICES ASSUME Init PROVE IInv
  OBVIOUS
<1>1. clock \in Nat /\ 0 \in -MaxSkew..MaxSkew /\ 1 \in 1..2 /\ NoToken \in Int
  BY Bounds, SMT DEF Init, NoToken
<1>2. TypeOK
  <2>1. <<>> \in Seq([wall : Int, at : Nat, skew : Int, took : Nat]) /\ 0 \in Nat
    BY EmptySeq
  <2> QED
    BY <1>1, <2>1 DEF Init, TypeOK
<1>3. skew = 0 /\ acquired = NoToken /\ born = NoToken
  BY DEF Init
<1>4. Past /\ Dated
  BY <1>1, <1>3, Bounds, SMT DEF Past, Dated, NoToken
<1> QED
  BY <1>2, <1>4 DEF Init, IInv, Connected, Ticking, Fresh

\* Time passes, and a token is dated by the wall clock of its answer.
LEMMA Waits ==
    ASSUME TypeOK, NEW lo \in Nat, NEW hi \in Nat, Later(lo..hi)
    PROVE  clock' \in Nat /\ clock + lo <= clock' /\ clock' <= clock + hi
  BY SMT DEF TypeOK, Later

LEMMA Authenticates ==
    ASSUME TypeOK, Past, Dated, Authenticated, UNCHANGED skew
    PROVE  /\ clock' \in Nat /\ clock <= clock' /\ clock' <= clock + MaxAuth
           /\ smart' /\ acquired' \in Int /\ born' \in Int
           /\ Past' /\ Dated' /\ acquired' # NoToken
           /\ clock' - born' <= MaxAuth
<1>1. clock' \in Nat /\ clock <= clock' /\ clock' <= clock + MaxAuth
  BY Bounds, Waits, SMT DEF Authenticated, TypeOK
<1>2. smart' /\ acquired' = clock' + skew /\ born' = clock /\ skew' = skew
  BY DEF Authenticated
<1>3. /\ acquired' \in Int /\ born' \in Int /\ Past' /\ Dated' /\ acquired' # NoToken
      /\ clock' - born' <= MaxAuth
  BY <1>1, <1>2, Bounds, Numbers, SMT DEF Past, Dated, NoToken
<1> QED
  BY <1>1, <1>2, <1>3

LEMMA FailsToAuthenticate ==
    ASSUME TypeOK, Past, Dated, UNCHANGED skew, NEW made \in BOOLEAN, AuthFails(made)
    PROVE  /\ clock' \in Nat /\ clock <= clock'
           /\ smart' \in BOOLEAN /\ UNCHANGED <<acquired, born>>
           /\ Past' /\ Dated'
<1>1. clock' \in Nat /\ clock <= clock'
  BY Bounds, Waits, SMT DEF AuthFails, TypeOK
<1>2. smart' \in BOOLEAN /\ acquired' = acquired /\ born' = born /\ skew' = skew
  BY DEF AuthFails, TypeOK
<1>3. Past' /\ Dated'
  BY <1>1, <1>2, Bounds, Numbers, SMT DEF Past, Dated
<1> QED
  BY <1>1, <1>2, <1>3

-----------------------------------------------------------------------------
(***************************************************************************)
(* IInv is inductive, one step per step of the loop.                       *)
(***************************************************************************)
LEMMA StepIInv == IInv /\ [Next]_vars => IInv'
<1> SUFFICES ASSUME IInv, [Next]_vars PROVE IInv'
  OBVIOUS
<1> USE DEF IInv
<1>1. CASE Connect
  <2>1. UNCHANGED <<skew, t0, ticks>>
    BY <1>1 DEF Connect
  <2>2. CASE Authenticated /\ pc' = "sample" /\ UNCHANGED attempt
    BY <2>1, <2>2, Authenticates DEF TypeOK, Connected, Ticking, Fresh
  <2>3. ASSUME NEW made \in BOOLEAN, AuthFails(made), pc' \in {"connect", "aborted"},
               attempt' \in 1..2
        PROVE  IInv'
    BY <2>1, <2>3, FailsToAuthenticate DEF TypeOK, Connected, Ticking, Fresh
  <2>4. 2 \in 1..2
    BY SMT
  <2> QED
    BY <1>1, <2>2, <2>3, <2>4 DEF Connect, TypeOK
<1>2. CASE Sample
  <2>1. UNCHANGED <<skew, attempt, smart, acquired, born>> /\ pc = "sample"
    BY <1>2 DEF Sample
  <2>2. CASE /\ t0' = clock /\ pc' = "refresh" /\ UNCHANGED clock
             /\ ticks' = Append(ticks, [wall |-> Wall, at |-> clock, skew |-> skew, took |-> 0])
    <3>1. [wall |-> Wall, at |-> clock, skew |-> skew, took |-> 0]
             \in [wall : Int, at : Nat, skew : Int, took : Nat]
      BY Bounds, SMT DEF TypeOK, Wall
    <3>2. ticks' \in Seq([wall : Int, at : Nat, skew : Int, took : Nat]) /\ ticks' # <<>>
      BY <2>2, <3>1, SMT DEF TypeOK
    <3>3. t0' <= clock'
      BY <2>2, SMT DEF TypeOK
    <3> QED
      BY <2>1, <2>2, <3>2, <3>3 DEF TypeOK, Past, Dated, Connected, Ticking, Fresh
  <2>3. CASE pc' = "done" /\ UNCHANGED <<clock, t0, ticks>>
    BY <2>1, <2>3 DEF TypeOK, Past, Dated, Connected, Ticking, Fresh
  <2>4. CASE Later(1..(1 + MaxLate)) /\ UNCHANGED <<pc, t0, ticks>>
    <3>1. clock' \in Nat /\ clock <= clock'
      BY <2>4, Bounds, Waits, SMT DEF TypeOK
    <3>2. Past' /\ Dated'
      <4>1. skew' = skew /\ acquired' = acquired /\ born' = born
        BY <2>1
      <4> QED
        BY <3>1, <4>1, Bounds, Numbers, SMT DEF Past, Dated
    <3> QED
      BY <2>1, <2>4, <3>1, <3>2 DEF TypeOK, Connected, Ticking, Fresh
  <2> QED
    BY <1>2, <2>2, <2>3, <2>4 DEF Sample
<1>3. CASE Refresh
  <2>1. UNCHANGED <<skew, attempt, t0, ticks>> /\ pc = "refresh"
    BY <1>3 DEF Refresh
  <2>2. CASE ~NeedsRefresh /\ pc' = "poll" /\ UNCHANGED <<clock, smart, acquired, born>>
    <3>1. clock - born < Threshold + MaxAuth + 2 * MaxSkew
      BY <2>2, Bounds, SMT DEF TypeOK, Dated, NeedsRefresh, Wall
    <3> QED
      BY <2>1, <2>2, <3>1 DEF TypeOK, Past, Dated, Connected, Ticking, Fresh
  <2>3. CASE Authenticated /\ pc' = "poll"
    <3>1. /\ clock' \in Nat /\ clock <= clock' /\ smart' /\ acquired' \in Int /\ born' \in Int
          /\ Past' /\ Dated' /\ acquired' # NoToken /\ clock' - born' <= MaxAuth
      BY <2>1, <2>3, Authenticates
    <3>2. clock' - born' < Threshold + MaxAuth + 2 * MaxSkew /\ t0' <= clock'
      <4>1. t0 <= clock /\ t0' = t0
        BY <2>1 DEF Ticking
      <4>2. clock' \in Nat /\ clock <= clock' /\ born' \in Int /\ clock' - born' <= MaxAuth
        BY <3>1
      <4>3. clock \in Nat /\ t0 \in Nat
        BY DEF TypeOK
      <4>4. MaxAuth < Threshold + MaxAuth + 2 * MaxSkew
        BY Bounds, SMT
      <4>5. \A x \in Int : x <= MaxAuth => x < Threshold + MaxAuth + 2 * MaxSkew
        BY <4>4, Bounds, SMT
      <4>6. clock' - born' \in Int
        BY <4>2, SMT
      <4>7. t0' <= clock'
        BY <4>1, <4>2, <4>3, SMT
      <4> QED
        BY <4>2, <4>5, <4>6, <4>7
    <3> QED
      BY <2>1, <2>3, <3>1, <3>2 DEF TypeOK, Connected, Ticking, Fresh
  <2>4. CASE AuthFails(TRUE) /\ pc' = "aborted"
    BY <2>1, <2>4, FailsToAuthenticate DEF TypeOK, Connected, Ticking, Fresh
  <2> QED
    BY <1>3, <2>2, <2>3, <2>4 DEF Refresh
<1>4. CASE Poll
  <2>1. /\ UNCHANGED <<skew, attempt, smart, acquired, born, t0>>
        /\ pc = "poll" /\ pc' \in {"sleep", "aborted"} /\ Later(0..MaxWork)
        /\ ticks' = [ticks EXCEPT ![Len(ticks)].took = clock' - t0]
    BY <1>4 DEF Poll
  <2>2. clock' \in Nat /\ clock <= clock' /\ clock' <= clock + MaxWork
    <3>1. Later(0..MaxWork)
      BY <2>1
    <3> QED
      BY <3>1, Bounds, Waits, Numbers, SMT
  <2>3. ticks # <<>> /\ t0 <= clock
    BY <2>1 DEF Ticking
  <2>4. t0' <= clock' /\ clock' - t0 \in Nat
    <3>1. t0' = t0
      BY <2>1
    <3> QED
      BY <2>2, <2>3, <3>1, Numbers, SMT
  <2>5. Past' /\ Dated' /\ Fresh'
    <3>1. /\ skew' = skew /\ acquired' = acquired /\ born' = born /\ pc' # "poll"
          /\ clock - born < Threshold + MaxAuth + 2 * MaxSkew
      BY <2>1 DEF Fresh
    <3> QED
      BY <2>2, <3>1, Bounds, Numbers, SMT DEF Past, Dated, Fresh
  <2>6. ticks' \in Seq([wall : Int, at : Nat, skew : Int, took : Nat]) /\ ticks' # <<>>
    <3>1. Len(ticks) \in 1..Len(ticks) /\ Len(ticks) \in Nat
      BY <2>3, SMT DEF TypeOK
    <3>2. ticks[Len(ticks)] \in [wall : Int, at : Nat, skew : Int, took : Nat]
      BY <3>1, ElementOfSeq DEF TypeOK
    <3>3. [ticks[Len(ticks)] EXCEPT !.took = clock' - t0]
             \in [wall : Int, at : Nat, skew : Int, took : Nat]
      BY <2>4, <3>2
    <3>4. ticks' = [ticks EXCEPT ![Len(ticks)] = [ticks[Len(ticks)] EXCEPT !.took = clock' - t0]]
      BY <2>1
    <3> PICK tick : tick = [ticks[Len(ticks)] EXCEPT !.took = clock' - t0]
      OBVIOUS
    <3>7. /\ tick \in Ticks /\ ticks' = [ticks EXCEPT ![Len(ticks)] = tick]
          /\ ticks \in Seq(Ticks)
      BY <3>3, <3>4 DEF TypeOK, Ticks
    <3>5. ticks' \in Seq([wall : Int, at : Nat, skew : Int, took : Nat])
      <4>1. ticks' \in Seq(Ticks)
        BY <3>1, <3>7, ExceptSeq
      <4> QED
        BY <4>1 DEF Ticks
    <3>6. Len(ticks') = Len(ticks)
      BY <3>1, <3>7, ExceptSeq
    <3> QED
      BY <3>1, <3>5, <3>6, EmptySeq
  <2> QED
    BY <2>1, <2>2, <2>4, <2>5, <2>6 DEF TypeOK, Connected, Ticking
<1>5. CASE Sleep
  <2>1. UNCHANGED <<skew, attempt, smart, acquired, born, t0, ticks>> /\ pc = "sleep" /\ pc' = "sample"
    BY <1>5 DEF Sleep
  <2>2. clock' \in Nat /\ clock <= clock'
    BY <1>5, <2>1, Bounds, SMT DEF Sleep, TypeOK, Ticking, Later
  <2>3. Past' /\ Dated'
    <3>1. skew' = skew /\ acquired' = acquired /\ born' = born
      BY <2>1
    <3> QED
      BY <2>2, <3>1, Bounds, Numbers, SMT DEF Past, Dated
  <2> QED
    BY <2>1, <2>2, <2>3 DEF TypeOK, Connected, Ticking, Fresh
<1>6. CASE StepWall
  <2>1. /\ UNCHANGED <<clock, pc, attempt, smart, acquired, born, t0, ticks>>
        /\ skew' \in -MaxSkew..MaxSkew /\ clock + skew' >= 0
    BY <1>6 DEF StepWall
  <2>2. Past'
    <3>1. skew' \in Int /\ clock' = clock /\ clock + skew' >= 0
      BY <2>1, Bounds, SMT
    <3> QED
      BY <3>1, Numbers, SMT DEF Past
  <2> QED
    BY <2>1, <2>2 DEF TypeOK, Dated, Connected, Ticking, Fresh
<1>7. CASE UNCHANGED vars
  BY <1>7 DEF vars, TypeOK, Past, Dated, Connected, Ticking, Fresh
<1> QED
  BY <1>1, <1>2, <1>3, <1>4, <1>5, <1>6, <1>7 DEF Next, Program

\* IInv holds of every state of the loop.
THEOREM Invariance == Spec => []IInv
  BY InitIInv, StepIInv, PTL DEF Spec

-----------------------------------------------------------------------------
(***************************************************************************)
(* The variables of the scheduler and the session keep their types; a tick *)
(* takes no negative time, whatever is done to the wall clock.             *)
(***************************************************************************)
THEOREM TypeCorrect == Spec => []TypeOK
<1>1. IInv => TypeOK
  BY DEF IInv
<1> QED
  BY <1>1, Invariance, PTL

(***************************************************************************)
(* No tick is made with a token the broker has stopped accepting, if the   *)
(* refresh threshold leaves room for one tick, one authentication and a    *)
(* step of the wall clock there and back (PollingAssumption).              *)
(***************************************************************************)
THEOREM TicksAuthenticated == Spec => []TokenOutlivesTick
<1>1. IInv => TokenOutlivesTick
  BY Bounds, SMT DEF IInv, TypeOK, Fresh, TokenOutlivesTick
<1> QED
  BY <1>1, Invariance, PTL

(***************************************************************************)
(* A session that was connected stays so through every failed refresh.     *)
(***************************************************************************)
THEOREM SessionKept == Spec => TokenKept
<1>1. IInv /\ [Next]_vars => (acquired # NoToken => acquired' # NoToken)
  <2> SUFFICES ASSUME IInv, [Next]_vars, acquired # NoToken, acquired' = NoToken PROVE FALSE
    OBVIOUS
  <2>1. ~(Authenticated /\ UNCHANGED skew)
    BY Authenticates DEF IInv
  <2> QED
    BY <2>1 DEF Next, Program, Connect, Sample, Refresh, Poll, Sleep, StepWall, AuthFails, vars
<1>2. IInv' => (pc' = "poll" => smart' /\ acquired' # NoToken)
  BY DEF IInv, Connected
<1>3. IInv /\ IInv' /\ [Next]_vars =>
        [/\ acquired # NoToken => acquired' # NoToken
         /\ pc' = "poll" => smart' /\ acquired' # NoToken]_<<acquired, pc>>
  BY <1>1, <1>2
<1> QED
  BY <1>3, Invariance, PTL DEF Spec, TokenKept

-----------------------------------------------------------------------------
(***************************************************************************)
(* When the ticks are.  Every tick keeps the time it was begun at, and the *)
(* steps after it stay within the time they may take (Paced); so the next  *)
(* one is asked for before the day of the ticks is over, and not before    *)
(* the opening by more than the wall clock was stepped back (OneDay,       *)
(* BeforeNight).                                                           *)
(***************************************************************************)
Stamped == \A i \in DOMAIN ticks : ticks[i].wall = ticks[i].at + ticks[i].skew

Began == ticks # <<>> => ticks[Len(ticks)].at = t0

Paced == /\ pc = "connect" => ticks = <<>>
         /\ pc = "refresh" => clock = t0
         /\ pc = "poll" => clock <= t0 + MaxAuth
         /\ pc = "sleep" => clock <= t0 + MaxAuth + MaxWork
         /\ pc = "sample" /\ ticks # <<>> => t0 <= clock

\* The first moment of the day of the ticks.
Dawn == Day(ticks[1].wall) * DayLen

OneDay ==
    ticks # <<>> =>
        /\ \A i \in DOMAIN ticks : /\ IsMarketOpen(ticks[i].wall)
                                   /\ Day(ticks[i].wall) = Day(ticks[1].wall)
        /\ Dawn + OpenAt - MaxSkew <= t0 /\ t0 < Dawn + CloseAt + MaxSkew

BeforeNight == pc = "sample" /\ ticks # <<>> => clock + MaxSkew < Dawn + DayLen

\* How the next tick is spaced from the last one, while it is waited for.
Spaced ==
    /\ pc = "sleep" => ticks[Len(ticks)].took = clock - t0
    /\ pc = "sample" /\ ticks # <<>> =>
          LET took == ticks[Len(ticks)].took
          IN  IF took >= Interval THEN clock = t0 + took
                                  ELSE t0 + Interval <= clock /\ clock <= t0 + Interval + MaxLate

DInv == Stamped /\ Began /\ Paced /\ OneDay /\ BeforeNight
CInv == Spaced /\ Cadence

\* The lengths of the day's parts, and that what a tick takes fits into the night.
LEMMA Lengths ==
    /\ OpenAt \in Nat /\ CloseAt \in Nat /\ OpenAt < CloseAt
    /\ CloseAt + Interval + MaxWork + MaxAuth + MaxLate + 2 * MaxSkew <= DayLen
  BY PollingAssumption, SMT

LEMMA Multiples ==
    ASSUME NEW a \in Int, NEW b \in Int, a < b
    PROVE  a * DayLen + DayLen <= b * DayLen /\ a * DayLen \in Int /\ b * DayLen \in Int
<1>1. PICK c \in Nat : b = (a + 1) + c
  <2>1. b - (a + 1) \in Nat /\ b = (a + 1) + (b - (a + 1))
    BY SMT
  <2> QED
    BY <2>1
<1>2. c * DayLen \in Nat /\ a * DayLen \in Int
  BY Bounds, SMT
<1>3. b * DayLen = a * DayLen + DayLen + c * DayLen
  BY <1>1, Bounds, SMT
<1> QED
  BY <1>2, <1>3, Bounds, SMT

LEMMA Division ==
    ASSUME NEW w \in Int
    PROVE  /\ Day(w) \in Int /\ Minute(w) \in Int /\ 0 <= Minute(w) /\ Minute(w) < DayLen
           /\ w = Day(w) * DayLen + Minute(w) /\ Day(w) * DayLen \in Int
  BY Bounds, SMT DEF Day, Minute

\* A time within a day of the start of day q is on day q.
LEMMA DayIs ==
    ASSUME NEW w \in Int, NEW q \in Int, q * DayLen <= w, w < q * DayLen + DayLen
    PROVE  Day(w) = q /\ Minute(w) = w - q * DayLen
<1>1. /\ Day(w) \in Int /\ Minute(w) \in Int /\ 0 <= Minute(w) /\ Minute(w) < DayLen
      /\ w = Day(w) * DayLen + Minute(w) /\ Day(w) * DayLen \in Int /\ q * DayLen \in Int
  <2>1. q * DayLen \in Int
    BY Bounds, SMT
  <2> QED
    BY <2>1, Division
<1>2. ~(q < Day(w))
  <2>1. q < Day(w) => q * DayLen + DayLen <= Day(w) * DayLen
    BY <1>1, Multiples
  <2> QED
    BY <1>1, <2>1, Bounds, SMT
<1>3. ~(Day(w) < q)
  <2>1. Day(w) < q => Day(w) * DayLen + DayLen <= q * DayLen
    BY <1>1, Multiples
  <2> QED
    BY <1>1, <2>1, Bounds, SMT
<1>4. Day(w) = q
  BY <1>1, <1>2, <1>3, SMT
<1> QED
  BY <1>1, <1>4, SMT

\* Where an open market is in the day.
LEMMA Hours ==
    ASSUME NEW w \in Int, IsMarketOpen(w)
    PROVE  /\ Day(w) \in Int /\ Day(w) * DayLen \in Int
           /\ Day(w) * DayLen + OpenAt <= w /\ w < Day(w) * DayLen + CloseAt
<1>1. OpenAt <= Minute(w) /\ Minute(w) < CloseAt
  BY DEF IsMarketOpen
<1>2. /\ Day(w) \in Int /\ Minute(w) \in Int
      /\ w = Day(w) * DayLen + Minute(w) /\ Day(w) * DayLen \in Int
  BY Division
<1> QED
  BY <1>1, <1>2, Lengths, SMT

\* The first moment of the ticks' day is a number.
LEMMA DawnIs ==
    ASSUME TypeOK, ticks # <<>>
    PROVE  /\ ticks[1].wall \in Int /\ Day(ticks[1].wall) \in Int /\ Dawn \in Int
           /\ Dawn = Day(ticks[1].wall) * DayLen
           /\ Len(ticks) \in 1..Len(ticks) /\ 1 \in 1..Len(ticks) /\ Len(ticks) \in Nat
           /\ DOMAIN ticks = 1..Len(ticks)
           /\ \A i \in DOMAIN ticks : ticks[i] \in Ticks
<1>1. /\ Len(ticks) \in 1..Len(ticks) /\ 1 \in 1..Len(ticks) /\ Len(ticks) \in Nat
      /\ DOMAIN ticks = 1..Len(ticks)
  BY SMT DEF TypeOK
<1>2. \A i \in DOMAIN ticks : ticks[i] \in Ticks
  BY <1>1, ElementOfSeq DEF TypeOK, Ticks
<1>3. ticks[1].wall \in Int
  BY <1>1, <1>2 DEF Ticks
<1> QED
  BY <1>1, <1>2, <1>3, Division DEF Dawn

(***************************************************************************)
(* When a later tick is asked for it is the same day by the wall clock, or *)
(* the evening before, when the market is closed for the day.              *)
(***************************************************************************)
LEMMA Asked ==
    ASSUME IInv, DInv, pc = "sample", ticks # <<>>
    PROVE  /\ IsMarketOpen(Wall) => Day(Wall) = Day(ticks[1].wall)
           /\ ~IsMarketOpen(Wall) /\ ~MarketClosedForDay(Wall) => Wall < Dawn + OpenAt
<1> DEFINE q == Day(ticks[1].wall)
<1>1. /\ q \in Int /\ Dawn \in Int /\ Dawn = q * DayLen /\ Wall \in Int
      /\ Wall = clock + skew /\ clock \in Nat /\ skew \in Int /\ -MaxSkew <= skew /\ skew <= MaxSkew
      /\ t0 \in Nat
  <2>1. clock \in Nat /\ skew \in Int
    BY Numbers DEF IInv
  <2>2. clock + skew \in Int
    BY <2>1, SMT
  <2> QED
    BY <2>1, <2>2, DawnIs, Numbers DEF IInv, Wall
<1>2. /\ Dawn + OpenAt - MaxSkew <= t0 /\ t0 <= clock /\ clock + MaxSkew < Dawn + DayLen
  BY DEF DInv, OneDay, BeforeNight, Paced
<1> HIDE DEF q
<1>3. Dawn + OpenAt - 2 * MaxSkew <= Wall /\ Wall < Dawn + DayLen
  BY <1>1, <1>2, Bounds, Lengths, SMT
<1>4. CASE Dawn <= Wall
  <2>1. Day(Wall) = q /\ Minute(Wall) = Wall - Dawn
    BY <1>1, <1>3, <1>4, DayIs
  <2>2. ~IsMarketOpen(Wall) /\ ~MarketClosedForDay(Wall) => ~(OpenAt <= Minute(Wall))
    <3>1. ~(Minute(Wall) >= CloseAt) => Minute(Wall) < CloseAt
      <4>1. Minute(Wall) \in Int
        BY <1>1, Division
      <4> QED
        BY <4>1, Lengths, SMT
    <3> QED
      BY <3>1 DEF IsMarketOpen, MarketClosedForDay
  <2>3. ~(OpenAt <= Wall - Dawn) => Wall < Dawn + OpenAt
    BY <1>1, Lengths, SMT
  <2> QED
    BY <2>1, <2>2, <2>3 DEF q
<1>5. CASE Wall < Dawn
  <2>1. (q - 1) * DayLen = Dawn - DayLen /\ q - 1 \in Int
    BY <1>1, Bounds, SMT
  <2>2. Dawn - DayLen <= Wall /\ Wall < (Dawn - DayLen) + DayLen
    BY <1>1, <1>3, <1>5, Bounds, Lengths, SMT
  <2>3. Minute(Wall) = Wall - (Dawn - DayLen)
    BY <1>1, <2>1, <2>2, DayIs
  <2>4. Wall - (Dawn - DayLen) >= CloseAt /\ ~(Wall - (Dawn - DayLen) < CloseAt)
    BY <1>1, <1>3, Bounds, Lengths, SMT
  <2>5. ~IsMarketOpen(Wall) /\ MarketClosedForDay(Wall)
    BY <2>3, <2>4 DEF IsMarketOpen, MarketClosedForDay
  <2> QED
    BY <2>5
<1> QED
  BY <1>1, <1>4, <1>5, SMT

-----------------------------------------------------------------------------
LEMMA InitDInv == Init => DInv /\ CInv
<1> SUFFICES ASSUME Init PROVE DInv /\ CInv
  OBVIOUS
<1>1. ticks = <<>> /\ pc = "connect"
  BY DEF Init
<1>2. DOMAIN ticks = {} /\ Len(ticks) = 0
  BY <1>1, EmptySeq
<1>3. 2..0 = {}
  BY SMT
<1> QED
  BY <1>1, <1>2, <1>3
     DEF DInv, CInv, Stamped, Began, Paced, OneDay, BeforeNight, Spaced, Cadence

\* A step that begins no tick, and changes of one only how long it took.
SameTicks ==
    /\ t0' = t0 /\ DOMAIN ticks' = DOMAIN ticks /\ Len(ticks') = Len(ticks)
    /\ ticks' # <<>> => ticks # <<>>
    /\ \A i \in DOMAIN ticks : /\ ticks'[i].wall = ticks[i].wall /\ ticks'[i].at = ticks[i].at
                               /\ ticks'[i].skew = ticks[i].skew

LEMMA SameTicksKeep ==
    ASSUME IInv, DInv, SameTicks
    PROVE  /\ Stamped' /\ Began' /\ OneDay'
           /\ ticks' # <<>> => Dawn' = Dawn
<1>1. ASSUME ticks' # <<>>
      PROVE  /\ ticks # <<>> /\ Len(ticks) \in DOMAIN ticks /\ 1 \in DOMAIN ticks
             /\ Dawn' = Dawn /\ ticks'[1].wall = ticks[1].wall
  <2>1. ticks # <<>>
    BY <1>1 DEF SameTicks
  <2>2. Len(ticks) \in DOMAIN ticks /\ 1 \in DOMAIN ticks
    BY <2>1, DawnIs DEF IInv
  <2>3. ticks'[1].wall = ticks[1].wall
    BY <2>2 DEF SameTicks
  <2> QED
    BY <2>1, <2>2, <2>3 DEF Dawn, Day
<1>2. Stamped'
  BY DEF DInv, Stamped, SameTicks
<1>3. Began'
  BY <1>1 DEF DInv, Began, SameTicks
<1>4. OneDay'
  BY <1>1 DEF DInv, OneDay, SameTicks, IsMarketOpen, Day, Minute
<1> QED
  BY <1>1, <1>2, <1>3, <1>4

LEMMA UnchangedTicks == TypeOK /\ UNCHANGED <<t0, ticks>> => SameTicks
  BY DEF SameTicks

\* A tick that begins.
LEMMA BeginKeeps ==
    ASSUME IInv, DInv, pc = "sample", IsMarketOpen(Wall), t0' = clock, pc' = "refresh",
           UNCHANGED clock,
           ticks' = Append(ticks, [wall |-> Wall, at |-> clock, skew |-> skew, took |-> 0])
    PROVE  DInv'
<1> PICK new : new = [wall |-> Wall, at |-> clock, skew |-> skew, took |-> 0]
  OBVIOUS
<1>1. /\ clock \in Nat /\ skew \in Int /\ Wall = clock + skew /\ Wall \in Int
      /\ -MaxSkew <= skew /\ skew <= MaxSkew /\ new \in Ticks
  <2>1. clock \in Nat /\ skew \in Int /\ clock + skew \in Int
    BY Numbers, SMT DEF IInv
  <2> QED
    BY <2>1, Numbers DEF IInv, Wall, Ticks
<1>2. /\ ticks \in Seq(Ticks) /\ Len(ticks) \in Nat /\ DOMAIN ticks = 1..Len(ticks)
      /\ DOMAIN ticks' = 1..(Len(ticks) + 1) /\ Len(ticks') = Len(ticks) + 1
      /\ \A i \in 1..Len(ticks) : ticks'[i] = ticks[i]
      /\ ticks'[Len(ticks) + 1] = new
  <2>1. ticks \in Seq(Ticks)
    BY DEF IInv, TypeOK, Ticks
  <2> QED
    BY <1>1, <2>1, AppendProperties, LenProperties
<1>3. \A i \in DOMAIN ticks' : (i \in DOMAIN ticks /\ ticks'[i] = ticks[i]) \/ ticks'[i] = new
  <2>1. \A i \in 1..(Len(ticks) + 1) : i \in 1..Len(ticks) \/ i = Len(ticks) + 1
    BY <1>2, SMT
  <2> QED
    BY <1>2, <2>1
<1>4. Stamped'
  BY <1>1, <1>3 DEF DInv, Stamped
<1>5. Began'
  BY <1>2 DEF Began
<1>6. Paced' /\ BeforeNight'
  BY DEF Paced, BeforeNight
<1>7. Day(ticks'[1].wall) = Day(Wall)
  <2>1. CASE ticks = <<>>
    <3>1. Len(ticks) = 0 /\ 0 + 1 = 1
      BY <2>1, EmptySeq
    <3>2. ticks'[1] = new
      BY <1>2, <3>1
    <3> QED
      BY <3>2
  <2>2. CASE ticks # <<>>
    <3>1. 1 \in 1..Len(ticks) /\ Day(Wall) = Day(ticks[1].wall)
      BY <2>2, Asked, DawnIs DEF IInv
    <3> QED
      BY <1>2, <3>1
  <2> QED
    BY <2>1, <2>2
<1>8. \A i \in DOMAIN ticks' : IsMarketOpen(ticks'[i].wall) /\ Day(ticks'[i].wall) = Day(Wall)
  <2>1. ASSUME NEW i \in DOMAIN ticks, ticks'[i] = ticks[i]
        PROVE  IsMarketOpen(ticks'[i].wall) /\ Day(ticks'[i].wall) = Day(Wall)
    <3>1. ticks # <<>>
      BY <2>1, EmptySeq
    <3> QED
      BY <2>1, <3>1, Asked DEF DInv, OneDay
  <2> QED
    BY <1>3, <2>1
<1>9. /\ Day(Wall) * DayLen \in Int
      /\ Day(Wall) * DayLen + OpenAt <= Wall /\ Wall < Day(Wall) * DayLen + CloseAt
  BY <1>1, Hours
<1>10. /\ Day(Wall) * DayLen + OpenAt - MaxSkew <= clock
       /\ clock < Day(Wall) * DayLen + CloseAt + MaxSkew
  BY <1>1, <1>9, Bounds, Lengths, SMT
<1>11. Dawn' = Day(Wall) * DayLen
  BY <1>7 DEF Dawn, Day
<1>12. OneDay'
  BY <1>7, <1>8, <1>10, <1>11 DEF OneDay, IsMarketOpen, Day, Minute
<1> QED
  BY <1>4, <1>5, <1>6, <1>12 DEF DInv

\* How long Poll and Sleep take.
LEMMA Polls ==
    ASSUME IInv, Poll
    PROVE  /\ SameTicks /\ pc = "poll" /\ pc' \in {"sleep", "aborted"} /\ ticks # <<>> /\ t0 <= clock
           /\ clock' \in Nat /\ clock <= clock' /\ clock' <= clock + MaxWork
           /\ ticks'[Len(ticks)].took = clock' - t0
           /\ \A i \in DOMAIN ticks : i # Len(ticks) => ticks'[i] = ticks[i]
<1>1. /\ pc = "poll" /\ pc' \in {"sleep", "aborted"} /\ Later(0..MaxWork) /\ t0' = t0
      /\ ticks' = [ticks EXCEPT ![Len(ticks)].took = clock' - t0]
  BY DEF Poll
<1>2. ticks # <<>> /\ t0 <= clock
  BY <1>1 DEF IInv, Ticking
<1>3. clock' \in Nat /\ clock <= clock' /\ clock' <= clock + MaxWork
  <2>1. Later(0..MaxWork)
    BY <1>1
  <2> QED
    BY <2>1, Bounds, Waits, Numbers, SMT DEF IInv
<1>4. /\ DOMAIN ticks = 1..Len(ticks) /\ Len(ticks) \in 1..Len(ticks) /\ Len(ticks) \in Nat
      /\ \A i \in DOMAIN ticks : ticks[i] \in Ticks
  BY <1>2, DawnIs DEF IInv
<1>5. /\ ticks' = [ticks EXCEPT ![Len(ticks)] = [ticks[Len(ticks)] EXCEPT !.took = clock' - t0]]
      /\ DOMAIN ticks' = DOMAIN ticks
  BY <1>1
<1>6. Len(ticks') = Len(ticks)
  <2>1. ticks' \in Seq(Ticks)
    <3>1. TypeOK'
      BY StepIInv DEF IInv, Next, Program
    <3> QED
      BY <3>1 DEF TypeOK, Ticks
  <2>2. /\ DOMAIN ticks' = 1..Len(ticks') /\ Len(ticks') \in Nat
    BY <2>1, LenProperties
  <2> QED
    BY <1>4, <1>5, <2>2, SMT
<1> QED
  BY <1>1, <1>2, <1>3, <1>4, <1>5, <1>6 DEF SameTicks, Ticks

LEMMA Sleeps ==
    ASSUME IInv, Sleep
    PROVE  /\ pc = "sleep" /\ pc' = "sample" /\ UNCHANGED <<t0, ticks, skew>>
           /\ ticks # <<>> /\ t0 <= clock /\ clock' \in Nat
           /\ IF clock - t0 < Interval
                THEN t0 + Interval <= clock' /\ clock' <= t0 + Interval + MaxLate
                ELSE clock' = clock
<1>1. /\ pc = "sleep" /\ pc' = "sample" /\ UNCHANGED <<t0, ticks, skew>>
      /\ IF clock - t0 < Interval
           THEN Later((Interval - (clock - t0))..(Interval - (clock - t0) + MaxLate))
           ELSE UNCHANGED clock
  BY DEF Sleep
<1>2. ticks # <<>> /\ t0 <= clock
  BY <1>1 DEF IInv, Ticking
<1>3. clock \in Nat /\ t0 \in Nat
  BY Numbers DEF IInv
<1>4. CASE clock - t0 < Interval
  <2> PICK lo \in Nat : lo = Interval - (clock - t0)
    BY <1>2, <1>3, <1>4, Bounds, SMT
  <2>1. Later(lo..(lo + MaxLate)) /\ lo + MaxLate \in Nat
    BY <1>1, <1>4, Bounds
  <2>2. clock' \in Nat /\ clock + lo <= clock' /\ clock' <= clock + (lo + MaxLate)
    BY <2>1, Waits DEF IInv
  <2>3. t0 + Interval <= clock' /\ clock' <= t0 + Interval + MaxLate
    BY <1>3, <2>2, Bounds, SMT
  <2> QED
    BY <1>1, <1>2, <1>4, <2>2, <2>3
<1>5. CASE ~(clock - t0 < Interval)
  BY <1>1, <1>2, <1>3, <1>5
<1> QED
  BY <1>4, <1>5

\* What may follow a tick ends before the day does, by any wall clock.
LEMMA EndsByNight ==
    ASSUME NEW dawn \in Int, NEW late \in Nat,
           \/ late < dawn + CloseAt + MaxSkew + MaxLate
           \/ late < dawn + CloseAt + MaxSkew + Interval + MaxLate
           \/ late < dawn + CloseAt + MaxSkew + MaxAuth + MaxWork
    PROVE  late + MaxSkew < dawn + DayLen
  BY Bounds, Lengths, SMT

LEMMA StepDInv == IInv /\ DInv /\ [Next]_vars => DInv'
<1> SUFFICES ASSUME IInv, DInv, [Next]_vars PROVE DInv'
  OBVIOUS
<1>1. clock \in Nat /\ t0 \in Nat
  BY Numbers DEF IInv
<1>2. ASSUME UNCHANGED <<t0, ticks>>, Paced', BeforeNight' PROVE DInv'
  BY <1>2, UnchangedTicks, SameTicksKeep DEF IInv, DInv
<1>3. ASSUME UNCHANGED <<t0, ticks>>, pc' \notin {"refresh", "poll", "sleep", "sample"},
             pc' = "connect" => pc = "connect"
      PROVE  DInv'
  BY <1>2, <1>3 DEF DInv, Paced, BeforeNight
<1>4. CASE Connect
  <2>1. pc = "connect" /\ UNCHANGED <<t0, ticks>>
    BY <1>4 DEF Connect
  <2>2. CASE pc' = "sample"
    <3>1. ticks = <<>>
      BY <2>1 DEF DInv, Paced
    <3> QED
      BY <1>2, <2>1, <2>2, <3>1 DEF Paced, BeforeNight
  <2>3. CASE pc' # "sample"
    BY <1>3, <1>4, <2>1, <2>3 DEF Connect
  <2> QED
    BY <2>2, <2>3
<1>5. CASE Sample
  <2>1. CASE IsMarketOpen(Wall)
    BY <1>5, <2>1, BeginKeeps DEF Sample
  <2>2. CASE pc' = "done" /\ UNCHANGED <<clock, t0, ticks>>
    BY <1>3, <2>2
  <2>3. CASE /\ ~IsMarketOpen(Wall) /\ ~MarketClosedForDay(Wall)
             /\ Later(1..(1 + MaxLate)) /\ UNCHANGED <<pc, t0, ticks>> /\ UNCHANGED skew
    <3>1. pc = "sample" /\ clock' \in Nat /\ clock <= clock' /\ clock' <= clock + (1 + MaxLate)
      <4>1. 1 \in Nat /\ 1 + MaxLate \in Nat
        BY Bounds, SMT
      <4>2. clock' \in Nat /\ clock + 1 <= clock' /\ clock' <= clock + (1 + MaxLate)
        BY <2>3, <4>1, Waits DEF IInv
      <4> QED
        BY <1>1, <1>5, <4>2, SMT DEF Sample
    <3>2. ASSUME ticks # <<>>
          PROVE  t0 <= clock' /\ clock' + MaxSkew < Dawn + DayLen
      <4>1. Wall < Dawn + OpenAt /\ t0 <= clock
        BY <2>3, <3>1, <3>2, Asked DEF DInv, Paced
      <4>2. Dawn \in Int /\ Wall = clock + skew /\ skew \in Int /\ -MaxSkew <= skew
        BY <3>2, DawnIs, Numbers DEF IInv, Wall
      <4>3. PICK dawn \in Int, late \in Nat : dawn = Dawn /\ late = clock'
        BY <3>1, <4>2
      <4>4. t0 <= late /\ late < dawn + CloseAt + MaxSkew + MaxLate
        <5>1. clock + skew < dawn + OpenAt /\ late <= clock + (1 + MaxLate) /\ clock <= late
          BY <3>1, <4>1, <4>2, <4>3
        <5> QED
          BY <1>1, <4>1, <4>2, <5>1, Bounds, Lengths, SMT
      <4> QED
        BY <4>3, <4>4, EndsByNight
    <3>3. ticks' # <<>> => Dawn' = Dawn
      BY <2>3, UnchangedTicks, SameTicksKeep DEF IInv
    <3>4. Paced' /\ BeforeNight'
      BY <2>3, <3>1, <3>2, <3>3 DEF Paced, BeforeNight
    <3> QED
      BY <1>2, <2>3, <3>4
  <2> QED
    BY <1>5, <2>1, <2>2, <2>3 DEF Sample
<1>6. CASE Refresh
  <2>1. pc = "refresh" /\ clock = t0 /\ UNCHANGED <<t0, ticks, skew>>
    BY <1>6 DEF Refresh, DInv, Paced
  <2>2. CASE pc' = "poll" /\ UNCHANGED clock
    <3>1. clock' <= t0' + MaxAuth
      BY <1>1, <2>1, <2>2, Bounds, SMT
    <3> QED
      BY <1>2, <2>1, <2>2, <3>1 DEF Paced, BeforeNight
  <2>3. CASE pc' = "poll" /\ Authenticated
    <3>1. clock' <= t0' + MaxAuth
      BY <2>1, <2>3, Authenticates DEF IInv
    <3> QED
      BY <1>2, <2>1, <2>3, <3>1 DEF Paced, BeforeNight
  <2>4. CASE pc' = "aborted"
    BY <1>3, <2>1, <2>4
  <2> QED
    BY <1>6, <2>2, <2>3, <2>4 DEF Refresh
<1>7. CASE Poll
  <2>1. /\ SameTicks /\ pc = "poll" /\ pc' \in {"sleep", "aborted"}
        /\ clock' \in Nat /\ clock' <= clock + MaxWork
    BY <1>7, Polls
  <2>2. clock <= t0 + MaxAuth /\ t0' = t0
    BY <2>1 DEF DInv, Paced, SameTicks
  <2>3. clock' <= t0' + MaxAuth + MaxWork
    BY <1>1, <2>1, <2>2, Bounds, SMT
  <2>4. Paced' /\ BeforeNight'
    BY <2>1, <2>3 DEF Paced, BeforeNight
  <2> QED
    BY <2>1, <2>4, SameTicksKeep DEF DInv
<1>8. CASE Sleep
  <2>1. /\ pc = "sleep" /\ pc' = "sample" /\ UNCHANGED <<t0, ticks, skew>>
        /\ ticks # <<>> /\ t0 <= clock /\ clock' \in Nat
        /\ IF clock - t0 < Interval
             THEN t0 + Interval <= clock' /\ clock' <= t0 + Interval + MaxLate
             ELSE clock' = clock
    BY <1>8, Sleeps
  <2>2. clock <= t0 + MaxAuth + MaxWork /\ t0 < Dawn + CloseAt + MaxSkew /\ Dawn \in Int
    BY <2>1, DawnIs DEF IInv, DInv, Paced, OneDay
  <2>3. t0 <= clock' /\ clock' + MaxSkew < Dawn + DayLen
    <3>1. PICK dawn \in Int, late \in Nat : dawn = Dawn /\ late = clock'
      BY <2>1, <2>2
    <3>2. t0 < dawn + CloseAt + MaxSkew
      BY <2>2, <3>1
    <3>3. CASE clock - t0 < Interval
      <4>1. t0 + Interval <= late /\ late <= t0 + Interval + MaxLate
        BY <2>1, <3>1, <3>3
      <4>2. t0 <= late /\ late < dawn + CloseAt + MaxSkew + Interval + MaxLate
        BY <1>1, <3>2, <4>1, Bounds, Lengths, SMT
      <4> QED
        BY <3>1, <4>2, EndsByNight
    <3>4. CASE ~(clock - t0 < Interval)
      <4>1. late = clock /\ t0 <= clock /\ clock <= t0 + MaxAuth + MaxWork
        BY <2>1, <2>2, <3>1, <3>4
      <4>2. t0 <= late /\ late < dawn + CloseAt + MaxSkew + MaxAuth + MaxWork
        BY <1>1, <3>2, <4>1, Bounds, Lengths, SMT
      <4> QED
        BY <3>1, <4>2, EndsByNight
    <3> QED
      BY <3>3, <3>4
  <2>4. Dawn' = Dawn
    BY <2>1, UnchangedTicks, SameTicksKeep DEF IInv
  <2> QED
    BY <1>2, <2>1, <2>3, <2>4 DEF Paced, BeforeNight
<1>9. CASE StepWall \/ UNCHANGED vars
  <2>1. UNCHANGED <<clock, pc, t0, ticks>>
    BY <1>9 DEF StepWall, vars
  <2>2. ticks' # <<>> => Dawn' = Dawn
    BY <2>1, UnchangedTicks, SameTicksKeep DEF IInv
  <2> QED
    BY <1>2, <2>1, <2>2 DEF DInv, Paced, BeforeNight
<1> QED
  BY <1>4, <1>5, <1>6, <1>7, <1>8, <1>9 DEF Next, Program

(***************************************************************************)
(* A run polls on one date only and in market hours, whatever is done to   *)
(* the wall clock and however long ticks, answers and sleeps take within   *)
(* their bounds (PollScheduler.ticks, which keeps no date).                *)
(***************************************************************************)
THEOREM TicksKeepToOneDay == Spec => []TicksOnOneDay
<1>1. DInv => TicksOnOneDay
  <2> SUFFICES ASSUME DInv, NEW i \in DOMAIN ticks, NEW j \in DOMAIN ticks
               PROVE  IsMarketOpen(ticks[i].wall) /\ Day(ticks[i].wall) = Day(ticks[j].wall)
    BY DEF TicksOnOneDay
  <2>1. ticks # <<>>
    BY EmptySeq
  <2> QED
    BY <2>1 DEF DInv, OneDay
<1>2. Init => DInv
  BY InitDInv
<1> QED
  BY <1>1, <1>2, StepDInv, Invariance, PTL DEF Spec

-----------------------------------------------------------------------------
(***************************************************************************)
(* How far apart the ticks are.  After a tick the market is open or closed *)
(* for the day, never still to open: the wall clock is not stepped back to *)
(* before the opening if an interval makes up for a step there and back.   *)
(***************************************************************************)
LEMMA NoSecondOpening ==
    ASSUME 2 * MaxSkew <= Interval, IInv, DInv, Spaced, pc = "sample", ticks # <<>>
    PROVE  IsMarketOpen(Wall) \/ MarketClosedForDay(Wall)
<1> SUFFICES ASSUME ~IsMarketOpen(Wall), ~MarketClosedForDay(Wall) PROVE FALSE
  OBVIOUS
<1>1. /\ Dawn \in Int /\ Wall = clock + skew /\ clock \in Nat /\ t0 \in Nat
      /\ skew \in Int /\ -MaxSkew <= skew
  BY DawnIs, Numbers DEF IInv, Wall
<1>2. Wall < Dawn + OpenAt /\ Dawn + OpenAt - MaxSkew <= t0
  BY Asked DEF DInv, OneDay
<1>3. PICK took \in Nat : took = ticks[Len(ticks)].took
  BY DawnIs DEF IInv, Ticks
<1>4. IF took >= Interval THEN clock = t0 + took
                          ELSE t0 + Interval <= clock /\ clock <= t0 + Interval + MaxLate
  BY <1>3 DEF Spaced
<1>5. t0 + Interval <= clock
  BY <1>1, <1>3, <1>4, Bounds, SMT
<1>6. PICK dawn \in Int : dawn = Dawn
  BY <1>1
<1>7. clock + skew < dawn + OpenAt /\ dawn + OpenAt - MaxSkew <= t0
  BY <1>1, <1>2, <1>6
<1> QED
  BY <1>1, <1>5, <1>7, Bounds, Lengths, SMT

\* The tick that begins is spaced from the last as Cadence says, those before stay.
LEMMA BeginSpaces ==
    ASSUME IInv, DInv, CInv, pc = "sample", pc' = "refresh",
           ticks' = Append(ticks, [wall |-> Wall, at |-> clock, skew |-> skew, took |-> 0])
    PROVE  CInv'
<1> PICK new : new = [wall |-> Wall, at |-> clock, skew |-> skew, took |-> 0]
  OBVIOUS
<1>1. /\ Len(ticks) \in Nat /\ Len(ticks') = Len(ticks) + 1
      /\ \A i \in 1..Len(ticks) : ticks'[i] = ticks[i]
      /\ ticks'[Len(ticks) + 1] = new
  <2>1. ticks \in Seq(Ticks) /\ new \in Ticks
    <3>1. clock + skew \in Int
      BY Numbers, SMT DEF IInv
    <3> QED
      BY <3>1, Numbers DEF IInv, TypeOK, Ticks, Wall
  <2> QED
    BY <2>1, AppendProperties, LenProperties
<1>2. ASSUME NEW i \in 2..Len(ticks)
      PROVE  ticks'[i] = ticks[i] /\ ticks'[i - 1] = ticks[i - 1]
  <2>1. i \in 1..Len(ticks) /\ i - 1 \in 1..Len(ticks)
    BY <1>1, SMT
  <2> QED
    BY <1>1, <2>1
<1>3. ASSUME NEW i \in 2..(Len(ticks) + 1), i \notin 2..Len(ticks)
      PROVE  LET gap  == ticks'[i].at - ticks'[i - 1].at
                 took == ticks'[i - 1].took
             IN  IF took >= Interval THEN gap = took
                                     ELSE Interval <= gap /\ gap <= Interval + MaxLate
  <2>1. i = Len(ticks) + 1 /\ i - 1 = Len(ticks) /\ Len(ticks) \in 1..Len(ticks)
    BY <1>1, <1>3, SMT
  <2>2. ticks # <<>>
    BY <2>1, EmptySeq
  <2>3. ticks'[i].at = clock /\ ticks'[i - 1] = ticks[Len(ticks)] /\ ticks[Len(ticks)].at = t0
    BY <1>1, <2>1, <2>2 DEF DInv, Began
  <2>4. PICK took \in Nat : took = ticks[Len(ticks)].took
    BY <2>2, DawnIs DEF IInv, Ticks
  <2>5. IF took >= Interval THEN clock = t0 + took
                            ELSE t0 + Interval <= clock /\ clock <= t0 + Interval + MaxLate
    BY <2>2, <2>4 DEF CInv, Spaced
  <2>6. IF took >= Interval THEN clock - t0 = took
                            ELSE Interval <= clock - t0 /\ clock - t0 <= Interval + MaxLate
    <3>1. clock \in Nat /\ t0 \in Nat
      BY Numbers DEF IInv
    <3> QED
      BY <2>4, <2>5, <3>1, Bounds, SMT
  <2> QED
    BY <2>3, <2>4, <2>6
<1>4. Cadence'
  BY <1>1, <1>2, <1>3 DEF CInv, Cadence
<1> QED
  BY <1>4 DEF CInv, Spaced

LEMMA StepCInv ==
    ASSUME 2 * MaxSkew <= Interval
    PROVE  IInv /\ DInv /\ CInv /\ [Next]_vars => CInv'
<1> SUFFICES ASSUME IInv, DInv, CInv, [Next]_vars PROVE CInv'
  OBVIOUS
<1>1. ASSUME UNCHANGED ticks, Spaced' PROVE CInv'
  BY <1>1 DEF CInv, Cadence
<1>2. ASSUME UNCHANGED ticks, pc' \notin {"sleep", "sample"} PROVE CInv'
  BY <1>1, <1>2 DEF Spaced
<1>3. CASE Connect
  <2>1. ticks' = <<>> /\ UNCHANGED ticks /\ pc' # "sleep"
    BY <1>3 DEF Connect, DInv, Paced
  <2> QED
    BY <1>1, <2>1 DEF Spaced
<1>4. CASE Sample
  <2>1. CASE IsMarketOpen(Wall)
    BY <1>4, <2>1, BeginSpaces DEF Sample
  <2>2. CASE pc' = "done" /\ UNCHANGED ticks
    BY <1>2, <2>2
  <2>3. CASE ~IsMarketOpen(Wall) /\ ~MarketClosedForDay(Wall) /\ UNCHANGED <<pc, ticks>>
    <3>1. ticks' = <<>> /\ pc' = "sample"
      BY <1>4, <2>3, NoSecondOpening DEF Sample, CInv
    <3> QED
      BY <1>1, <2>3, <3>1 DEF Spaced
  <2> QED
    BY <1>4, <2>1, <2>2, <2>3 DEF Sample
<1>5. CASE Refresh
  BY <1>2, <1>5 DEF Refresh
<1>6. CASE Poll
  <2>1. /\ SameTicks /\ pc' \in {"sleep", "aborted"}
        /\ ticks # <<>> /\ ticks'[Len(ticks)].took = clock' - t0
        /\ \A i \in DOMAIN ticks : i # Len(ticks) => ticks'[i] = ticks[i]
    BY <1>6, Polls
  <2>2. DOMAIN ticks = 1..Len(ticks) /\ Len(ticks) \in Nat
    BY <2>1, DawnIs DEF IInv
  <2>3. \A i \in 2..Len(ticks) : /\ ticks'[i].at = ticks[i].at
                                 /\ ticks'[i - 1] = ticks[i - 1]
    <3>1. \A i \in 2..Len(ticks) : /\ i \in 1..Len(ticks) /\ i - 1 \in 1..Len(ticks)
                                   /\ i - 1 # Len(ticks)
      BY <2>2, SMT
    <3> QED
      BY <2>1, <2>2, <3>1 DEF SameTicks
  <2>4. Len(ticks') = Len(ticks) /\ t0' = t0
    BY <2>1 DEF SameTicks
  <2>5. Cadence'
    BY <2>3, <2>4 DEF CInv, Cadence
  <2>6. Spaced'
    BY <2>1, <2>4 DEF Spaced
  <2> QED
    BY <2>5, <2>6 DEF CInv
<1>7. CASE Sleep
  <2>1. /\ pc = "sleep" /\ pc' = "sample" /\ UNCHANGED <<t0, ticks>>
        /\ t0 <= clock /\ clock' \in Nat
        /\ IF clock - t0 < Interval
             THEN t0 + Interval <= clock' /\ clock' <= t0 + Interval + MaxLate
             ELSE clock' = clock
    BY <1>7, Sleeps
  <2>2. PICK took \in Nat : took = clock - t0
    <3>1. clock \in Nat /\ t0 \in Nat
      BY Numbers DEF IInv
    <3>2. clock - t0 \in Nat
      BY <2>1, <3>1, SMT
    <3> QED
      BY <3>2
  <2>3. ticks[Len(ticks)].took = took
    BY <2>1, <2>2 DEF CInv, Spaced
  <2>4. IF took >= Interval THEN clock' = t0 + took
                            ELSE t0 + Interval <= clock' /\ clock' <= t0 + Interval + MaxLate
    <3>1. clock \in Nat /\ t0 \in Nat
      BY Numbers DEF IInv
    <3> QED
      BY <2>1, <2>2, <3>1, Bounds, SMT
  <2>5. Spaced'
    BY <2>1, <2>3, <2>4 DEF Spaced
  <2> QED
    BY <1>1, <2>1, <2>5
<1>8. CASE StepWall \/ UNCHANGED vars
  <2>1. UNCHANGED <<clock, pc, t0, ticks>>
    BY <1>8 DEF StepWall, vars
  <2> QED
    BY <1>1, <2>1 DEF CInv, Spaced
<1> QED
  BY <1>3, <1>4, <1>5, <1>6, <1>7, <1>8 DEF Next, Program

(***************************************************************************)
(* Two ticks begin an interval apart, or as far apart as the first took:   *)
(* an overrun costs no tick and makes no burst, and the wall clock, which  *)
(* the wait of ticks() does not read, changes nothing of it, if it is off  *)
(* by at most half an interval.                                            *)
(***************************************************************************)
THEOREM TicksKeepCadence ==
    ASSUME 2 * MaxSkew <= Interval
    PROVE  Spec => []Cadence
<1>1. Init => DInv /\ CInv
  BY InitDInv
<1>2. IInv /\ DInv /\ CInv /\ [Next]_vars => CInv'
  BY StepCInv
<1>3. CInv => Cadence
  BY DEF CInv
<1> QED
  BY <1>1, <1>2, <1>3, StepDInv, Invariance, PTL DEF Spec

(***************************************************************************)
(* Polling that keeps up is contiguous: the band of                        *)
(* DiscoveryController._continuity holds what the wait of                  *)
(* PollScheduler.ticks leaves between two ticks.                           *)
(***************************************************************************)
THEOREM SteadyPollingIsContiguous ==
    ASSUME 2 * MaxSkew <= Interval
    PROVE  Spec => []SteadyIsContiguous
<1>1. IInv /\ DInv /\ Cadence => SteadyIsContiguous
  <2> SUFFICES ASSUME IInv, DInv, Cadence, NEW i \in 2..Len(ticks),
                      ticks[i].skew = ticks[i - 1].skew,
                      2 * ticks[i - 1].took <= 3 * Interval,
                      2 * MaxLate <= Interval
               PROVE  Within(Interval, ticks[i].wall - ticks[i - 1].wall)
    BY DEF SteadyIsContiguous
  <2>1. /\ i \in DOMAIN ticks /\ i - 1 \in DOMAIN ticks
        /\ ticks[i] \in Ticks /\ ticks[i - 1] \in Ticks
    <3>1. ticks \in Seq(Ticks)
      BY DEF IInv, TypeOK, Ticks
    <3>2. Len(ticks) \in Nat /\ DOMAIN ticks = 1..Len(ticks)
      BY <3>1, LenProperties
    <3>3. i \in 1..Len(ticks) /\ i - 1 \in 1..Len(ticks)
      BY <3>2, SMT
    <3> QED
      BY <3>1, <3>2, <3>3, ElementOfSeq
  <2>2. PICK a \in Nat, b \in Nat, s \in Int, took \in Nat :
             a = ticks[i - 1].at /\ b = ticks[i].at /\ s = ticks[i].skew /\ took = ticks[i - 1].took
    BY <2>1 DEF Ticks
  <2>3. ticks[i].wall = b + s /\ ticks[i - 1].wall = a + s
    BY <2>1, <2>2 DEF DInv, Stamped
  <2>4. IF took >= Interval THEN b - a = took
                            ELSE Interval <= b - a /\ b - a <= Interval + MaxLate
    BY <2>2 DEF Cadence
  <2>5. 2 * took <= 3 * Interval
    BY <2>2
  <2>6. Interval <= 2 * (b - a) /\ 2 * (b - a) <= 3 * Interval
    <3>1. 2 * MaxLate <= Interval
      OBVIOUS
    <3>2. CASE took >= Interval
      <4>1. b - a = took
        BY <2>4, <3>2
      <4> QED
        BY <2>5, <3>2, <4>1, Bounds, SMT
    <3>3. CASE ~(took >= Interval)
      <4>1. Interval <= b - a /\ b - a <= Interval + MaxLate
        BY <2>4, <3>3
      <4> QED
        BY <3>1, <4>1, Bounds, SMT
    <3> QED
      BY <3>2, <3>3
  <2>7. (b + s) - (a + s) = b - a
    BY SMT
  <2> QED
    BY <2>3, <2>6, <2>7 DEF Within
<1> QED
  BY <1>1, TicksKeepCadence, Invariance, InitDInv, StepDInv, PTL DEF Spec
=============================================================================
