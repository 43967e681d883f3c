------------------------------ MODULE Polling ------------------------------
(***************************************************************************)
(* When the poll loop polls: PollScheduler.ticks (lib/discovery/           *)
(* scheduler.py) driving DiscoveryController.run, with the token of        *)
(* SmartAPISession (lib/discovery/session.py) that every tick uses.        *)
(*                                                                         *)
(* `clock' is true time, which time.monotonic follows; the wall clock,     *)
(* which decides market hours and token age, is `clock + skew', and may be *)
(* stepped at any time by up to MaxSkew either way.  Time is in arbitrary  *)
(* units, DayLen of them a day, and passes in the actions that wait:       *)
(* sleeping, authenticating and polling.                                   *)
(***************************************************************************)
EXTENDS Continuity, Sequences

CONSTANTS Interval,     \* interval_seconds
          DayLen, OpenAt, CloseAt,  \* the day and _OPEN_MINUTES, _CLOSE_MINUTES
          Weekend,      \* the days (numbered from 0) without trading
          Threshold,    \* age at which a token is refreshed:
                        \* (_SESSION_DURATION_MINUTES - buffer) * 60
          Lifetime,     \* true age at which the broker stops accepting a token
          MaxWork,      \* bound: duration of a tick's fetches and writes
          MaxAuth,      \* bound: duration of one generateSession call
          MaxLate,      \* bound: how late a sleep returns
          MaxSkew,      \* bound: the wall clock's distance from true time
          Starts,       \* the times at which the process is started
          Horizon       \* bound: no action begins after this time

\* The service runs by day, its ticks are short next to a night, and the refresh
\* buffer covers one tick (10 minutes against a few requests with timeouts).
ASSUME PollingAssumption ==
    /\ {Interval, DayLen, OpenAt, CloseAt, Threshold, Lifetime} \subseteq Nat \ {0}
    /\ {MaxWork, MaxAuth, MaxLate, MaxSkew, Horizon} \subseteq Nat
    /\ OpenAt < CloseAt /\ Weekend \subseteq Nat
    /\ Starts \subseteq Nat
    /\ CloseAt + Interval + MaxWork + MaxAuth + MaxLate + 2 * MaxSkew <= DayLen
    /\ Threshold + MaxWork + MaxAuth + 2 * MaxSkew <= Lifetime

VARIABLES
    clock, skew,  \* true time, and what the wall clock is ahead of it
    pc,           \* the next step
    attempt,      \* the attempt of connect() to come
    smart,        \* _smart is set
    acquired,     \* _token.acquired_at, NoToken before the first token
    born,         \* true time at which that token was asked for
    t0,           \* t0 of ticks()
    ticks         \* the ticks yielded: wall time, true time, skew, duration

vars == <<clock, skew, pc, attempt, smart, acquired, born, t0, ticks>>

NoToken == -DayLen

TypeOK ==
    /\ clock \in Nat /\ skew \in -MaxSkew..MaxSkew
    /\ pc \in {"connect", "sample", "refresh", "poll", "sleep", "done", "aborted"}
    /\ attempt \in 1..2 /\ smart \in BOOLEAN
    /\ acquired \in Int /\ born \in Int /\ t0 \in Nat
    /\ ticks \in Seq([wall : Int, at : Nat, skew : Int, took : Nat])

Init ==
    /\ clock \in Starts /\ skew = 0 /\ pc = "connect" /\ attempt = 1
    /\ smart = FALSE /\ acquired = NoToken /\ born = NoToken
    /\ t0 = 0 /\ ticks = <<>>

-----------------------------------------------------------------------------
Wall == clock + skew
Day(w)    == w \div DayLen
Minute(w) == w % DayLen
Later(S)  == \E d \in S : clock' = clock + d

IsMarketOpen(w) == /\ Day(w) \notin Weekend
                   /\ OpenAt <= Minute(w) /\ Minute(w) < CloseAt

\* Mutant: only a weekend closes the market for the day.
MarketClosedWeekend(w) == Day(w) \in Weekend

MarketClosedForDay(w) == Day(w) \in Weekend \/ Minute(w) >= CloseAt

\* Mutant: the buffer is not taken off.
NeedsRefreshLate == Wall - acquired >= Lifetime

NeedsRefresh == Wall - acquired >= Threshold

(***************************************************************************)
(* _do_auth, successful: _smart is set and the token replaced, dated when  *)
(* the answer is in.                                                       *)
(***************************************************************************)
Authenticated ==
    /\ Later(0..MaxAuth)
    /\ smart' = TRUE /\ acquired' = clock' + skew /\ born' = clock

\* Mutant: the token is given up before the new one is there.
AuthFailsDropping(made) ==
    /\ Later(0..MaxAuth)
    /\ smart' = (smart \/ made)
    /\ acquired' = NoToken /\ UNCHANGED born

(***************************************************************************)
(* _do_auth, failed: the token stays.  The TOTP may fail before _smart is  *)
(* set, the call itself fails after it.                                    *)
(***************************************************************************)
AuthFails(made) ==
    /\ Later(0..MaxAuth)
    /\ smart' = (smart \/ made)
    /\ UNCHANGED <<acquired, born>>

(***************************************************************************)
(* connect(): a second attempt after a SessionAcquireError, none after     *)
(* another exception or after the second.                                  *)
(***************************************************************************)
Connect ==
    /\ pc = "connect"
    /\ \/ Authenticated /\ pc' = "sample" /\ UNCHANGED attempt
       \/ \E made \in BOOLEAN, retried \in BOOLEAN :
            /\ AuthFails(made)
            /\ retried => attempt = 1
            /\ IF retried THEN attempt' = 2 /\ UNCHANGED pc
                          ELSE pc' = "aborted" /\ UNCHANGED attempt
    /\ UNCHANGED <<skew, t0, ticks>>

(***************************************************************************)
(* ticks(), to its next yield, return or wait of one unit before opening.  *)
(***************************************************************************)
Sample ==
    /\ pc = "sample" /\ clock <= Horizon
    /\ \/ /\ IsMarketOpen(Wall)
          /\ t0' = clock /\ pc' = "refresh" /\ UNCHANGED clock
          /\ ticks' = Append(ticks, [wall |-> Wall, at |-> clock, skew |-> skew, took |-> 0])
       \/ /\ ~IsMarketOpen(Wall) /\ MarketClosedForDay(Wall)
          /\ pc' = "done" /\ UNCHANGED <<clock, t0, ticks>>
       \/ /\ ~IsMarketOpen(Wall) /\ ~MarketClosedForDay(Wall)
          /\ Later(1..(1 + MaxLate)) /\ UNCHANGED <<pc, t0, ticks>>
    /\ UNCHANGED <<skew, attempt, smart, acquired, born>>

\* refresh_if_needed: no retry, a failure ends the run.
Refresh ==
    /\ pc = "refresh"
    /\ \/ /\ ~NeedsRefresh
          /\ pc' = "poll" /\ UNCHANGED <<clock, smart, acquired, born>>
       \/ NeedsRefresh /\ Authenticated /\ pc' = "poll"
       \/ NeedsRefresh /\ AuthFails(TRUE) /\ pc' = "aborted"
    /\ UNCHANGED <<skew, attempt, t0, ticks>>

\* The fetches and writes of the tick; a fatal error of theirs ends the run.
Poll ==
    /\ pc = "poll"
    /\ Later(0..MaxWork)
    /\ pc' \in {"sleep", "aborted"}
    /\ ticks' = [ticks EXCEPT ![Len(ticks)].took = clock' - t0]
    /\ UNCHANGED <<skew, attempt, smart, acquired, born, t0>>

\* Mutant: the interval is slept in full after the work.
SleepWhole ==
    /\ pc = "sleep" /\ pc' = "sample"
    /\ Later(Interval..(Interval + MaxLate))
    /\ UNCHANGED <<skew, attempt, smart, acquired, born, t0, ticks>>

(***************************************************************************)
(* Back in ticks(): what is left of the interval is slept, an overrun is   *)
(* not.                                                                    *)
(***************************************************************************)
Sleep ==
    /\ pc = "sleep" /\ pc' = "sample"
    /\ LET elapsed == clock - t0
       IN  IF elapsed < Interval
             THEN Later((Interval - elapsed)..(Interval - elapsed + MaxLate))
             ELSE UNCHANGED clock
    /\ UNCHANGED <<skew, attempt, smart, acquired, born, t0, ticks>>

\* The wall clock is stepped.
StepWall ==
    /\ pc \notin {"done", "aborted"}
    /\ skew' \in (-MaxSkew..MaxSkew) \ {skew}
    /\ clock + skew' >= 0
    /\ UNCHANGED <<clock, pc, attempt, smart, acquired, born, t0, ticks>>

Program == Connect \/ Sample \/ Refresh \/ Poll \/ Sleep

Next == Program \/ StepWall

\* The process is scheduled and its calls end: requests have timeouts.
Spec == Init /\ [][Next]_vars /\ WF_vars(Program)

-----------------------------------------------------------------------------
(***************************************************************************)
(* A run polls on one date only, in market hours ("Stops automatically     *)
(* once the market closes for the day", scheduler.py:96).  ticks() keeps   *)
(* no date: it would wait for the next opening after a tick that ends      *)
(* past midnight, which the assumption on MaxWork excludes.                *)
(***************************************************************************)
TicksOnOneDay ==
    \A i, j \in DOMAIN ticks : /\ IsMarketOpen(ticks[i].wall)
                               /\ Day(ticks[i].wall) = Day(ticks[j].wall)

(***************************************************************************)
(* Two ticks begin an interval apart, or as far apart as the first one     *)
(* took when that was longer, and no later than the sleep is: an overrun   *)
(* neither costs a tick nor makes up for it with a burst, and a step of    *)
(* the wall clock changes nothing of it, unless it goes back to before the *)
(* opening, which an interval of twice MaxSkew excludes                    *)
(* (scheduler.py:107-122).                                                 *)
(***************************************************************************)
Cadence ==
    \A i \in 2..Len(ticks) :
        LET gap  == ticks[i].at - ticks[i - 1].at
            took == ticks[i - 1].took
        IN  IF took >= Interval THEN gap = took
                                ELSE Interval <= gap /\ gap <= Interval + MaxLate

(***************************************************************************)
(* Polling that keeps up is contiguous: unless a tick takes longer than    *)
(* the upper end of the contiguous band, or the wall clock is stepped      *)
(* between the two, the next snapshot is within 50% of the interval        *)
(* (controller.py:519-523 against scheduler.py:118-122).                   *)
(***************************************************************************)
SteadyIsContiguous ==
    \A i \in 2..Len(ticks) :
        LET actual == ticks[i].wall - ticks[i - 1].wall
        IN  /\ ticks[i].skew = ticks[i - 1].skew
            /\ 2 * ticks[i - 1].took <= 3 * Interval
            /\ 2 * MaxLate <= Interval
            => Within(Interval, actual)

(***************************************************************************)
(* No request of a tick is made with a token the broker has stopped        *)
(* accepting, although its age is only looked at before the tick, by the   *)
(* wall clock, and is counted from the answer of the authentication        *)
(* (session.py:179-188).                                                   *)
(***************************************************************************)
TokenOutlivesTick == pc \in {"poll", "sleep"} => clock - born < Lifetime

(***************************************************************************)
(* A token once acquired is there for good: no failure of a refresh leaves *)
(* the session unconnected, and every poll has its SmartConnect object     *)
(* (session.py:232-243, controller.py:401).                                *)
(***************************************************************************)
TokenKept ==
    [][/\ acquired # NoToken => acquired' # NoToken
       /\ pc' = "poll" => smart' /\ acquired' # NoToken]_<<acquired, pc>>

(***************************************************************************)
(* The run comes to an end by itself, whenever it is started.              *)
(***************************************************************************)
RunEnds == <>(pc \in {"done", "aborted"})
=============================================================================
