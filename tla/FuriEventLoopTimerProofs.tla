----------------------- MODULE FuriEventLoopTimerProofs -----------------------
(***************************************************************************)
(* What the timers and the tick of the event loop guarantee, for any       *)
(* timers, intervals and modulus of the tick count.                        *)
(*                                                                         *)
(* The order of the list is kept by every tick because the remaining times *)
(* shrink together, and that needs NoDrift: the wrapped difference of two  *)
(* tick counts is the age of the timer, which is less than a turn.         *)
(***************************************************************************)
EXTENDS FuriEventLoopTimer, SequenceFacts

\* Memory that is no timer is in no list.
DeadUnlisted == \A t \in Timer \ alive : ~active[t] /\ request[t] = "None"

\* furi_event_loop_free has only timers left that wait to be freed.
FreesAll == pc = "free" => \A t \in alive : request[t] = "Free"

\* Flags are put back before the loop waits again.
FlagsRestored == pc \notin {"event_cb", "queue"} => flags = {}

\* As long as nobody has stopped the loop, a request that is queued has its flag
\* raised, or put aside while an event is served, or is being carried out.
RequestsNoticed ==
    ~halted /\ timer_queue # <<>> => "Timer" \in notified \cup flags \/ pc \in {"queue", "free"}

\* The inductive invariant.
TimerInv ==
    /\ TypeOK /\ ListsExact /\ FrontFirst /\ NoDrift
    /\ DeadUnlisted /\ FreesAll /\ FlagsRestored /\ RequestsNoticed

-----------------------------------------------------------------------------
\* Arithmetic of the tick count.

\* A number below two turns of the tick count is reduced by at most one.
LEMMA OneTurn ==
    ASSUME NEW x \in 0..2 * Wrap - 1
    PROVE  x % Wrap = IF x < Wrap THEN x ELSE x - Wrap
  <1>1. Wrap \in Nat /\ Wrap > 0
    BY WrapLarge
  <1> DEFINE q == x \div Wrap
             r == x % Wrap
  <1>2. q \in Int /\ r \in 0..Wrap - 1 /\ x = Wrap * q + r
    BY <1>1
  <1> HIDE DEF q, r
  <1>3. q = 0 \/ q = 1
    <2>1. CASE q < 0
      <3>1. Wrap * q <= Wrap * (-1)
        BY <2>1, <1>1, <1>2
      <3> QED
        BY <3>1, <1>1, <1>2
    <2>2. CASE q > 1
      <3>1. Wrap * q >= Wrap * 2
        BY <2>2, <1>1, <1>2
      <3> QED
        BY <3>1, <1>1, <1>2
    <2> QED
      BY <2>1, <2>2, <1>2
  <1> QED
    BY <1>1, <1>2, <1>3 DEF r

\* The ticks since t0, which is less than a turn ago.
LEMMA SinceFacts ==
    ASSUME now \in Ticks, NEW t0 \in Ticks
    PROVE  /\ Since(t0) = IF t0 <= now THEN now - t0 ELSE now - t0 + Wrap
           /\ Since(t0) \in Ticks
  <1>1. Wrap \in Nat /\ Wrap > 0 /\ now - t0 + Wrap \in 0..2 * Wrap - 1
    BY WrapLarge DEF Ticks
  <1> QED
    BY <1>1, OneTurn DEF Since, Ticks

\* A tick later.
LEMMA Later ==
    ASSUME now \in Ticks, now' = (now + 1) % Wrap, NEW t0 \in Ticks, Since(t0) + 1 < Wrap
    PROVE  now' \in Ticks /\ (now' - t0 + Wrap) % Wrap = Since(t0) + 1
  <1>1. Wrap \in Nat /\ Wrap > 0 /\ now + 1 \in 0..2 * Wrap - 1
    BY WrapLarge DEF Ticks
  <1>2. now' = IF now + 1 < Wrap THEN now + 1 ELSE now + 1 - Wrap
    BY <1>1, OneTurn DEF Ticks
  <1>3. now' \in Ticks
    BY <1>1, <1>2 DEF Ticks
  <1>4. now' - t0 + Wrap \in 0..2 * Wrap - 1
    BY <1>1, <1>3 DEF Ticks
  <1>5. (now' - t0 + Wrap) % Wrap = IF t0 <= now' THEN now' - t0 ELSE now' - t0 + Wrap
    BY <1>1, <1>3, <1>4, OneTurn DEF Ticks
  <1> QED
    BY <1>1, <1>2, <1>3, <1>5, SinceFacts DEF Ticks

\* A period that began at t0 and is set forward by p begins p later.
LEMMA SetForward ==
    ASSUME now \in Ticks, NEW t0 \in Ticks, NEW p \in Nat, p <= Since(t0)
    PROVE  /\ (t0 + p) % Wrap \in Ticks
           /\ Since((t0 + p) % Wrap) = Since(t0) - p
  <1> DEFINE t1 == (t0 + p) % Wrap
  <1>1. Wrap \in Nat /\ Wrap > 0 /\ t0 + p \in 0..2 * Wrap - 1
    BY WrapLarge, SinceFacts DEF Ticks
  <1>2. t1 = IF t0 + p < Wrap THEN t0 + p ELSE t0 + p - Wrap
    BY <1>1, OneTurn DEF Ticks
  <1> HIDE DEF t1
  <1>3. t1 \in Ticks
    BY <1>1, <1>2 DEF Ticks
  <1>4. Since(t1) = IF t1 <= now THEN now - t1 ELSE now - t1 + Wrap
    BY <1>3, SinceFacts
  <1>5. Since(t1) = Since(t0) - p
    BY <1>1, <1>2, <1>4, SinceFacts DEF Ticks
  <1> QED
    BY <1>3, <1>5 DEF t1

\* What is left of a period of i ticks.
LEMMA Divided ==
    ASSUME NEW a \in Nat, NEW i \in Nat \ {0}
    PROVE  /\ i * (a \div i) \in Nat /\ i * (a \div i) <= a
           /\ a - i * (a \div i) = a % i
           /\ a % i \in Nat /\ a % i <= a
  <1> DEFINE q == a \div i
             r == a % i
  <1>1. q \in Int /\ r \in 0..i - 1 /\ a = i * q + r
    OBVIOUS
  <1> HIDE DEF q, r
  <1>2. q >= 0
    <2>1. CASE q < 0
      <3>1. i * q <= i * (-1)
        BY <2>1, <1>1
      <3> QED
        BY <3>1, <1>1
    <2> QED
      BY <2>1, <1>1
  <1>3. i * q >= 0 /\ i * q \in Int
    BY <1>1, <1>2
  <1> QED
    BY <1>1, <1>3 DEF q, r

-----------------------------------------------------------------------------
\* The timer list.

\* FrontFirst, of any list and any remaining times.
Ascending(list, left) == \A j \in 1..Len(list) - 1 : left[list[j]] <= left[list[j + 1]]

\* What furi_event_loop_timer_get_remaining_time returns for each timer.
LeftOf == [u \in Timer |-> Remaining(u)]

\* The remaining times are tick counts.
LEMMA LeftType ==
    ASSUME NEW e \in Ticks, NEW i \in Ticks
    PROVE  Left(e, i) \in Ticks
  BY WrapLarge DEF Left, Ticks

LEMMA LeftOfType == TypeOK => LeftOf \in [Timer -> Ticks]
  <1> SUFFICES ASSUME TypeOK, NEW u \in Timer PROVE Remaining(u) \in Ticks
    BY DEF LeftOf
  <1>1. Elapsed(u) \in Ticks /\ interval[u] \in Ticks
    BY SinceFacts DEF TypeOK, Elapsed
  <1> QED
    BY <1>1, LeftType DEF Remaining

LEMMA FrontFirstAscending == TypeOK => (FrontFirst <=> Ascending(timer_list, LeftOf))
  <1> SUFFICES ASSUME TypeOK PROVE FrontFirst <=> Ascending(timer_list, LeftOf)
    OBVIOUS
  <1>1. ASSUME NEW j \in 1..Len(timer_list) - 1
        PROVE  /\ LeftOf[timer_list[j]] = Remaining(timer_list[j])
               /\ LeftOf[timer_list[j + 1]] = Remaining(timer_list[j + 1])
    <2>1. timer_list \in Seq(Timer) /\ j \in 1..Len(timer_list) /\ j + 1 \in 1..Len(timer_list)
      BY LenProperties DEF TypeOK
    <2>2. timer_list[j] \in Timer /\ timer_list[j + 1] \in Timer
      BY <2>1, LenProperties
    <2> QED
      BY <2>2 DEF LeftOf
  <1> QED
    BY <1>1 DEF FrontFirst, Ascending

\* Unlinking a timer keeps the order of the others.
LEMMA UnlinkedFacts ==
    ASSUME NEW list \in Seq(Timer), IsInjective(list), NEW t \in ToSet(list)
    PROVE  /\ Unlinked(list, t) \in Seq(Timer)
           /\ ToSet(Unlinked(list, t)) = ToSet(list) \ {t}
           /\ IsInjective(Unlinked(list, t))
           /\ \A left \in [Timer -> Ticks] :
                Ascending(list, left) => Ascending(Unlinked(list, t), left)
  <1> DEFINE j == CHOOSE k \in DOMAIN list : list[k] = t
             r == RemoveAt(list, j)
  <1>1. j \in DOMAIN list /\ list[j] = t
    BY DEF ToSet
  <1>2. Unlinked(list, t) = r
    BY DEF Unlinked
  <1> HIDE DEF j
  <1>3. r \in Seq(Timer) /\ ToSet(r) = ToSet(list) \ {t} /\ IsInjective(r)
    BY <1>1, RemoveAtFacts
  <1>4. /\ DOMAIN r = 1..Len(list) - 1
        /\ \A k \in 1..Len(list) - 1 : r[k] = IF k < j THEN list[k] ELSE list[k + 1]
    BY <1>1, RemoveAtElements
  <1>5. Len(r) = Len(list) - 1 /\ DOMAIN list = 1..Len(list) /\ Len(list) \in Nat
    BY <1>1, <1>3, <1>4, LenProperties
  <1> HIDE DEF r
  <1>6. ASSUME NEW left \in [Timer -> Ticks], Ascending(list, left),
               NEW k \in 1..Len(r) - 1
        PROVE  left[r[k]] <= left[r[k + 1]]
    <2>1. \A m \in DOMAIN list : left[list[m]] \in Int
      <3>1. \A m \in DOMAIN list : list[m] \in Timer
        BY <1>5, LenProperties
      <3> QED
        BY <3>1, WrapLarge DEF Ticks
    <2>2. \A m \in 1..Len(list) - 1 : left[list[m]] <= left[list[m + 1]]
      BY <1>6 DEF Ascending
    <2>3. CASE k + 1 < j
      BY <2>2, <2>3, <1>1, <1>4, <1>5
    <2>4. CASE k + 1 = j
      <3>1. r[k] = list[k] /\ r[k + 1] = list[k + 2]
        BY <2>4, <1>1, <1>4, <1>5
      <3>2. left[list[k]] <= left[list[k + 1]] /\ left[list[k + 1]] <= left[list[k + 2]]
        BY <2>2, <2>4, <1>5
      <3> QED
        BY <3>1, <3>2, <2>1, <1>5
    <2>5. CASE k + 1 > j
      BY <2>2, <2>5, <1>1, <1>4, <1>5
    <2> QED
      BY <2>3, <2>4, <2>5, <1>1, <1>5
  <1> QED
    BY <1>2, <1>3, <1>6 DEF Ascending

\* So does taking the first.
LEMMA TailAscending ==
    ASSUME NEW list \in Seq(Timer), list # <<>>, NEW left, Ascending(list, left)
    PROVE  Ascending(Tail(list), left)
  <1>1. Len(list) \in Nat \ {0} /\ Len(Tail(list)) = Len(list) - 1
        /\ \A k \in 1..Len(list) - 1 : Tail(list)[k] = list[k + 1]
    BY HeadTailProperties, LenProperties, EmptySeq
  <1>2. ASSUME NEW k \in 1..Len(Tail(list)) - 1
        PROVE  left[Tail(list)[k]] <= left[Tail(list)[k + 1]]
    <2>1. k \in 1..Len(list) - 1 /\ k + 1 \in 1..Len(list) - 1
      BY <1>1
    <2>2. left[list[k + 1]] <= left[list[k + 1 + 1]]
      BY <2>1 DEF Ascending
    <2> QED
      BY <2>1, <2>2, <1>1
  <1> QED
    BY <1>2 DEF Ascending

\* The search of furi_event_loop_schedule_timer, from the back, ends where
\* everything behind has more time left.
LEMMA PositionFacts ==
    ASSUME NEW list \in Seq(Timer), NEW left \in [Timer -> Ticks], NEW i, NEW s,
           Left(Since(s), i) \in Ticks
    PROVE  LET p == ListPosition(list, left, i, s)
           IN  /\ p \in 0..Len(list)
               /\ p > 0 => Left(Since(s), i) >= left[list[p]]
               /\ \A m \in p + 1..Len(list) : Left(Since(s), i) < left[list[m]]
  <1> DEFINE l == Left(Since(s), i)
             S == {0} \cup {n \in DOMAIN list : l >= left[list[n]]}
             p == Max(S)
  <1>1. DOMAIN list = 1..Len(list) /\ Len(list) \in Nat
    BY LenProperties
  <1>2. S \in SUBSET (0..Len(list)) /\ S # {}
    BY <1>1
  <1>3. p \in S /\ \A y \in S : p >= y
    BY <1>1, <1>2, MaxFacts
  <1> HIDE DEF p
  <1>4. p > 0 => l >= left[list[p]]
    BY <1>3
  <1>5. ASSUME NEW m \in p + 1..Len(list) PROVE l < left[list[m]]
    <2>1. m \in DOMAIN list /\ m \notin S
      BY <1>1, <1>2, <1>3
    <2>2. list[m] \in Timer
      BY <2>1, LenProperties
    <2> QED
      BY <2>1, <2>2, WrapLarge DEF Ticks
  <1>6. ListPosition(list, left, i, s) = p
    BY DEF ListPosition, p
  <1> QED
    BY <1>2, <1>3, <1>4, <1>5, <1>6

\* A timer that is scheduled joins the list, which stays sorted.
LEMMA ScheduledFacts ==
    ASSUME TypeOK, NEW list \in Seq(Timer), IsInjective(list), Ascending(list, LeftOf),
           NEW t \in Timer, t \notin ToSet(list), NEW i \in Ticks, NEW s \in Ticks,
           NEW left \in [Timer -> Ticks], left[t] = Left(Since(s), i),
           \A u \in Timer \ {t} : left[u] = Remaining(u)
    PROVE  /\ Scheduled(list, t, i, s) \in Seq(Timer)
           /\ ToSet(Scheduled(list, t, i, s)) = ToSet(list) \cup {t}
           /\ IsInjective(Scheduled(list, t, i, s))
           /\ Ascending(Scheduled(list, t, i, s), left)
  <1> DEFINE p == ListPosition(list, LeftOf, i, s)
             r == InsertAt(list, p + 1, t)
  <1>1. Left(Since(s), i) \in Ticks
    BY SinceFacts, LeftType DEF TypeOK
  <1>2. /\ p \in 0..Len(list)
        /\ p > 0 => left[t] >= LeftOf[list[p]]
        /\ \A m \in p + 1..Len(list) : left[t] < LeftOf[list[m]]
    BY <1>1, LeftOfType, PositionFacts
  <1>3. Scheduled(list, t, i, s) = r
    BY DEF Scheduled, LeftOf
  <1> HIDE DEF p
  <1>4. r \in Seq(Timer) /\ ToSet(r) = ToSet(list) \cup {t} /\ IsInjective(r)
    BY <1>2, InsertAtElements, InsertAtFacts
  <1>5. /\ DOMAIN r = 1..Len(list) + 1
        /\ \A n \in 1..Len(list) + 1 :
              r[n] = IF n <= p THEN list[n] ELSE IF n = p + 1 THEN t ELSE list[n - 1]
    BY <1>2, InsertAtElements
  <1>6. Len(r) = Len(list) + 1 /\ DOMAIN list = 1..Len(list) /\ Len(list) \in Nat
    BY <1>4, <1>5, LenProperties
  <1> HIDE DEF r
  <1>7. \A m \in 1..Len(list) : left[list[m]] = LeftOf[list[m]] /\ left[list[m]] \in Int
    <2> SUFFICES ASSUME NEW m \in 1..Len(list)
                 PROVE  left[list[m]] = LeftOf[list[m]] /\ left[list[m]] \in Int
      OBVIOUS
    <2>1. list[m] \in Timer /\ list[m] # t
      BY <1>6, LenProperties DEF ToSet
    <2> QED
      BY <2>1, WrapLarge DEF LeftOf, Ticks
  <1>8. left[t] \in Int
    BY WrapLarge DEF Ticks
  <1>9. ASSUME NEW k \in 1..Len(r) - 1 PROVE left[r[k]] <= left[r[k + 1]]
    <2>1. CASE k < p
      <3>1. r[k] = list[k] /\ r[k + 1] = list[k + 1] /\ k \in 1..Len(list) - 1
            /\ k + 1 \in 1..Len(list)
        BY <2>1, <1>2, <1>5, <1>6
      <3>2. LeftOf[list[k]] <= LeftOf[list[k + 1]]
        BY <3>1 DEF Ascending
      <3> QED
        BY <3>1, <3>2, <1>6, <1>7
    <2>2. CASE k = p
      <3>1. r[k] = list[k] /\ r[k + 1] = t /\ k \in 1..Len(list)
        BY <2>2, <1>2, <1>5, <1>6
      <3> QED
        BY <3>1, <2>2, <1>2, <1>7, <1>8
    <2>3. CASE k = p + 1
      <3>1. r[k] = t /\ r[k + 1] = list[k] /\ k \in p + 1..Len(list) /\ k \in 1..Len(list)
        BY <2>3, <1>2, <1>5, <1>6
      <3> QED
        BY <3>1, <1>2, <1>7, <1>8
    <2>4. CASE k > p + 1
      <3>1. r[k] = list[k - 1] /\ r[k + 1] = list[k] /\ k - 1 \in 1..Len(list) - 1
            /\ k \in 1..Len(list) /\ (k - 1) + 1 = k
        BY <2>4, <1>2, <1>5, <1>6
      <3>2. LeftOf[list[k - 1]] <= LeftOf[list[k]]
        BY <3>1 DEF Ascending
      <3> QED
        BY <3>1, <3>2, <1>6, <1>7
    <2> QED
      BY <2>1, <2>2, <2>3, <2>4, <1>2, <1>6
  <1> QED
    BY <1>3, <1>4, <1>9 DEF Ascending

-----------------------------------------------------------------------------
\* The steps.

\* NoDrift, of the timers and of the tick.
TimerPeriods == \A t \in ToSet(timer_list) : interval[t] > 0 => Elapsed(t) = age[t]
TickPeriods == tick_interval > 0 => Since(prev_time) = tick_age

clocks == <<now, timer_list, interval, start_time, age>>

\* A step that leaves the clocks alone.
LEMMA ClocksKept ==
    ASSUME FrontFirst, TimerPeriods, UNCHANGED clocks
    PROVE  FrontFirst' /\ TimerPeriods'
  BY DEF FrontFirst, TimerPeriods, clocks, Remaining, Elapsed, Since

LEMMA TickKept ==
    ASSUME TickPeriods, UNCHANGED <<now, tick>>
    PROVE  TickPeriods'
  BY DEF TickPeriods, tick, Since

LEMMA TimerInitially == Init => TimerInv
  <1> SUFFICES ASSUME Init PROVE TimerInv
    OBVIOUS
  <1> USE DEF Init
  <1>1. TypeOK
    <2>1. 0 \in Ticks /\ 0 \in 0..Forever /\ 0 \in 0..MaxAge
      BY WrapLarge DEF Ticks, Forever
    <2>2. timer_list \in Seq(Timer) /\ timer_queue \in Seq(Timer)
      OBVIOUS
    <2>3. /\ interval \in [Timer -> Ticks] /\ next_interval \in [Timer -> Ticks]
          /\ start_time \in [Timer -> Ticks] /\ age \in [Timer -> 0..MaxAge]
          /\ request \in [Timer -> Request] /\ active \in [Timer -> BOOLEAN]
      BY <2>1 DEF Request
    <2> QED
      BY <2>1, <2>2, <2>3, Zenon DEF TypeOK, AppPc
  <1>2. \A S : <<>> \in Seq(S) /\ Len(<<>>) = 0 /\ DOMAIN <<>> = {}
    OBVIOUS
  <1>3. ListsExact
    BY <1>2 DEF ListsExact, IsInjective, ToSet
  <1>4. FrontFirst
    BY <1>2 DEF FrontFirst
  <1>5. NoDrift
    BY <1>2 DEF NoDrift, ToSet
  <1> QED
    BY <1>1, <1>3, <1>4, <1>5
       DEF TimerInv, DeadUnlisted, FreesAll, FlagsRestored, RequestsNoticed

\* A system tick brings every timer of the list closer to its end.
LEMMA TimePassesKeeps ==
    ASSUME TimerInv, TimePasses
    PROVE  TimerInv'
  <1> USE DEF TimerInv
  <1>1. Wrap \in Nat /\ MaxAge \in 1..Wrap - 1
    BY WrapLarge
  <1>2. now' = (now + 1) % Wrap /\ now' \in Ticks
    BY <1>1 DEF TimePasses, TypeOK, Ticks
  <1>3. age' \in [Timer -> 0..MaxAge] /\ tick_age' \in 0..MaxAge
    BY <1>1 DEF TimePasses, TypeOK, Ticks
  <1>4. sleep' \in 0..Forever
    BY <1>1 DEF TimePasses, TypeOK, Forever
  <1>5. TypeOK'
    BY <1>2, <1>3, <1>4 DEF TimePasses, TypeOK, lists, fields
  <1>6. /\ ListsExact' /\ DeadUnlisted' /\ FreesAll' /\ FlagsRestored' /\ RequestsNoticed'
        /\ timer_list' = timer_list /\ interval' = interval
    BY DEF TimePasses, lists, fields, ListsExact, DeadUnlisted, FreesAll, FlagsRestored,
           RequestsNoticed
  <1>7. ASSUME NEW u \in ToSet(timer_list)
        PROVE  /\ interval[u] > 0 => Elapsed(u)' = Elapsed(u) + 1 /\ age'[u] = age[u] + 1
               /\ Remaining(u)' = IF Remaining(u) = 0 THEN 0 ELSE Remaining(u) - 1
    <2>1. u \in Timer /\ active[u] /\ interval[u] \in Nat /\ start_time[u] \in Ticks
      BY <1>7 DEF ListsExact, TypeOK, Ticks
    <2>2. Elapsed(u) \in Nat
      BY <2>1, SinceFacts DEF TypeOK, Elapsed, Ticks
    <2>3. CASE interval[u] = 0
      <3>1. (now' - start_time[u] + Wrap) % Wrap \in Nat
        BY <2>1, <1>1, <1>2 DEF Ticks
      <3>2. Elapsed(u)' \in Nat
        BY <3>1 DEF Elapsed, Since, TimePasses, fields
      <3> QED
        BY <2>2, <2>3, <3>2, <1>6 DEF Remaining, Left
    <2>4. CASE interval[u] > 0
      <3>1. Elapsed(u) = age[u] /\ age[u] < MaxAge /\ age'[u] = age[u] + 1
        BY <2>1, <2>4, <1>7 DEF NoDrift, TimePasses
      <3>2. Since(start_time[u]) + 1 < Wrap
        BY <3>1, <2>1, <1>1 DEF Elapsed, TypeOK
      <3>3. Elapsed(u)' = Elapsed(u) + 1
        BY <2>1, <3>2, <1>2, Later DEF Elapsed, Since, TypeOK, TimePasses, fields
      <3>4. Remaining(u)' = IF Remaining(u) = 0 THEN 0 ELSE Remaining(u) - 1
        BY <3>3, <2>1, <2>2, <1>6 DEF Remaining, Left
      <3> QED
        BY <3>1, <3>3, <3>4
    <2> QED
      BY <2>1, <2>3, <2>4
  <1>8. NoDrift'
    <2>1. ASSUME NEW u \in ToSet(timer_list), interval[u] > 0 PROVE Elapsed(u)' = age'[u]
      BY <2>1, <1>7 DEF NoDrift
    <2>2. ASSUME tick_interval > 0 PROVE Since(prev_time)' = tick_age'
      <3>1. Since(prev_time) = tick_age /\ tick_age < MaxAge /\ tick_age' = tick_age + 1
        BY <2>2 DEF NoDrift, TimePasses
      <3>2. Since(prev_time) + 1 < Wrap
        BY <3>1, <1>1 DEF TypeOK
      <3>3. Since(prev_time)' = Since(prev_time) + 1
        BY <3>2, <1>2, Later DEF Since, TypeOK, TimePasses
      <3> QED
        BY <3>1, <3>3
    <2> QED
      BY <2>1, <2>2, <1>6 DEF NoDrift, TimePasses
  <1>9. FrontFirst'
    <2> SUFFICES ASSUME NEW j \in 1..Len(timer_list) - 1
                 PROVE  Remaining(timer_list[j])' <= Remaining(timer_list[j + 1])'
      BY <1>6 DEF FrontFirst
    <2>1. j \in DOMAIN timer_list /\ j + 1 \in DOMAIN timer_list
      BY LenProperties DEF TypeOK
    <2>2. PICK u \in ToSet(timer_list), v \in ToSet(timer_list) :
              u = timer_list[j] /\ v = timer_list[j + 1]
      BY <2>1 DEF ToSet
    <2>3. u \in Timer /\ v \in Timer
      BY DEF ListsExact, TypeOK
    <2>4. Remaining(u) \in Nat /\ Remaining(v) \in Nat
      BY <2>3, LeftOfType, <1>1 DEF LeftOf, Ticks
    <2>5. Remaining(u) <= Remaining(v)
      BY <2>2 DEF FrontFirst
    <2>6. /\ Remaining(u)' = IF Remaining(u) = 0 THEN 0 ELSE Remaining(u) - 1
          /\ Remaining(v)' = IF Remaining(v) = 0 THEN 0 ELSE Remaining(v) - 1
      BY <1>7
    <2>7. Remaining(u)' <= Remaining(v)'
      BY <2>4, <2>5, <2>6
    <2> QED
      BY <2>2, <2>7, <1>6 DEF Remaining, Elapsed, Since
  <1> QED
    BY <1>5, <1>6, <1>8, <1>9

\* What a step keeps that leaves time, the lists and the timers alone.
LEMMA QuietKeeps ==
    ASSUME TimerInv, UNCHANGED <<now, lists, fields, age>>
    PROVE  ListsExact' /\ DeadUnlisted' /\ FrontFirst' /\ TimerPeriods'
  <1>1. FrontFirst' /\ TimerPeriods'
    BY ClocksKept DEF TimerInv, NoDrift, TimerPeriods, clocks, lists, fields
  <1> QED
    BY <1>1 DEF TimerInv, ListsExact, DeadUnlisted, lists, fields

\* Nothing has elapsed of a period that begins now.
LEMMA Begins == TypeOK => now \in Ticks /\ Since(now) = 0
  BY SinceFacts, WrapLarge DEF TypeOK, Ticks

\* Notifications, and the steps of the loop that only move flags.
LEMMA FlagSteps ==
    ASSUME TimerInv,
           \/ \E f \in Sources : Notify(f)
           \/ Wake \/ QueueDone \/ EventReturn \/ CallbackReturn \/ LoopFree \/ Sleep
    PROVE  TimerInv'
  <1> USE DEF TimerInv
  <1> DEFINE Still == UNCHANGED <<now, lists, fields, age>> /\ UNCHANGED <<now, tick>>
  <1>0. ASSUME Still PROVE ListsExact' /\ DeadUnlisted' /\ FrontFirst' /\ NoDrift'
    BY <1>0, QuietKeeps, TickKept DEF NoDrift, TimerPeriods, TickPeriods
  <1>1. ASSUME NEW f \in Sources, Notify(f) PROVE TimerInv'
    <2>1. Still
      BY <1>1 DEF Notify
    <2>2. TypeOK'
      BY <1>1, SourcesType DEF Notify, TypeOK, lists, fields, tick
    <2>3. FreesAll' /\ FlagsRestored' /\ RequestsNoticed'
      BY <1>1 DEF Notify, FreesAll, FlagsRestored, RequestsNoticed, lists, fields
    <2> QED
      BY <1>0, <2>1, <2>2, <2>3
  <1>2. CASE Wake
    <2>1. Still
      BY <1>2 DEF Wake
    <2>2. TypeOK'
      <3>1. /\ pc' \in {"app", "event_cb", "queue"} /\ halted' \in BOOLEAN
            /\ flags' \subseteq {"Event", "Timer"} /\ sleep' \in 0..Forever
        <4>1. CASE "Stop" \in notified
          BY <1>2, <4>1, WrapLarge DEF Wake, Forever
        <4>2. CASE "Stop" \notin notified
          <5>1. Branch(notified) /\ halted' = halted /\ sleep' = 0
            BY <1>2, <4>2 DEF Wake
          <5>2. notified \subseteq {"Event", "Timer"}
            BY <4>2 DEF TypeOK
          <5>3. pc' \in {"event_cb", "queue"} /\ flags' \subseteq notified
            BY <5>1 DEF Branch
          <5> QED
            BY <5>1, <5>2, <5>3, WrapLarge DEF Forever, TypeOK
        <4> QED
          BY <4>1, <4>2
      <3> QED
        BY <1>2, <3>1 DEF Wake, TypeOK, lists, fields, tick, AppPc
    <2>3. FreesAll' /\ FlagsRestored'
      BY <1>2 DEF Wake, Branch, FreesAll, FlagsRestored
    <2>4. RequestsNoticed'
      BY <1>2 DEF Wake, Branch, FlagsRestored, RequestsNoticed, lists
    <2> QED
      BY <1>0, <2>1, <2>2, <2>3, <2>4
  <1>3. CASE QueueDone
    <2>1. Still
      BY <1>3 DEF QueueDone
    <2>2. TypeOK'
      BY <1>3 DEF QueueDone, TypeOK, lists, fields, tick, AppPc
    <2>3. FreesAll' /\ FlagsRestored' /\ RequestsNoticed'
      BY <1>3 DEF QueueDone, FreesAll, FlagsRestored, RequestsNoticed, lists
    <2> QED
      BY <1>0, <2>1, <2>2, <2>3
  <1>4. CASE EventReturn
    <2>1. Still
      BY <1>4 DEF EventReturn
    <2>2. TypeOK'
      BY <1>4 DEF EventReturn, TypeOK, lists, fields, tick, AppPc
    <2>3. FreesAll' /\ FlagsRestored' /\ RequestsNoticed'
      BY <1>4 DEF EventReturn, FreesAll, FlagsRestored, RequestsNoticed, lists
    <2> QED
      BY <1>0, <2>1, <2>2, <2>3
  <1>5. CASE CallbackReturn
    <2>1. Still
      BY <1>5 DEF CallbackReturn
    <2>2. TypeOK'
      BY <1>5 DEF CallbackReturn, TypeOK, lists, fields, tick, AppPc
    <2>3. FreesAll' /\ FlagsRestored' /\ RequestsNoticed'
      BY <1>5 DEF CallbackReturn, FreesAll, FlagsRestored, RequestsNoticed, lists
    <2> QED
      BY <1>0, <2>1, <2>2, <2>3
  <1>6. CASE LoopFree
    <2>1. Still
      BY <1>6 DEF LoopFree
    <2>2. TypeOK'
      BY <1>6 DEF LoopFree, TypeOK, lists, fields, tick, AppPc
    <2>3. FreesAll' /\ FlagsRestored' /\ RequestsNoticed'
      BY <1>6 DEF LoopFree, FreesAll, FlagsRestored, RequestsNoticed, lists, fields
    <2> QED
      BY <1>0, <2>1, <2>2, <2>3
  <1>7. CASE Sleep
    <2>1. Still
      BY <1>7 DEF Sleep
    <2>2. TimerWaitTime \in 0..Forever /\ TickWaitTime \in 0..Forever
      <3>1. Ticks \subseteq 0..Forever /\ Forever \in 0..Forever
        BY WrapLarge DEF Ticks, Forever
      <3>2. timer_list # <<>> => Head(timer_list) \in Timer
        BY TailFacts DEF TypeOK
      <3>3. timer_list # <<>> => Remaining(Head(timer_list)) \in Ticks
        BY <3>2, LeftOfType DEF LeftOf
      <3>4. Left(Since(prev_time), tick_interval) \in Ticks
        BY SinceFacts, LeftType DEF TypeOK
      <3> QED
        BY <3>1, <3>3, <3>4 DEF TimerWaitTime, TickWaitTime
    <2>3. Min({TimerWaitTime, TickWaitTime}) \in 0..Forever
      BY <2>2, WrapLarge DEF Min, Forever
    <2>4. TypeOK'
      BY <1>7, <2>3 DEF Sleep, TypeOK, lists, fields, tick, AppPc
    <2>5. FreesAll' /\ FlagsRestored' /\ RequestsNoticed'
      BY <1>7 DEF Sleep, FreesAll, FlagsRestored, RequestsNoticed, lists
    <2> QED
      BY <1>0, <2>1, <2>4, <2>5
  <1> QED
    BY <1>1, <1>2, <1>3, <1>4, <1>5, <1>6, <1>7

\* The tick is set, begins or is served; the loop is freed.
LEMMA TickSteps ==
    ASSUME TimerInv,
           (\E i \in TickInterval : TickSet(i)) \/ Run \/ ProcessTick \/ LoopFreed
    PROVE  TimerInv'
  <1> USE DEF TimerInv
  <1> DEFINE Still == UNCHANGED <<now, lists, fields, age>>
  <1>0. ASSUME Still, TickPeriods' PROVE ListsExact' /\ DeadUnlisted' /\ FrontFirst' /\ NoDrift'
    BY <1>0, QuietKeeps DEF NoDrift, TimerPeriods, TickPeriods
  <1>00. 0 \in Ticks /\ 0 \in 0..MaxAge
    BY WrapLarge DEF Ticks
  <1>1. ASSUME NEW i \in TickInterval, TickSet(i) PROVE TimerInv'
    <2>1. Still
      BY <1>1 DEF TickSet
    <2>2. i \in Ticks
      BY IntervalType, WrapLarge DEF Ticks
    <2>3. TypeOK'
      BY <1>1, <2>2, <1>00, Begins DEF TickSet, TypeOK, lists, fields
    <2>4. TickPeriods'
      BY <1>1, Begins DEF TickSet, TickPeriods, Since
    <2>5. FreesAll' /\ FlagsRestored' /\ RequestsNoticed'
      BY <1>1 DEF TickSet, FreesAll, FlagsRestored, RequestsNoticed, lists, fields
    <2> QED
      BY <1>0, <2>1, <2>3, <2>4, <2>5
  <1>2. CASE Run
    <2>1. Still
      BY <1>2 DEF Run
    <2>2. TypeOK'
      BY <1>2, <1>00, Begins DEF Run, TypeOK, lists, fields, AppPc
    <2>3. TickPeriods'
      BY <1>2, Begins DEF Run, TickPeriods, NoDrift, Since
    <2>4. FreesAll' /\ FlagsRestored' /\ RequestsNoticed'
      BY <1>2 DEF Run, FreesAll, FlagsRestored, RequestsNoticed, lists
    <2> QED
      BY <1>0, <2>1, <2>2, <2>3, <2>4
  <1>3. CASE ProcessTick
    <2>1. Still
      BY <1>3 DEF ProcessTick
    <2>2. CASE ~(tick_interval > 0 /\ Since(prev_time) >= tick_interval)
      <3>1. TypeOK'
        BY <1>3, <2>2 DEF ProcessTick, TypeOK, lists, fields, AppPc
      <3>2. TickPeriods'
        BY <1>3, <2>2 DEF ProcessTick, TickPeriods, NoDrift, Since
      <3>3. FreesAll' /\ FlagsRestored' /\ RequestsNoticed'
        BY <1>3, <2>2 DEF ProcessTick, TimedOut, FreesAll, FlagsRestored, RequestsNoticed, lists
      <3> QED
        BY <1>0, <2>1, <3>1, <3>2, <3>3
    <2>3. CASE tick_interval > 0 /\ Since(prev_time) >= tick_interval
      <3>1. /\ pc' = "tick_cb" /\ prev_time' = TickPeriod /\ tick_age' = tick_age - tick_interval
            /\ tick_interval' = tick_interval /\ now' = now
        BY <1>3, <2>3 DEF ProcessTick
      <3>2. /\ tick_interval \in Nat /\ tick_age = Since(prev_time) /\ Since(prev_time) \in Nat
            /\ tick_age \in 0..MaxAge /\ MaxAge \in Nat
        BY <2>3, SinceFacts, WrapLarge DEF NoDrift, TypeOK, Ticks
      <3>3. TickPeriod \in Ticks /\ Since(TickPeriod) = Since(prev_time) - tick_interval
        BY <2>3, <3>2, SetForward DEF TickPeriod, TypeOK
      <3>4. tick_age' \in 0..MaxAge
        BY <3>1, <3>2, <2>3
      <3>5. TypeOK'
        BY <1>3, <3>1, <3>3, <3>4 DEF ProcessTick, TypeOK, lists, fields, AppPc
      <3>6. TickPeriods'
        BY <3>1, <3>2, <3>3 DEF TickPeriods, Since
      <3>7. FreesAll' /\ FlagsRestored' /\ RequestsNoticed'
        BY <1>3, <3>1 DEF ProcessTick, TimedOut, FreesAll, FlagsRestored, RequestsNoticed, lists
      <3> QED
        BY <1>0, <2>1, <3>5, <3>6, <3>7
    <2> QED
      BY <2>2, <2>3
  <1>4. CASE LoopFreed
    <2>1. Still
      BY <1>4 DEF LoopFreed
    <2>2. TypeOK'
      BY <1>4, <1>00 DEF LoopFreed, TypeOK, lists, fields, AppPc
    <2>3. TickPeriods'
      BY <1>4 DEF LoopFreed, TickPeriods
    <2>4. FreesAll' /\ FlagsRestored' /\ RequestsNoticed'
      BY <1>4 DEF LoopFreed, FreesAll, FlagsRestored, RequestsNoticed, lists
    <2> QED
      BY <1>0, <2>1, <2>2, <2>3, <2>4
  <1> QED
    BY <1>1, <1>2, <1>3, <1>4

\* furi_event_loop_timer_alloc
LEMMA AllocKeeps ==
    ASSUME TimerInv, NEW t \in Timer, TimerAlloc(t)
    PROVE  TimerInv'
  <1> USE DEF TimerInv
  <1>1. TypeOK'
    BY DEF TimerAlloc, TypeOK, lists, tick
  <1>2. FrontFirst' /\ TimerPeriods' /\ TickPeriods'
    BY ClocksKept, TickKept DEF TimerAlloc, clocks, lists, NoDrift, TimerPeriods, TickPeriods
  <1>3. ~active[t] /\ request[t] = "None"
    BY DEF TimerAlloc, DeadUnlisted
  <1>4. ListsExact' /\ DeadUnlisted'
    BY <1>3 DEF TimerAlloc, ListsExact, DeadUnlisted, lists
  <1>5. FreesAll' /\ FlagsRestored' /\ RequestsNoticed'
    BY DEF TimerAlloc, InApp, AppPc, FreesAll, FlagsRestored, RequestsNoticed, lists
  <1> QED
    BY <1>1, <1>2, <1>4, <1>5 DEF NoDrift, TimerPeriods, TickPeriods

\* A request goes to the back of the queue, from wherever it was.
LEMMA EnqueueKeeps ==
    ASSUME TimerInv, NEW t \in Timer, NEW r \in {"Start", "Stop", "Free"}, Enqueue(t, r),
           next_interval' \in [Timer -> Ticks]
    PROVE  TimerInv'
  <1> USE DEF TimerInv
  <1> DEFINE q == IF request[t] = "None" THEN timer_queue ELSE Unlinked(timer_queue, t)
  <1>1. q \in Seq(Timer) /\ IsInjective(q) /\ ToSet(q) = ToSet(timer_queue) \ {t}
    <2>1. CASE request[t] = "None"
      BY <2>1 DEF TypeOK, ListsExact
    <2>2. CASE request[t] # "None"
      <3>1. t \in ToSet(timer_queue)
        BY <2>2 DEF Enqueue, ListsExact
      <3> QED
        BY <2>2, <3>1, UnlinkedFacts DEF TypeOK, ListsExact
    <2> QED
      BY <2>1, <2>2
  <1>2. timer_queue' = Append(q, t)
    BY DEF Enqueue, EnqueueRequest
  <1> HIDE DEF q
  <1>3. /\ timer_queue' \in Seq(Timer) /\ IsInjective(timer_queue')
        /\ ToSet(timer_queue') = ToSet(timer_queue) \cup {t}
    BY <1>1, <1>2, AppendFacts
  <1>4. TypeOK'
    BY <1>3 DEF Enqueue, EnqueueRequest, TypeOK, Request, tick
  <1>5. ListsExact' /\ DeadUnlisted'
    BY <1>3 DEF Enqueue, EnqueueRequest, ListsExact, DeadUnlisted, TypeOK
  <1>6. FrontFirst' /\ TimerPeriods' /\ TickPeriods'
    BY ClocksKept, TickKept DEF Enqueue, clocks, NoDrift, TimerPeriods, TickPeriods
  <1>7. FreesAll' /\ FlagsRestored' /\ RequestsNoticed'
    BY DEF Enqueue, EnqueueRequest, InApp, AppPc, FreesAll, FlagsRestored, RequestsNoticed
  <1> QED
    BY <1>4, <1>5, <1>6, <1>7 DEF NoDrift, TimerPeriods, TickPeriods

LEMMA RequestKeeps ==
    ASSUME TimerInv, NEW t \in Timer,
           (\E i \in Interval : TimerStart(t, i)) \/ TimerRestart(t) \/ TimerStop(t) \/ TimerFree(t)
    PROVE  TimerInv'
  <1>1. next_interval' \in [Timer -> Ticks]
    <2>1. Interval \subseteq Ticks
      BY IntervalType, WrapLarge DEF Ticks
    <2> QED
      BY <2>1 DEF TimerStart, TimerRestart, TimerStop, TimerFree, TimerInv, TypeOK
  <1>2. \E r \in {"Start", "Stop", "Free"} : Enqueue(t, r)
    BY DEF TimerStart, TimerRestart, TimerStop, TimerFree
  <1> QED
    BY <1>1, <1>2, EnqueueKeeps

\* The timer that a request is for is out of the list, which is sorted without it.
LEMMA DetachedFacts ==
    ASSUME TimerInv, NEW t \in alive
    PROVE  /\ Detached(t) \in Seq(Timer)
           /\ ToSet(Detached(t)) = {u \in alive \ {t} : active[u]}
           /\ IsInjective(Detached(t))
           /\ Ascending(Detached(t), LeftOf)
  <1> USE DEF TimerInv
  <1>1. Ascending(timer_list, LeftOf) /\ LeftOf \in [Timer -> Ticks]
    BY FrontFirstAscending, LeftOfType
  <1>2. CASE active[t]
    <2>1. t \in ToSet(timer_list)
      BY <1>2 DEF ListsExact
    <2> QED
      BY <1>1, <1>2, <2>1, UnlinkedFacts DEF Detached, TypeOK, ListsExact
  <1>3. CASE ~active[t]
    BY <1>1, <1>3 DEF Detached, TypeOK, ListsExact
  <1> QED
    BY <1>2, <1>3

\* A round of furi_event_loop_process_timer_queue, whatever the request.
LEMMA ProcessKeeps ==
    ASSUME TimerInv, ProcessRequest
    PROVE  TimerInv'
  <1> USE DEF TimerInv
  <1>1. PICK t \in Timer : t = Head(timer_queue)
    BY TailFacts DEF ProcessRequest, TypeOK
  <1>2. /\ timer_queue' = Tail(timer_queue) /\ timer_queue' \in Seq(Timer)
        /\ IsInjective(timer_queue') /\ ToSet(timer_queue') = ToSet(timer_queue) \ {t}
        /\ t \in ToSet(timer_queue)
    BY <1>1, TailFacts DEF ProcessRequest, TypeOK, ListsExact
  <1>3. t \in alive /\ request[t] # "None"
    BY <1>2 DEF ListsExact
  <1>4. 0 \in Ticks /\ 0 \in 0..MaxAge
    BY WrapLarge DEF Ticks
  <1>5. /\ pc \in {"queue", "free"} /\ now' = now
        /\ UNCHANGED <<pc, sleep, notified, flags, tick, current, halted>>
    BY DEF ProcessRequest
  <1>6. TickPeriods'
    BY <1>5, TickKept DEF NoDrift, TickPeriods
  <1>7. /\ Detached(t) \in Seq(Timer)
        /\ ToSet(Detached(t)) = {u \in alive \ {t} : active[u]}
        /\ IsInjective(Detached(t))
        /\ Ascending(Detached(t), LeftOf)
    BY <1>3, DetachedFacts
  <1>8. FlagsRestored' /\ RequestsNoticed'
    BY <1>5 DEF FlagsRestored, RequestsNoticed
  <1>9. CASE /\ request[t] = "Start"
             /\ active' = [active EXCEPT ![t] = TRUE]
             /\ interval' = [interval EXCEPT ![t] = next_interval[t]]
             /\ start_time' = [start_time EXCEPT ![t] = now]
             /\ request' = [request EXCEPT ![t] = "None"]
             /\ timer_list' = Scheduled(Detached(t), t, next_interval[t], now)
             /\ age' = [age EXCEPT ![t] = 0]
             /\ UNCHANGED <<alive, next_interval>>
    <2>1. next_interval[t] \in Ticks /\ now \in Ticks /\ Since(now) = 0
      BY Begins DEF TypeOK
    <2>2. interval' \in [Timer -> Ticks] /\ start_time' \in [Timer -> Ticks]
      BY <1>9, <2>1 DEF TypeOK
    <2>3. LeftOf' \in [Timer -> Ticks]
      <3> SUFFICES ASSUME NEW u \in Timer PROVE Remaining(u)' \in Ticks
        BY DEF LeftOf
      <3>1. Since(start_time'[u]) \in Ticks /\ interval'[u] \in Ticks
        BY <2>2, SinceFacts DEF TypeOK
      <3> QED
        BY <3>1, <1>5, LeftType DEF Remaining, Elapsed, Since
    <2>4. /\ LeftOf'[t] = Left(Since(now), next_interval[t])
          /\ \A u \in Timer \ {t} : LeftOf'[u] = Remaining(u)
      BY <1>5, <1>9 DEF LeftOf, Remaining, Elapsed, Since, TypeOK
    <2>5. /\ timer_list' \in Seq(Timer)
          /\ ToSet(timer_list') = ToSet(Detached(t)) \cup {t}
          /\ IsInjective(timer_list')
          /\ Ascending(timer_list', LeftOf')
      BY <1>7, <1>9, <2>1, <2>3, <2>4, ScheduledFacts
    <2>6. TypeOK'
      BY <1>2, <1>4, <1>5, <1>9, <2>1, <2>2, <2>5 DEF TypeOK, Request, tick
    <2>7. ListsExact' /\ DeadUnlisted'
      BY <1>2, <1>3, <1>7, <1>9, <2>5 DEF ListsExact, DeadUnlisted, TypeOK
    <2>8. FrontFirst'
      <3>1. (TypeOK => (FrontFirst <=> Ascending(timer_list, LeftOf)))'
        BY FrontFirstAscending, PTL
      <3> QED
        BY <2>5, <2>6, <3>1 DEF Ascending
    <2>9. TimerPeriods'
      <3> SUFFICES ASSUME NEW u \in ToSet(timer_list'), interval'[u] > 0
                   PROVE  Elapsed(u)' = age'[u]
        BY DEF TimerPeriods
      <3>1. CASE u = t
        BY <3>1, <1>5, <1>9, <2>1 DEF Elapsed, Since, TypeOK
      <3>2. CASE u # t
        <4>1. u \in ToSet(timer_list) /\ u \in Timer
          BY <3>2, <2>5, <1>7 DEF ListsExact, TypeOK
        <4> QED
          BY <3>2, <4>1, <1>5, <1>9 DEF Elapsed, Since, NoDrift, TypeOK
      <3> QED
        BY <3>1, <3>2
    <2>10. FreesAll'
      BY <1>3, <1>5, <1>9 DEF FreesAll
    <2> QED
      BY <1>6, <1>8, <2>6, <2>7, <2>8, <2>9, <2>10 DEF NoDrift, TimerPeriods, TickPeriods
  <1>10. CASE /\ request[t] \in {"Stop", "Free"}
              /\ timer_list' = Detached(t)
              /\ active' = [active EXCEPT ![t] = FALSE]
              /\ request' = [request EXCEPT ![t] = "None"]
              /\ age' = [age EXCEPT ![t] = 0]
              /\ \/ request[t] = "Stop" /\ UNCHANGED <<alive, interval, start_time, next_interval>>
                 \/ /\ request[t] = "Free"
                    /\ alive' = alive \ {t}
                    /\ interval' = [interval EXCEPT ![t] = 0]
                    /\ start_time' = [start_time EXCEPT ![t] = 0]
                    /\ next_interval' = [next_interval EXCEPT ![t] = 0]
    <2>1. /\ interval' \in [Timer -> Ticks] /\ start_time' \in [Timer -> Ticks]
          /\ next_interval' \in [Timer -> Ticks] /\ alive' \subseteq Timer
      <3>1. CASE request[t] = "Stop"
        BY <3>1, <1>10 DEF TypeOK
      <3>2. CASE request[t] = "Free"
        <4>1. /\ alive' = alive \ {t}
              /\ interval' = [interval EXCEPT ![t] = 0]
              /\ start_time' = [start_time EXCEPT ![t] = 0]
              /\ next_interval' = [next_interval EXCEPT ![t] = 0]
          BY <3>2, <1>10
        <4> QED
          BY <4>1, <1>4 DEF TypeOK
      <3> QED
        BY <3>1, <3>2, <1>10
    <2>2. TypeOK'
      BY <1>2, <1>4, <1>5, <1>7, <1>10, <2>1 DEF TypeOK, Request, tick
    <2>3. ListsExact' /\ DeadUnlisted'
      BY <1>2, <1>3, <1>7, <1>10 DEF ListsExact, DeadUnlisted, TypeOK
    <2>4. \A u \in Timer \ {t} : LeftOf'[u] = LeftOf[u] /\ Elapsed(u)' = Elapsed(u)
                                 /\ interval'[u] = interval[u] /\ age'[u] = age[u]
      BY <1>5, <1>10 DEF LeftOf, Remaining, Elapsed, Since, TypeOK
    <2>5. FrontFirst'
      <3>1. (TypeOK => (FrontFirst <=> Ascending(timer_list, LeftOf)))'
        BY FrontFirstAscending, PTL
      <3>2. Ascending(timer_list', LeftOf')
        <4> SUFFICES ASSUME NEW j \in 1..Len(Detached(t)) - 1
                     PROVE  LeftOf'[Detached(t)[j]] <= LeftOf'[Detached(t)[j + 1]]
          BY <1>10 DEF Ascending
        <4>1. j \in DOMAIN Detached(t) /\ j + 1 \in DOMAIN Detached(t)
          BY <1>7, LenProperties
        <4>2. Detached(t)[j] \in ToSet(Detached(t)) /\ Detached(t)[j + 1] \in ToSet(Detached(t))
          BY <4>1 DEF ToSet
        <4>3. Detached(t)[j] \in Timer \ {t} /\ Detached(t)[j + 1] \in Timer \ {t}
          BY <4>2, <1>7 DEF TypeOK
        <4> QED
          BY <4>3, <2>4, <1>7 DEF Ascending
      <3> QED
        BY <2>2, <3>1, <3>2 DEF Ascending
    <2>6. TimerPeriods'
      <3> SUFFICES ASSUME NEW u \in ToSet(timer_list'), interval'[u] > 0
                   PROVE  Elapsed(u)' = age'[u]
        BY DEF TimerPeriods
      <3>1. u \in ToSet(timer_list) /\ u \in Timer \ {t}
        BY <1>7, <1>10 DEF ListsExact, TypeOK
      <3> QED
        BY <3>1, <2>4 DEF NoDrift
    <2>7. FreesAll'
      BY <1>3, <1>5, <1>10 DEF FreesAll, TypeOK
    <2> QED
      BY <1>6, <1>8, <2>2, <2>3, <2>5, <2>6, <2>7 DEF NoDrift, TimerPeriods, TickPeriods
  <1> QED
    BY <1>1, <1>9, <1>10 DEF ProcessRequest

\* A timer expires: a period's end is where the next one begins, and the list is
\* sorted again before the callback is called.
LEMMA FireKeeps ==
    ASSUME TimerInv, Fire
    PROVE  TimerInv'
  <1> USE DEF TimerInv
  <1>1. PICK t \in Timer : t = Head(timer_list)
    BY TailFacts DEF Fire, FrontExpired, TypeOK
  <1>2. /\ Tail(timer_list) \in Seq(Timer) /\ IsInjective(Tail(timer_list))
        /\ ToSet(Tail(timer_list)) = ToSet(timer_list) \ {t}
        /\ t \in ToSet(timer_list)
    BY <1>1, TailFacts DEF Fire, FrontExpired, TypeOK, ListsExact
  <1>3. t \in alive /\ active[t]
    BY <1>2 DEF ListsExact
  <1>4. Ascending(Tail(timer_list), LeftOf)
    BY FrontFirstAscending, TailAscending DEF Fire, FrontExpired, TypeOK
  <1>5. /\ pc = "wait" /\ pc' = "timer_cb" /\ current' = t /\ Rearm(t)
        /\ UNCHANGED <<now, sleep, notified, flags, timer_queue, alive, interval, next_interval>>
        /\ UNCHANGED <<request, tick, halted>>
    BY <1>1 DEF Fire, TimedOut
  <1>6. TickPeriods'
    BY <1>5, TickKept DEF NoDrift, TickPeriods
  <1>7. FreesAll' /\ FlagsRestored' /\ RequestsNoticed'
    BY <1>5 DEF FreesAll, FlagsRestored, RequestsNoticed
  <1>8. interval[t] \in Ticks /\ start_time[t] \in Ticks /\ age[t] \in 0..MaxAge
    BY DEF TypeOK
  <1>9. CASE t \in Periodic
    <2>1. /\ start_time' = [start_time EXCEPT ![t] = NextPeriod(t)]
          /\ timer_list' = Scheduled(Tail(timer_list), t, interval[t], NextPeriod(t))
          /\ age' = [age EXCEPT ![t] = IF interval[t] = 0 THEN 0 ELSE age[t] % interval[t]]
          /\ active' = active
      BY <1>5, <1>9 DEF Rearm, TypeOK
    <2>2. Elapsed(t) \in Ticks
      BY <1>8, SinceFacts DEF Elapsed, TypeOK
    <2> DEFINE p == interval[t] * Quotient(Elapsed(t), interval[t])
    <2>3. /\ p \in Nat /\ p <= Elapsed(t)
          /\ interval[t] > 0 => Elapsed(t) - p = Elapsed(t) % interval[t]
      <3>1. interval[t] \in Nat /\ Elapsed(t) \in Nat
        BY <1>8, <2>2 DEF Ticks
      <3>2. CASE interval[t] = 0
        BY <3>1, <3>2 DEF Quotient
      <3>3. CASE interval[t] # 0
        <4> DEFINE i == interval[t]
                   a == Elapsed(t)
                   d == i * (a \div i)
        <4>1. i \in Nat \ {0} /\ a \in Nat
          BY <3>1, <3>3
        <4>2. p = d
          BY <3>3 DEF Quotient
        <4> HIDE DEF i, a
        <4>3. d \in Nat /\ d <= a /\ a - d = a % i
          BY <4>1, Divided
        <4> HIDE DEF d, p
        <4> QED
          BY <4>2, <4>3 DEF i, a
      <3> QED
        BY <3>2, <3>3
    <2>4. NextPeriod(t) = (start_time[t] + p) % Wrap
      BY DEF NextPeriod
    <2> HIDE DEF p
    <2>5. NextPeriod(t) \in Ticks /\ Since(NextPeriod(t)) = Elapsed(t) - p
      BY <1>8, <2>3, <2>4, SetForward DEF Elapsed, TypeOK
    <2>6. start_time' \in [Timer -> Ticks] /\ interval' \in [Timer -> Ticks] /\ now' = now
      BY <1>5, <2>1, <2>5 DEF TypeOK
    <2>7. age' \in [Timer -> 0..MaxAge]
      <3>1. interval[t] # 0 => age[t] % interval[t] \in 0..MaxAge
        <4> SUFFICES ASSUME interval[t] # 0 PROVE age[t] % interval[t] \in 0..MaxAge
          OBVIOUS
        <4>1. age[t] \in Nat /\ interval[t] \in Nat \ {0} /\ MaxAge \in Nat /\ age[t] <= MaxAge
          BY <1>8, WrapLarge DEF Ticks
        <4>2. \A a \in Nat, i \in Nat \ {0} : a % i \in Nat /\ a % i <= a
          BY Divided
        <4> QED
          BY <4>1, <4>2
      <3>2. 0 \in 0..MaxAge
        BY WrapLarge
      <3> QED
        BY <2>1, <3>1, <3>2 DEF TypeOK
    <2>8. LeftOf' \in [Timer -> Ticks]
      <3> SUFFICES ASSUME NEW u \in Timer PROVE Remaining(u)' \in Ticks
        BY DEF LeftOf
      <3>1. Since(start_time'[u]) \in Ticks /\ interval'[u] \in Ticks
        BY <2>6, SinceFacts DEF TypeOK
      <3> QED
        BY <3>1, <2>6, LeftType DEF Remaining, Elapsed, Since
    <2>9. /\ LeftOf'[t] = Left(Since(NextPeriod(t)), interval[t])
          /\ \A u \in Timer \ {t} : LeftOf'[u] = Remaining(u)
      <3>1. interval' = interval /\ start_time'[t] = NextPeriod(t)
            /\ \A u \in Timer \ {t} : start_time'[u] = start_time[u]
        BY <1>5, <2>1 DEF TypeOK
      <3> HIDE DEF NextPeriod
      <3> QED
        BY <3>1, <2>6 DEF LeftOf, Remaining, Elapsed, Since
    <2>10. /\ timer_list' \in Seq(Timer)
           /\ ToSet(timer_list') = ToSet(Tail(timer_list)) \cup {t}
           /\ IsInjective(timer_list')
           /\ Ascending(timer_list', LeftOf')
      BY <1>2, <1>4, <1>8, <2>1, <2>5, <2>8, <2>9, ScheduledFacts
    <2>11. TypeOK'
      BY <1>5, <2>1, <2>6, <2>7, <2>10 DEF TypeOK, AppPc, tick
    <2>12. ListsExact' /\ DeadUnlisted'
      BY <1>2, <1>5, <2>1, <2>10 DEF ListsExact, DeadUnlisted
    <2>13. FrontFirst'
      <3>1. (TypeOK => (FrontFirst <=> Ascending(timer_list, LeftOf)))'
        BY FrontFirstAscending, PTL
      <3> QED
        BY <2>10, <2>11, <3>1 DEF Ascending
    <2>14. TimerPeriods'
      <3> SUFFICES ASSUME NEW u \in ToSet(timer_list'), interval'[u] > 0
                   PROVE  Elapsed(u)' = age'[u]
        BY DEF TimerPeriods
      <3>1. CASE u = t
        <4>1. interval[t] > 0 /\ Elapsed(t) = age[t] /\ interval[t] # 0
          BY <3>1, <1>2, <1>5, <1>8 DEF NoDrift, Ticks
        <4>2. Since(NextPeriod(t)) = age'[t]
          BY <4>1, <2>1, <2>3, <2>5 DEF TypeOK
        <4>3. start_time'[t] = NextPeriod(t)
          BY <2>1 DEF TypeOK
        <4> HIDE DEF NextPeriod
        <4> QED
          BY <3>1, <4>2, <4>3, <2>6 DEF Elapsed, Since
      <3>2. CASE u # t
        <4>1. u \in ToSet(timer_list) /\ u \in Timer
          BY <3>2, <2>10, <1>2 DEF ListsExact, TypeOK
        <4>2. start_time'[u] = start_time[u] /\ age'[u] = age[u] /\ interval'[u] = interval[u]
          BY <3>2, <4>1, <1>5, <2>1 DEF TypeOK
        <4> QED
          BY <4>1, <4>2, <2>6 DEF Elapsed, Since, NoDrift
      <3> QED
        BY <3>1, <3>2
    <2> QED
      BY <1>6, <1>7, <2>11, <2>12, <2>13, <2>14 DEF NoDrift, TimerPeriods, TickPeriods
  <1>10. CASE t \notin Periodic
    <2>1. /\ timer_list' = Tail(timer_list)
          /\ active' = [active EXCEPT ![t] = FALSE]
          /\ age' = [age EXCEPT ![t] = 0]
          /\ start_time' = start_time
      BY <1>5, <1>10 DEF Rearm
    <2>2. TypeOK'
      <3>1. 0 \in 0..MaxAge
        BY WrapLarge
      <3> QED
        BY <1>2, <1>5, <2>1, <3>1 DEF TypeOK, AppPc, tick
    <2>3. ListsExact' /\ DeadUnlisted'
      BY <1>2, <1>3, <1>5, <2>1 DEF ListsExact, DeadUnlisted, TypeOK
    <2>4. LeftOf' = LeftOf
      BY <1>5, <2>1 DEF LeftOf, Remaining, Elapsed, Since
    <2>5. FrontFirst'
      <3>1. (TypeOK => (FrontFirst <=> Ascending(timer_list, LeftOf)))'
        BY FrontFirstAscending, PTL
      <3> QED
        BY <1>4, <2>1, <2>2, <2>4, <3>1 DEF Ascending
    <2>6. TimerPeriods'
      <3> SUFFICES ASSUME NEW u \in ToSet(timer_list'), interval'[u] > 0
                   PROVE  Elapsed(u)' = age'[u]
        BY DEF TimerPeriods
      <3>1. u \in ToSet(timer_list) /\ u \in Timer \ {t}
        BY <1>2, <2>1 DEF ListsExact, TypeOK
      <3> QED
        BY <3>1, <1>5, <2>1 DEF NoDrift, Elapsed, Since, TypeOK
    <2> QED
      BY <1>6, <1>7, <2>2, <2>3, <2>5, <2>6 DEF NoDrift, TimerPeriods, TickPeriods
  <1> QED
    BY <1>9, <1>10

-----------------------------------------------------------------------------

LEMMA TimerKept == TimerInv /\ [Next]_vars => TimerInv'
  <1> SUFFICES ASSUME TimerInv, [Next]_vars PROVE TimerInv'
    OBVIOUS
  <1>1. CASE Application
    BY <1>1, AllocKeeps, RequestKeeps, TickSteps, FlagSteps DEF Application
  <1>2. CASE Loop
    BY <1>2, FlagSteps, TickSteps, ProcessKeeps, FireKeeps DEF Loop
  <1>3. CASE Environment
    BY <1>3, TimePassesKeeps, FlagSteps DEF Environment
  <1>4. CASE UNCHANGED vars
    <2>1. UNCHANGED <<now, lists, fields, age>> /\ UNCHANGED <<now, tick>>
      BY <1>4 DEF vars
    <2>2. ListsExact' /\ DeadUnlisted' /\ FrontFirst' /\ NoDrift'
      BY <2>1, QuietKeeps, TickKept DEF TimerInv, NoDrift, TimerPeriods, TickPeriods
    <2>3. TypeOK'
      BY <1>4 DEF vars, lists, fields, tick, TimerInv, TypeOK
    <2>4. FreesAll' /\ FlagsRestored' /\ RequestsNoticed'
      BY <1>4 DEF vars, lists, fields, TimerInv, FreesAll, FlagsRestored, RequestsNoticed
    <2> QED
      BY <2>2, <2>3, <2>4 DEF TimerInv
  <1> QED
    BY <1>1, <1>2, <1>3, <1>4 DEF Next

\* The inductive invariant holds in every reachable state: in particular every
\* tick count and every remaining time stays within 32 bits.
THEOREM TimerInvariance == Spec => []TimerInv
  BY TimerInitially, TimerKept, PTL DEF Spec

\* The lists of event_loop_timer.c hold exactly the timers whose fields say so, and
\* the list is sorted by remaining time at every moment, for any timers, intervals
\* and modulus of the tick count.
THEOREM TimerListsAgree == Spec => []TimerListsExact
  <1>1. TimerInv => TimerListsExact
    BY DEF TimerInv, TimerListsExact
  <1> QED
    BY TimerInvariance, <1>1, PTL

\* The wrapping arithmetic of periods agrees with a clock that does not wrap, as
\* long as nothing is left unattended for a whole turn of the tick count.
THEOREM PeriodsDoNotDrift == Spec => []NoDrift
  <1>1. TimerInv => NoDrift
    BY DEF TimerInv
  <1> QED
    BY TimerInvariance, <1>1, PTL

\* The furi_check in furi_event_loop_free that no timer is left holds.
THEOREM FreeFindsNone == Spec => []FreeFindsNoTimer
  <1>1. TimerInv => FreeFindsNoTimer
    <2> SUFFICES ASSUME TimerInv, pc = "free", timer_queue = <<>>
                 PROVE  timer_list = <<>> /\ alive = {}
      BY DEF FreeFindsNoTimer
    <2>1. ToSet(timer_queue) = {}
      BY DEF ToSet
    <2>2. alive = {}
      BY <2>1 DEF TimerInv, ListsExact, FreesAll
    <2>3. ToSet(timer_list) = {} /\ timer_list \in Seq(Timer)
      BY <2>2 DEF TimerInv, ListsExact, TypeOK
    <2>4. ASSUME timer_list # <<>> PROVE FALSE
      <3>1. ToSet(timer_list) = ToSet(Tail(timer_list)) \cup {Head(timer_list)}
        BY <2>3, <2>4, TailFacts
      <3> QED
        BY <3>1, <2>3
    <2> QED
      BY <2>2, <2>3, <2>4
  <1> QED
    BY TimerInvariance, <1>1, PTL

\* No callback of a timer begins while a request for it is queued, until the loop
\* is stopped: the flag of the request ends the wait before the timers are served.
THEOREM StoppedIsSilent == Spec => StopSilences
  <1>1. TimerInv /\ [Next]_vars
        => [~halted /\ current = NULL /\ current' # NULL => request[current'] = "None"]_vars
    <2> SUFFICES ASSUME TimerInv, Next, ~halted, current = NULL, current' # NULL
                 PROVE  request[current'] = "None"
      OBVIOUS
    <2>1. Fire
      BY DEF Next, Application, Loop, Environment, TimerAlloc, TimerStart, TimerRestart,
             TimerStop, TimerFree, Enqueue, TickSet, Run, LoopFree, Sleep, Wake,
             ProcessRequest, QueueDone, EventReturn, ProcessTick, CallbackReturn,
             LoopFreed, TimePasses, Notify
    <2>2. timer_queue = <<>>
      BY <2>1 DEF Fire, TimedOut, TimerInv, RequestsNoticed, FlagsRestored
    <2>3. ToSet(timer_queue) = {}
      BY <2>2 DEF ToSet
    <2>4. current' \in ToSet(timer_list)
      BY <2>1, TailFacts DEF Fire, FrontExpired, TimerInv, TypeOK
    <2> QED
      BY <2>3, <2>4 DEF TimerInv, ListsExact
  <1> QED
    BY TimerInvariance, <1>1, PTL DEF Spec, StopSilences

=============================================================================
