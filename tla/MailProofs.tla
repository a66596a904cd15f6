------------------------------ MODULE MailProofs -----------------------------
(***************************************************************************)
(* The mail scheduler: for any calendar, any number of days, subscriptions *)
(* and settings of the clock, every report covers one full period, and no  *)
(* day is reported twice or left out.                                      *)
(*                                                                         *)
(* The proof has two parts.  The calendar: what PeriodRange returns is the *)
(* last boundary of a period and the one before it.  The scheduler: how    *)
(* the day of the last report of a period lies to the boundaries that have *)
(* passed.                                                                 *)
(***************************************************************************)
EXTENDS Mail, TLAPS, WellFoundedInduction, NaturalsInduction

\* The last boundary of a period up to a day, and the one before it.
Last(d, p) == PeriodRange(d, p)[2]
Before(d, p) == PeriodRange(d, p)[1]

\* The day of the last 06:00.
LastTick(q) == Day(q + 1) - 1

BatchDoc == [period : Periods, day : Nat, todo : SUBSET Subs]

MoreTypes ==
  /\ upto \in [Periods -> Int]
  /\ excused \subseteq Periods
  /\ turned \in BOOLEAN
  /\ batch \in BatchDoc
  /\ sets \in Nat /\ changes \in Nat

\* Periods are left to be run only in a round, the daily ones first.
RoundInv ==
  /\ periods # {} => loop \in {"list", "send"}
  /\ loop = "send" => "daily" \notin periods

\* A timer fires at 06:00, unless the clock was set while it ran.
Firing == loop = "sleep" /\ wait = 0
Sharp == now % 2 = 1
TimerInv ==
  loop = "sleep" /\ (~turned \/ excused # Periods)
    => wait = NextTick(now) - now \/ (wait = 0 /\ Sharp)

\* How many days after its boundary the run of a period may begin.
Late == IF "daily" \in periods THEN 0 ELSE IF "weekly" \in periods THEN 2 ELSE 4

LateInv ==
  ~turned => \A p \in periods :
    /\ 2 * Last(Day(now), p) + 1 <= now
    /\ loop = "list" => Day(now) <= Last(Day(now), p) + Late
    /\ loop = "send" => /\ batch.day <= Last(Day(now), p) + (IF "weekly" \in periods THEN 0 ELSE 2)
                        /\ Day(now) <= batch.day + 2

\* Nothing was reported that is due later.
TwiceInv ==
  ~turned => \A p \in Periods :
    upto[p] <= IF p \in periods THEN Before(Day(now), p)
               ELSE IF Firing THEN Last(LastTick(now) - 1, p)
               ELSE Last(LastTick(now), p)

\* All that was due has been reported, unless it is excused.
SkipInv ==
  \A p \in Periods \ excused :
    /\ p \in periods => Boundary(LastTick(now), p) /\ (p = "daily" => Sharp)
    /\ upto[p] >= IF p \in periods THEN Before(Day(now), p)
                  ELSE IF Firing THEN Last(LastTick(now) - 1, p)
                  ELSE Last(LastTick(now), p)

MailInv ==
  /\ MailTypeOK /\ MoreTypes
  /\ RoundInv /\ TimerInv /\ LateInv /\ TwiceInv /\ SkipInv
  /\ ReportOfFullPeriod /\ NoReportTwice /\ NoReportSkipped

-----------------------------------------------------------------------------
(***************************************************************************)
(* The calendar.                                                           *)
(***************************************************************************)
\* A nonempty set of integers with an upper bound has a greatest element.
LEMMA Greatest ==
  ASSUME NEW S, S \subseteq Int, S # {}, NEW d \in Int, \A x \in S : x <= d
  PROVE  \E m \in S : \A x \in S : x <= m
<1> DEFINE T == {d - x : x \in S}
<1>0. \A x \in S : x \in Int /\ x <= d /\ d - x \in Nat
  OBVIOUS
<1>1. T \subseteq Nat /\ T # {}
  BY <1>0
<1>2. \E y \in T : \A z \in T : ~(<<z, y>> \in OpToRel(<, Nat))
  BY <1>1, NatLessThanWellFounded, WFMin
<1>3. PICK y \in T : \A z \in T : ~(z < y)
  BY <1>1, <1>2 DEF OpToRel
<1>4. PICK m \in S : y = d - m
  OBVIOUS
<1>5. ASSUME NEW x \in S PROVE x <= m
  <2>1. d - x \in T
    OBVIOUS
  <2>2. ~(d - x < d - m)
    BY <1>3, <1>4, <2>1
  <2> QED
    BY <2>2
<1> QED
  BY <1>5

\* The first of a month.
LEMMA FirstOfMonth ==
  ASSUME NEW d \in Int, \E f \in Firsts : f <= d
  PROVE  /\ MonthOf(d) \in Firsts /\ MonthOf(d) \in Int /\ MonthOf(d) <= d
         /\ \A g \in Firsts : g <= d => g <= MonthOf(d)
<1> DEFINE S == {f \in Firsts : f <= d}
<1>1. Firsts \subseteq Int
  BY MailAssumption
<1>2. PICK m \in S : \A x \in S : x <= m
  <2>1. S \subseteq Int /\ S # {} /\ \A x \in S : x <= d
    BY <1>1
  <2> HIDE DEF S
  <2> QED
    BY <2>1, Greatest
<1>3. \E f \in Firsts : f <= d /\ \A g \in Firsts : g <= d => g <= f
  BY <1>2
<1> QED
  BY <1>1, <1>3 DEF MonthOf

\* The days about which something can be reported.
Days == {d \in Int : d >= -1}

\* What a last boundary is.
IsLast(b, d, p) == b \in Int /\ b <= d /\ Boundary(b, p) /\ \A e \in b + 1 .. d : ~Boundary(e, p)

LEMMA WeeklyRange ==
  ASSUME NEW d \in Int
  PROVE  /\ IsLast(Last(d, "weekly"), d, "weekly")
         /\ IsLast(Before(d, "weekly"), Last(d, "weekly") - 1, "weekly")
         /\ Before(d, "weekly") \in Int /\ Before(d, "weekly") >= d - 14
         /\ Last(d, "weekly") \in Int /\ Last(d, "weekly") >= d - 14
<1> DEFINE offset == (d % 7) - 1
           m == d - (IF offset < 0 THEN offset + 7 ELSE offset)
<1>1. Last(d, "weekly") = m /\ Before(d, "weekly") = m - 7
  BY DEF Last, Before, PeriodRange, Weekday
<1>2. m \in Int /\ m <= d /\ d <= m + 6 /\ m % 7 = 1 /\ (m - 7) % 7 = 1
  OBVIOUS
<1> HIDE DEF m
<1>3. \A e \in m + 1 .. m + 6 : e % 7 # 1
  BY <1>2
<1>4. \A e \in m - 6 .. m - 1 : e % 7 # 1
  BY <1>2
<1> QED
  BY <1>1, <1>2, <1>3, <1>4 DEF IsLast, Boundary, Weekday

LEMMA DailyRange ==
  ASSUME NEW d \in Int
  PROVE  /\ IsLast(Last(d, "daily"), d, "daily")
         /\ IsLast(Before(d, "daily"), Last(d, "daily") - 1, "daily")
         /\ Before(d, "daily") \in Int /\ Before(d, "daily") >= d - 14
         /\ Last(d, "daily") \in Int /\ Last(d, "daily") >= d - 14
BY DEF Last, Before, PeriodRange, IsLast, Boundary

LEMMA MonthlyRange ==
  ASSUME NEW d \in Days
  PROVE  /\ IsLast(Last(d, "monthly"), d, "monthly")
         /\ d >= 0 => /\ IsLast(Before(d, "monthly"), Last(d, "monthly") - 1, "monthly")
                      /\ Before(d, "monthly") >= -62
         /\ Last(d, "monthly") >= -62
<1> DEFINE m == MonthOf(d)
           b == MonthOf(m - 1)
<1>0. Last(d, "monthly") = m /\ Before(d, "monthly") = b
  BY DEF Last, Before, PeriodRange
<1>1. PICK f \in Firsts, e \in Firsts : -62 <= e /\ e < f /\ f <= 0
  BY MailAssumption
<1>2. d \in Int /\ d >= -1 /\ f \in Int /\ e \in Int /\ e <= d /\ (d >= 0 => f <= d) /\ Firsts \subseteq Int
  BY <1>1, MailAssumption DEF Days
<1>3. m \in Firsts /\ m \in Int /\ m <= d /\ \A g \in Firsts : g <= d => g <= m
  BY <1>2, FirstOfMonth
<1>4. ASSUME d >= 0
      PROVE  /\ b \in Firsts /\ b \in Int /\ b <= m - 1 /\ \A g \in Firsts : g <= m - 1 => g <= b
             /\ e <= m - 1
  <2>1. m - 1 \in Int /\ e <= m - 1
    BY <1>1, <1>2, <1>3, <1>4
  <2> QED
    BY <2>1, FirstOfMonth
<1> HIDE DEF m, b
<1>5. IsLast(m, d, "monthly")
  BY <1>2, <1>3 DEF IsLast, Boundary
<1>6. d >= 0 => IsLast(b, m - 1, "monthly") /\ b >= -62
  BY <1>1, <1>2, <1>3, <1>4 DEF IsLast, Boundary
<1>7. m >= -62
  BY <1>1, <1>2, <1>3
<1> QED
  BY <1>0, <1>5, <1>6, <1>7

\* periodRange gives the last boundary and the one before it.
LEMMA Ranges ==
  ASSUME NEW p \in Periods, NEW d \in Days
  PROVE  /\ IsLast(Last(d, p), d, p) /\ Last(d, p) >= -62
         /\ d >= 0 => IsLast(Before(d, p), Last(d, p) - 1, p) /\ Before(d, p) >= -62
<1>1. d \in Int /\ d >= -1
  BY DEF Days
<1>2. CASE p = "daily"
  BY <1>1, <1>2, DailyRange
<1>3. CASE p = "weekly"
  BY <1>1, <1>3, WeeklyRange
<1>4. CASE p = "monthly"
  BY <1>1, <1>4, MonthlyRange
<1> QED
  BY <1>2, <1>3, <1>4 DEF Periods

\* There is only one last boundary.
LEMMA OneLast ==
  ASSUME NEW p, NEW d \in Int, NEW b, NEW c, IsLast(b, d, p), IsLast(c, d, p)
  PROVE  b = c
<1>1. b \in Int /\ c \in Int /\ b <= d /\ c <= d
  BY DEF IsLast
<1>2. ~(b < c) /\ ~(c < b)
  BY <1>1 DEF IsLast
<1> QED
  BY <1>1, <1>2

\* From one day to the next: at a boundary the last one becomes the one
\* before, otherwise nothing changes.
LEMMA NextDay ==
  ASSUME NEW p \in Periods, NEW d \in Days, d >= 0
  PROVE  /\ Boundary(d, p) => Last(d, p) = d /\ Before(d, p) = Last(d - 1, p)
         /\ ~Boundary(d, p) => Last(d, p) = Last(d - 1, p)
         /\ ~Boundary(d, p) /\ d - 1 >= 0 => Before(d, p) = Before(d - 1, p)
         /\ Last(d - 1, p) <= Last(d, p)
<1>1. d \in Int /\ d - 1 \in Int /\ d - 1 \in Days
  BY DEF Days
<1>2. /\ IsLast(Last(d, p), d, p) /\ IsLast(Before(d, p), Last(d, p) - 1, p)
      /\ IsLast(Last(d - 1, p), d - 1, p)
      /\ d - 1 >= 0 => IsLast(Before(d - 1, p), Last(d - 1, p) - 1, p)
  BY <1>1, Ranges
<1>3. ASSUME Boundary(d, p) PROVE Last(d, p) = d /\ Before(d, p) = Last(d - 1, p)
  <2>1. IsLast(d, d, p)
    BY <1>1, <1>3 DEF IsLast
  <2>2. Last(d, p) = d
    BY <1>1, <1>2, <2>1, OneLast
  <2> QED
    BY <1>1, <1>2, <2>2, OneLast
<1>4. ASSUME ~Boundary(d, p) PROVE Last(d, p) = Last(d - 1, p)
  <2>1. Last(d, p) # d
    BY <1>2, <1>4 DEF IsLast
  <2>2. IsLast(Last(d, p), d - 1, p)
    BY <1>1, <1>2, <2>1 DEF IsLast
  <2> QED
    BY <1>1, <1>2, <2>2, OneLast
<1>5. ASSUME ~Boundary(d, p), d - 1 >= 0 PROVE Before(d, p) = Before(d - 1, p)
  <2>1. Last(d, p) = Last(d - 1, p) /\ Last(d, p) - 1 \in Int
    BY <1>2, <1>4, <1>5 DEF IsLast
  <2> QED
    BY <1>2, <1>5, <2>1, OneLast
<1>6. Last(d - 1, p) <= d - 1
  BY <1>2 DEF IsLast
<1> QED
  BY <1>1, <1>2, <1>3, <1>4, <1>5, <1>6 DEF IsLast

\* Weeks and months are longer than a round of reports takes.
LEMMA LongPeriods ==
  ASSUME NEW p \in Periods, p # "daily", NEW b \in Int, Boundary(b, p), NEW e \in b + 1 .. b + 6
  PROVE  ~Boundary(e, p)
<1>1. CASE p = "weekly"
  BY <1>1 DEF Boundary, Weekday
<1>2. CASE p = "monthly"
  <2>1. \A x, y \in Firsts : x < y => x + 28 <= y
    BY MailAssumption
  <2> QED
    BY <1>2, <2>1 DEF Boundary
<1> QED
  BY <1>1, <1>2 DEF Periods

\* "[from, to) covering the previous full period".
LEMMA RangeIsFull ==
  ASSUME NEW p \in Periods, NEW d \in Days, d >= 0
  PROVE  FullPeriod(PeriodRange(d, p), p, d)
<1>1. IsLast(Last(d, p), d, p) /\ IsLast(Before(d, p), Last(d, p) - 1, p)
  BY Ranges
<1>2. d \in Int
  BY DEF Days
<1> QED
  BY <1>1, <1>2 DEF IsLast, FullPeriod, Last, Before

-----------------------------------------------------------------------------
(***************************************************************************)
(* The instants.                                                           *)
(***************************************************************************)
LEMMA Instant ==
  ASSUME NEW q \in Nat
  PROVE  /\ Day(q) \in Nat /\ Day(q) \in Days /\ LastTick(q) \in Int /\ LastTick(q) \in Days
         /\ NextTick(q) \in Nat /\ NextTick(q) - q \in Nat /\ NextTick(q) - q > 0
         /\ q % 2 = 1 => /\ LastTick(q) = Day(q) /\ q = 2 * Day(q) + 1 /\ NextTick(q) = q + 2
                         /\ Day(q + 1) = Day(q) + 1 /\ (q + 1) % 2 # 1 /\ LastTick(q + 1) = LastTick(q)
         /\ q % 2 # 1 => /\ LastTick(q) = Day(q) - 1 /\ q = 2 * Day(q) /\ NextTick(q) = q + 1
                         /\ Day(q + 1) = Day(q) /\ (q + 1) % 2 = 1 /\ LastTick(q + 1) = LastTick(q) + 1
<1>1. q % 2 = 1 \/ q % 2 = 0
  OBVIOUS
<1>2. CASE q % 2 = 1
  BY <1>2 DEF Day, LastTick, NextTick, Days
<1>3. CASE q % 2 = 0
  BY <1>3 DEF Day, LastTick, NextTick, Days
<1> QED
  BY <1>1, <1>2, <1>3

\* The period before the current one is over since the last 06:00.
LEMMA BeforeIsOver ==
  ASSUME NEW q \in Nat, NEW p \in Periods
  PROVE  /\ Before(Day(q), p) \in Int /\ Last(LastTick(q), p) \in Int /\ Last(Day(q), p) \in Int
         /\ Before(Day(q), p) <= Last(LastTick(q), p)
         /\ Last(LastTick(q), p) <= Last(Day(q), p)
         /\ q % 2 = 1 => /\ Last(LastTick(q) - 1, p) <= Last(LastTick(q), p)
                         /\ Last(LastTick(q) - 1, p) \in Int
<1>1. /\ Day(q) \in Nat /\ Day(q) \in Days /\ LastTick(q) \in Int /\ LastTick(q) \in Days
      /\ q % 2 = 1 => LastTick(q) = Day(q)
      /\ q % 2 # 1 => LastTick(q) = Day(q) - 1
  BY Instant
<1>2. /\ IsLast(Last(Day(q), p), Day(q), p) /\ IsLast(Before(Day(q), p), Last(Day(q), p) - 1, p)
      /\ IsLast(Last(LastTick(q), p), LastTick(q), p)
  BY <1>1, Ranges
<1>3. Last(Day(q), p) \in Int /\ Before(Day(q), p) \in Int /\ Before(Day(q), p) <= Last(Day(q), p)
      /\ Last(LastTick(q), p) \in Int
  BY <1>2 DEF IsLast
<1>4. CASE q % 2 = 1
  <2>1. Last(Day(q) - 1, p) <= Last(Day(q), p) /\ Day(q) - 1 \in Days
    BY <1>1, NextDay DEF Days
  <2>2. Last(Day(q) - 1, p) \in Int
    BY <2>1, Ranges DEF IsLast
  <2> QED
    BY <1>1, <1>3, <1>4, <2>1, <2>2
<1>5. CASE q % 2 # 1
  <2>1. /\ Boundary(Day(q), p) => Before(Day(q), p) = Last(Day(q) - 1, p)
        /\ ~Boundary(Day(q), p) => Last(Day(q), p) = Last(Day(q) - 1, p)
        /\ Last(Day(q) - 1, p) <= Last(Day(q), p)
    BY <1>1, NextDay
  <2> QED
    BY <1>1, <1>3, <1>5, <2>1
<1> QED
  BY <1>4, <1>5

LEMMA Now == ASSUME now \in Instants PROVE now \in Nat
BY MailAssumption DEF Instants

\* The order of the periods in a round.
LEMMA InOrder ==
  ASSUME periods \subseteq Periods, periods # {}
  PROVE  /\ NextPeriod \in periods /\ NextPeriod \in Periods
         /\ "daily" \in periods => NextPeriod = "daily"
         /\ "daily" \notin periods /\ "weekly" \in periods => NextPeriod = "weekly"
<1>1. \E p \in periods : p = "daily" \/ ("daily" \notin periods /\ p = "weekly") \/ periods = {"monthly"}
  BY DEF Periods
<1>2. NextPeriod \in periods /\ (\/ NextPeriod = "daily" \/ ("daily" \notin periods /\ NextPeriod = "weekly")
                                 \/ periods = {"monthly"})
  BY <1>1 DEF NextPeriod
<1> QED
  BY <1>2 

-----------------------------------------------------------------------------
\* A fresh process.
LEMMA MailInvInit == ASSUME MailInit PROVE MailInv
<1> USE DEF MailInit
<1>1. now \in Instants /\ now \in Nat /\ 0 \in Nat
  BY MailAssumption DEF Instants
<1>2. MailTypeOK
  BY <1>1 DEF MailTypeOK, Doc, NoDoc, NoBatch, Periods
<1>3. MoreTypes
  <2>1. Never \in Int
    BY DEF Never
  <2>2. NoBatch \in BatchDoc
    BY DEF BatchDoc, NoBatch, Periods
  <2> QED
    BY <1>1, <2>1, <2>2 DEF MoreTypes
<1>4. RoundInv /\ TimerInv /\ LateInv /\ SkipInv
  BY DEF RoundInv, TimerInv, LateInv, SkipInv
<1>5. ASSUME NEW p \in Periods PROVE Never <= Last(LastTick(now), p)
  <2>1. LastTick(now) \in Days
    BY <1>1, Instant
  <2>2. Last(LastTick(now), p) \in Int /\ Last(LastTick(now), p) >= -62
    BY <2>1, Ranges DEF IsLast
  <2> QED
    BY <2>2 DEF Never
<1>6. TwiceInv
  BY <1>5 DEF TwiceInv, Firing
<1> QED
  BY <1>2, <1>3, <1>4, <1>6 DEF MailInv, ReportOfFullPeriod, NoReportTwice, NoReportSkipped

\* The types.
LEMMA StepTypes ==
  ASSUME MailInv, MailNext
  PROVE  MailTypeOK' /\ MoreTypes'
<1>a. MailTypeOK /\ MoreTypes /\ now \in Nat
  BY Now DEF MailInv, MailTypeOK
<1>b. NoBatch \in BatchDoc /\ NoDoc \in Doc /\ Accepted \subseteq Doc
  BY DEF NoBatch, BatchDoc, Periods, NoDoc, Doc, Accepted
<1>c. \A b \in BatchDoc : b.period \in Periods /\ b.todo \subseteq Subs
  BY DEF BatchDoc
<1>d. NextTick(now) - now \in Nat /\ Day(now) \in Nat
  BY <1>a, Instant
<1>e. CASE Start \/ EndRound
  BY <1>a, <1>b, <1>c, <1>d, <1>e DEF Start, EndRound, Sleep, MailTypeOK, MoreTypes, reportVars
<1>f. CASE StopClose \/ StopForget \/ ProcessEnds \/ LoopStops
  BY <1>a, <1>b, <1>c, <1>f DEF StopClose, StopForget, ProcessEnds, LoopStops, Lost, MailTypeOK, MoreTypes,
                          reportVars, loopVars
<1>g. CASE TimerFires \/ EndBatch
  BY <1>a, <1>b, <1>c, <1>g DEF TimerFires, EndBatch, DuePeriods, MailTypeOK, MoreTypes, reportVars
<1>h. CASE BeginBatch
  <2> DEFINE p == NextPeriod
             b == [period |-> p, day |-> Day(now), todo |-> Listed(p)]
  <2>1. p \in Periods /\ PeriodRange(Day(now), p)[2] \in Int
    <3>1. p \in Periods
      BY <1>a, <1>h, InOrder DEF BeginBatch, MailTypeOK
    <3> QED
      BY <1>a, <3>1, BeforeIsOver DEF Last
  <2>2. b \in BatchDoc
    BY <1>d, <2>1 DEF BatchDoc, Listed
  <2>3. /\ batch' = b /\ upto' = [upto EXCEPT ![p] = PeriodRange(Day(now), p)[2]]
        /\ periods' = periods \ {p} /\ loop' = "send" /\ excused' = excused \ {p}
        /\ UNCHANGED <<now, docs, stop, chan, wait, turned, sets, changes>>
    BY <1>h DEF BeginBatch
  <2> HIDE DEF b, p
  <2> QED
    BY <1>a, <1>c, <2>1, <2>2, <2>3 DEF MailTypeOK, MoreTypes
<1>i. CASE BatchFails
  <2>1. NextPeriod \in Periods
    BY <1>a, <1>i, InOrder DEF BatchFails, MailTypeOK
  <2> QED
    BY <1>a, <1>i, <2>1 DEF BatchFails, MailTypeOK, MoreTypes
<1>j. CASE SendOne
  <2>1. PICK s \in batch.todo : batch' = [batch EXCEPT !.todo = batch.todo \ {s}]
    BY <1>j DEF SendOne
  <2>2. [batch EXCEPT !.todo = batch.todo \ {s}] \in BatchDoc
    BY <1>a DEF MoreTypes, BatchDoc
  <2> QED
    BY <1>a, <1>c, <1>j, <2>1, <2>2 DEF SendOne, MailTypeOK, MoreTypes, reportVars
<1>k. ASSUME NEW s \in Subs, SaveSubscription(s) \/ DeleteSubscription(s) \/ SendNow(s)
      PROVE  MailTypeOK' /\ MoreTypes'
  BY <1>a, <1>b, <1>k DEF SaveSubscription, DeleteSubscription, SendNow, MailTypeOK, MoreTypes, reportVars, loopVars
<1>l. CASE TimePasses
  BY <1>a, <1>l DEF TimePasses, Ready, MailTypeOK, MoreTypes
<1>m. CASE ClockIsSet
  BY <1>a, <1>m DEF ClockIsSet, MailTypeOK, MoreTypes, loopVars
<1> QED
  BY <1>e, <1>f, <1>g, <1>h, <1>i, <1>j, <1>k, <1>l, <1>m DEF MailNext, LoopStep

-----------------------------------------------------------------------------
(***************************************************************************)
(* The scheduler.  What an action does to the order of reports.            *)
(***************************************************************************)
Order == RoundInv /\ TimerInv /\ LateInv /\ TwiceInv /\ SkipInv /\ NoReportTwice /\ NoReportSkipped

\* What the steps use of the invariant.
LEMMA Facts ==
  ASSUME MailInv
  PROVE  /\ now \in Nat /\ Day(now) \in Nat /\ LastTick(now) \in Int
         /\ periods \subseteq Periods /\ excused \subseteq Periods /\ turned \in BOOLEAN
         /\ upto \in [Periods -> Int] /\ wait \in Nat /\ batch.day \in Nat
         /\ loop \in {"off", "sleep", "list", "send"} /\ Order
BY Now, Instant DEF MailInv, MailTypeOK, MoreTypes, BatchDoc, Order

\* Steps that the scheduler does not notice.
LEMMA Quiet ==
  ASSUME MailInv, UNCHANGED <<now, loop, wait, periods, upto, excused, turned, skipped, repeated>>,
         batch'.day = batch.day
  PROVE  Order'
BY Facts DEF Order, RoundInv, TimerInv, Sharp, LateInv, Late, TwiceInv, Firing, SkipInv, NoReportTwice,
             NoReportSkipped

\* The scheduler goes to sleep at the start or after a round.
LEMMA SleepStep ==
  ASSUME MailInv, Sleep, loop \in {"off", "list"}, periods = {},
         UNCHANGED <<now, upto, excused, turned, skipped, repeated>>
  PROVE  Order'
<1>1. NextTick(now) - now \in Nat /\ NextTick(now) - now > 0
  BY Facts, Instant
<1>2. loop' = "sleep" /\ periods' = {} /\ wait' = NextTick(now) - now /\ wait' # 0
  BY <1>1 DEF Sleep
<1>3. RoundInv' /\ TimerInv' /\ LateInv'
  BY <1>2 DEF RoundInv, TimerInv, LateInv
<1>4. TwiceInv' /\ SkipInv'
  BY <1>2, Facts DEF Order, TwiceInv, SkipInv, Firing, RoundInv
<1> QED
  BY <1>3, <1>4, Facts DEF Order, NoReportTwice, NoReportSkipped

\* The goroutine ends.
LEMMA OffStep ==
  ASSUME MailInv, loop' = "off", periods' = {}, excused' = excused \cup Lost,
         UNCHANGED <<now, upto, turned, skipped, repeated>>
  PROVE  Order'
<1>1. RoundInv' /\ TimerInv' /\ LateInv'
  BY DEF RoundInv, TimerInv, LateInv
<1>2. TwiceInv'
  <2> SUFFICES ASSUME ~turned, NEW p \in Periods PROVE upto[p] <= Last(LastTick(now), p)
    BY DEF TwiceInv, Firing
  <2>1. /\ Before(Day(now), p) \in Int /\ Last(LastTick(now), p) \in Int
        /\ Before(Day(now), p) <= Last(LastTick(now), p)
        /\ Sharp => /\ Last(LastTick(now) - 1, p) <= Last(LastTick(now), p)
                    /\ Last(LastTick(now) - 1, p) \in Int
    BY Facts, BeforeIsOver DEF Sharp
  <2>2. Firing => Sharp
    <3>1. NextTick(now) - now > 0
      BY Facts, Instant
    <3> QED
      BY <3>1, Facts DEF Order, TimerInv, Firing
  <2>3. upto[p] \in Int
    BY Facts
  <2> QED
    BY <2>1, <2>2, <2>3, Facts DEF Order, TwiceInv
<1>3. SkipInv'
  <2> SUFFICES ASSUME NEW p \in Periods \ (excused \cup Lost) PROVE upto[p] >= Last(LastTick(now), p)
    BY DEF SkipInv, Firing
  <2>1. p \notin periods /\ ~Firing
    BY Facts DEF Lost, Firing, Order, RoundInv
  <2> QED
    BY <2>1, Facts DEF Order, SkipInv
<1> QED
  BY <1>1, <1>2, <1>3, Facts DEF Order, NoReportTwice, NoReportSkipped

\* The timer fires, and the round begins.
LEMMA FiresStep ==
  ASSUME MailInv, TimerFires
  PROVE  Order'
<1>0. /\ Firing /\ loop' = "list" /\ periods' = DuePeriods(Day(now)) /\ periods = {}
      /\ UNCHANGED <<now, wait, batch, upto, excused, turned, skipped, repeated>>
  BY Facts DEF TimerFires, Firing, reportVars, Order, RoundInv
<1>a. now \in Nat /\ Day(now) \in Nat /\ Day(now) \in Days
  BY Facts, Instant
<1>b. \A p \in Periods : p \in periods' <=> Boundary(Day(now), p)
  BY <1>0 DEF DuePeriods, Boundary, Periods
<1>c. ~turned \/ excused # Periods => Sharp
  <2>1. NextTick(now) - now > 0
    BY Facts, Instant
  <2> QED
    BY <1>0, <2>1, Facts DEF Order, TimerInv, Firing
<1>d. ASSUME Sharp, NEW p \in Periods
      PROVE  /\ LastTick(now) = Day(now) /\ now = 2 * Day(now) + 1
             /\ Boundary(Day(now), p) => /\ Last(Day(now), p) = Day(now)
                                         /\ Before(Day(now), p) = Last(LastTick(now) - 1, p)
             /\ ~Boundary(Day(now), p) => Last(LastTick(now), p) = Last(LastTick(now) - 1, p)
  <2>1. LastTick(now) = Day(now) /\ now = 2 * Day(now) + 1
    BY <1>a, <1>d, Instant DEF Sharp
  <2> QED
    BY <1>a, <2>1, NextDay
<1>1. RoundInv' /\ TimerInv'
  BY <1>0 DEF RoundInv, TimerInv
<1>2. LateInv'
  <2> SUFFICES ASSUME ~turned, NEW p \in periods'
               PROVE  2 * Last(Day(now), p) + 1 <= now /\ Day(now) <= Last(Day(now), p) + Late'
    BY <1>0 DEF LateInv
  <2>1. p \in Periods /\ Boundary(Day(now), p) /\ Sharp
    BY <1>0, <1>b, <1>c DEF DuePeriods
  <2>2. Last(Day(now), p) = Day(now) /\ now = 2 * Day(now) + 1
    BY <1>d, <2>1
  <2>3. Late' \in {0, 2, 4}
    BY DEF Late
  <2> QED
    BY <1>a, <2>2, <2>3
<1>3. TwiceInv'
  <2> SUFFICES ASSUME ~turned, NEW p \in Periods
               PROVE  upto[p] <= IF p \in periods' THEN Before(Day(now), p) ELSE Last(LastTick(now), p)
    BY <1>0 DEF TwiceInv, Firing
  <2>1. upto[p] <= Last(LastTick(now) - 1, p)
    BY <1>0, Facts DEF Order, TwiceInv
  <2> QED
    BY <1>b, <1>c, <1>d, <2>1
<1>4. SkipInv'
  <2> SUFFICES ASSUME NEW p \in Periods \ excused
               PROVE  /\ p \in periods' => Boundary(LastTick(now), p) /\ Sharp
                      /\ upto[p] >= IF p \in periods' THEN Before(Day(now), p) ELSE Last(LastTick(now), p)
    BY <1>0 DEF SkipInv, Firing, Sharp
  <2>1. upto[p] >= Last(LastTick(now) - 1, p)
    BY <1>0, Facts DEF Order, SkipInv
  <2>2. Sharp
    BY <1>c
  <2> QED
    BY <1>b, <1>d, <2>1, <2>2
<1> QED
  BY <1>0, <1>1, <1>2, <1>3, <1>4, Facts DEF Order, NoReportTwice, NoReportSkipped

\* When the run of a period begins, its boundary was passed at 06:00 and
\* there was no other since.
LEMMA OnTime ==
  ASSUME MailInv, ~turned, NEW p \in periods
  PROVE  Last(Day(now), p) <= Last(LastTick(now), p)
<1>1. p \in Periods /\ now \in Nat /\ Day(now) \in Nat /\ Day(now) \in Days /\ Last(Day(now), p) \in Int
  BY Facts, Instant, BeforeIsOver
<1>2. 2 * Last(Day(now), p) + 1 <= now
  BY Facts DEF Order, LateInv
<1>3. CASE now % 2 = 1
  <2>1. LastTick(now) = Day(now)
    BY <1>1, <1>3, Instant
  <2> QED
    BY <1>1, <2>1
<1>4. CASE now % 2 # 1
  <2>1. now = 2 * Day(now) /\ LastTick(now) = Day(now) - 1
    BY <1>1, <1>4, Instant
  <2>2. Last(Day(now), p) # Day(now)
    BY <1>1, <1>2, <2>1
  <2>3. Last(Day(now), p) = Last(LastTick(now), p)
    BY <1>1, <2>1, <2>2, NextDay
  <2> QED
    BY <1>1, <2>3
<1> QED
  BY <1>3, <1>4

\* The run of a period begins: nothing is repeated or left out.
LEMMA BeginStep ==
  ASSUME MailInv, BeginBatch
  PROVE  Order'
<1> DEFINE p == NextPeriod
<1>0. /\ loop = "list" /\ periods # {} /\ periods' = periods \ {p} /\ loop' = "send"
      /\ batch'.day = Day(now) /\ upto' = [upto EXCEPT ![p] = Last(Day(now), p)]
      /\ skipped' = IF Before(Day(now), p) > upto[p] /\ p \notin excused THEN skipped \cup {p} ELSE skipped
      /\ repeated' = IF Before(Day(now), p) < upto[p] /\ ~turned THEN repeated \cup {p} ELSE repeated
      /\ excused' = excused \ {p} /\ UNCHANGED <<now, wait, turned>>
  BY DEF BeginBatch, Last, Before
<1>a. /\ p \in periods /\ p \in Periods
      /\ "daily" \in periods => p = "daily"
      /\ "daily" \notin periods /\ "weekly" \in periods => p = "weekly"
  BY <1>0, Facts, InOrder
<1>b. /\ Before(Day(now), p) \in Int /\ Last(LastTick(now), p) \in Int /\ Last(Day(now), p) \in Int
      /\ Last(LastTick(now), p) <= Last(Day(now), p) /\ upto[p] \in Int
  BY <1>a, Facts, BeforeIsOver
<1>c. upto'[p] = Last(Day(now), p) /\ \A q \in Periods \ {p} : upto'[q] = upto[q]
  BY <1>0, <1>a, Facts
<1> HIDE DEF p
<1>1. RoundInv'
  BY <1>0, <1>a DEF RoundInv
<1>2. TimerInv'
  BY <1>0 DEF TimerInv
<1>3. LateInv'
  <2> SUFFICES ASSUME ~turned, NEW q \in periods'
               PROVE  /\ 2 * Last(Day(now), q) + 1 <= now
                      /\ Day(now) <= Last(Day(now), q) + (IF "weekly" \in periods' THEN 0 ELSE 2)
                      /\ Day(now) <= Day(now) + 2
    BY <1>0 DEF LateInv
  <2>1. q \in periods /\ q \in Periods /\ Day(now) \in Int /\ now \in Nat
    BY <1>0, Facts
  <2>2. Last(Day(now), q) \in Int
    BY <2>1, BeforeIsOver
  <2>3. 2 * Last(Day(now), q) + 1 <= now /\ Day(now) <= Last(Day(now), q) + Late
    BY <1>0, <2>1, Facts DEF Order, LateInv
  <2>4. "weekly" \in periods' => Late = 0
    BY <1>0, <1>a DEF Late
  <2>5. Late = 0 \/ Late = 2
    <3>1. "daily" \in periods \/ "weekly" \in periods
      BY <1>0, <1>a, <2>1, Facts DEF Periods
    <3> QED
      BY <3>1 DEF Late
  <2> QED
    BY <2>1, <2>2, <2>3, <2>4, <2>5
<1>4. TwiceInv'
  <2> SUFFICES ASSUME ~turned, NEW q \in Periods
               PROVE  upto'[q] <= IF q \in periods' THEN Before(Day(now), q) ELSE Last(LastTick(now), q)
    BY <1>0 DEF TwiceInv, Firing
  <2>1. CASE q = p
    BY <1>0, <1>a, <1>c, <2>1, OnTime
  <2>2. CASE q # p
    BY <1>0, <1>c, <2>2, Facts DEF Order, TwiceInv, Firing
  <2> QED
    BY <2>1, <2>2
<1>5. SkipInv'
  <2> SUFFICES ASSUME NEW q \in Periods \ excused'
               PROVE  /\ q \in periods' => Boundary(LastTick(now), q) /\ (q = "daily" => Sharp)
                      /\ upto'[q] >= IF q \in periods' THEN Before(Day(now), q) ELSE Last(LastTick(now), q)
    BY <1>0 DEF SkipInv, Firing, Sharp
  <2>1. CASE q = p
    BY <1>0, <1>b, <1>c, <2>1
  <2>2. CASE q # p
    BY <1>0, <1>c, <2>2, Facts DEF Order, SkipInv, Firing
  <2> QED
    BY <2>1, <2>2
<1>6. NoReportTwice'
  <2>1. ~turned => upto[p] <= Before(Day(now), p)
    BY <1>a, Facts DEF Order, TwiceInv
  <2>2. ~(Before(Day(now), p) < upto[p] /\ ~turned)
    BY <1>b, <2>1
  <2> QED
    BY <1>0, <2>2, Facts DEF Order, NoReportTwice
<1>7. NoReportSkipped'
  <2>1. p \notin excused => upto[p] >= Before(Day(now), p)
    BY <1>a, Facts DEF Order, SkipInv
  <2>2. ~(Before(Day(now), p) > upto[p] /\ p \notin excused)
    BY <1>b, <2>1
  <2> QED
    BY <1>0, <2>2, Facts DEF Order, NoReportSkipped
<1> QED
  BY <1>1, <1>2, <1>3, <1>4, <1>5, <1>6, <1>7 DEF Order

\* A period is left out because the subscriptions could not be listed.
LEMMA FailsStep ==
  ASSUME MailInv, BatchFails
  PROVE  Order'
<1> DEFINE p == NextPeriod
<1>0. /\ loop = "list" /\ periods # {} /\ periods' = periods \ {p} /\ excused' = excused \cup {p}
      /\ UNCHANGED <<now, loop, wait, batch, upto, turned, skipped, repeated>>
  BY DEF BatchFails
<1>a. p \in periods /\ p \in Periods
  BY <1>0, Facts, InOrder
<1>b. /\ Before(Day(now), p) \in Int /\ Last(LastTick(now), p) \in Int
      /\ Before(Day(now), p) <= Last(LastTick(now), p) /\ upto[p] \in Int
  BY <1>a, Facts, BeforeIsOver
<1> HIDE DEF p
<1>1. RoundInv' /\ TimerInv'
  BY <1>0 DEF RoundInv, TimerInv
<1>2. LateInv'
  <2> SUFFICES ASSUME ~turned, NEW q \in periods'
               PROVE  2 * Last(Day(now), q) + 1 <= now /\ Day(now) <= Last(Day(now), q) + Late'
    BY <1>0 DEF LateInv
  <2>1. q \in periods /\ q \in Periods /\ Day(now) \in Int /\ now \in Nat
    BY <1>0, Facts
  <2>2. Last(Day(now), q) \in Int
    BY <2>1, BeforeIsOver
  <2>3. 2 * Last(Day(now), q) + 1 <= now /\ Day(now) <= Last(Day(now), q) + Late
    BY <1>0, <2>1, Facts DEF Order, LateInv
  <2>4. Late \in Int /\ Late' \in Int /\ Late <= Late'
    BY <1>0 DEF Late
  <2> QED
    BY <2>1, <2>2, <2>3, <2>4
<1>3. TwiceInv'
  <2> SUFFICES ASSUME ~turned, NEW q \in Periods
               PROVE  upto[q] <= IF q \in periods' THEN Before(Day(now), q) ELSE Last(LastTick(now), q)
    BY <1>0 DEF TwiceInv, Firing
  <2>1. CASE q = p
    <3>1. upto[p] <= Before(Day(now), p)
      BY <1>a, Facts DEF Order, TwiceInv
    <3> QED
      BY <1>0, <1>b, <2>1, <3>1
  <2>2. CASE q # p
    BY <1>0, <2>2, Facts DEF Order, TwiceInv, Firing
  <2> QED
    BY <2>1, <2>2
<1>4. SkipInv'
  BY <1>0, Facts DEF Order, SkipInv, Firing, Sharp
<1> QED
  BY <1>0, <1>1, <1>2, <1>3, <1>4, Facts DEF Order, NoReportTwice, NoReportSkipped

\* The mails of a period are sent.
LEMMA EndBatchStep ==
  ASSUME MailInv, EndBatch
  PROVE  Order'
<1>0. /\ loop = "send" /\ loop' = "list"
      /\ UNCHANGED <<now, wait, periods, upto, excused, turned, skipped, repeated>>
  BY DEF EndBatch, reportVars
<1>1. RoundInv' /\ TimerInv'
  BY <1>0, Facts DEF Order, RoundInv, TimerInv
<1>2. LateInv'
  <2> SUFFICES ASSUME ~turned, NEW q \in periods
               PROVE  2 * Last(Day(now), q) + 1 <= now /\ Day(now) <= Last(Day(now), q) + Late
    BY <1>0 DEF LateInv, Late
  <2>1. q \in Periods /\ Day(now) \in Int /\ now \in Nat /\ batch.day \in Int
    BY Facts
  <2>2. Last(Day(now), q) \in Int
    BY <2>1, BeforeIsOver
  <2>3. /\ 2 * Last(Day(now), q) + 1 <= now
        /\ batch.day <= Last(Day(now), q) + (IF "weekly" \in periods THEN 0 ELSE 2)
        /\ Day(now) <= batch.day + 2
    BY <1>0, <2>1, Facts DEF Order, LateInv
  <2>4. Late = IF "weekly" \in periods THEN 2 ELSE 4
    BY <1>0, Facts DEF Order, RoundInv, Late
  <2> QED
    BY <2>1, <2>2, <2>3, <2>4
<1>3. TwiceInv' /\ SkipInv'
  BY <1>0, Facts DEF Order, TwiceInv, SkipInv, Firing, Sharp
<1> QED
  BY <1>0, <1>1, <1>2, <1>3, Facts DEF Order, NoReportTwice, NoReportSkipped

\* The clock is set: nothing is claimed of the days around.
LEMMA ClockStep ==
  ASSUME MailInv, ClockIsSet
  PROVE  Order'
BY Facts DEF ClockIsSet, loopVars, Order, RoundInv, TimerInv, LateInv, TwiceInv, SkipInv, NoReportTwice,
             NoReportSkipped

\* Time passes: to the next 06:00, or away from one.
LEMMA TimeStep ==
  ASSUME MailInv, TimePasses
  PROVE  Order'
<1>0. /\ loop # "list" /\ ~Firing /\ now' = now + 1
      /\ loop = "send" => Day(now) <= batch.day + 1
      /\ wait' = IF loop = "sleep" THEN wait - 1 ELSE wait
      /\ excused' = IF loop # "sleep" /\ now + 1 = NextTick(now) THEN Periods ELSE excused
      /\ UNCHANGED <<loop, periods, batch, upto, turned, skipped, repeated>>
  BY DEF TimePasses, Ready, Firing
<1>n. now \in Nat /\ now + 1 \in Nat
  BY Facts
<1>a. now \in Nat /\ Day(now) \in Nat /\ Day(now) \in Days /\ LastTick(now) \in Int /\ LastTick(now) \in Days
      /\ now + 1 \in Nat
  BY <1>n, Instant
<1>b. Sharp => /\ LastTick(now) = Day(now) /\ now = 2 * Day(now) + 1 /\ NextTick(now) = now + 2
               /\ Day(now') = Day(now) + 1 /\ ~Sharp' /\ LastTick(now') = LastTick(now)
  BY <1>0, <1>a, Instant DEF Sharp
<1>c. ~Sharp => /\ LastTick(now) = Day(now) - 1 /\ now = 2 * Day(now) /\ NextTick(now) = now + 1
                /\ Day(now') = Day(now) /\ Sharp' /\ LastTick(now') = LastTick(now) + 1
  BY <1>0, <1>a, Instant DEF Sharp
<1>d. NextTick(now') = now' + (IF Sharp' THEN 2 ELSE 1)
  BY <1>0, <1>a, Instant DEF Sharp
<1>e. excused' = IF loop # "sleep" /\ ~Sharp THEN Periods ELSE excused
  <2>1. now + 1 = NextTick(now) <=> ~Sharp
    BY <1>a, <1>b, <1>c
  <2> QED
    BY <1>0, <2>1
<1>f. ASSUME NEW p \in Periods
      PROVE  /\ Last(LastTick(now), p) \in Int /\ Last(LastTick(now'), p) \in Int
             /\ Last(LastTick(now), p) <= Last(LastTick(now'), p)
  <2>1. Last(LastTick(now), p) \in Int /\ Last(LastTick(now'), p) \in Int
    BY <1>0, <1>a, BeforeIsOver
  <2>2. CASE Sharp
    BY <1>b, <2>1, <2>2
  <2>3. CASE ~Sharp
    <3>1. LastTick(now) + 1 \in Days /\ LastTick(now) + 1 >= 0 /\ LastTick(now) + 1 - 1 = LastTick(now)
      BY <1>a DEF Days
    <3> DEFINE d == LastTick(now) + 1
    <3>2. d \in Days /\ d >= 0 /\ d = LastTick(now) + 1 /\ d - 1 = LastTick(now)
      BY <1>a, <3>1
    <3> HIDE DEF d
    <3>3. Last(d - 1, p) <= Last(d, p)
      BY <3>2, NextDay
    <3>4. Last(LastTick(now), p) <= Last(LastTick(now'), p)
      <4>1. LastTick(now') = d
        BY <1>c, <2>3, <3>2
      <4> QED
        BY <3>2, <3>3, <4>1
    <3> QED
      BY <2>1, <3>4
  <2> QED
    BY <2>2, <2>3
<1>1. RoundInv'
  BY <1>0, Facts DEF Order, RoundInv
<1>2. loop = "sleep" /\ (~turned \/ excused # Periods)
        => wait = NextTick(now) - now /\ (Sharp => wait' = 1) /\ (~Sharp => wait' = 0)
  <2>1. loop = "sleep" /\ (~turned \/ excused # Periods) => wait = NextTick(now) - now
    BY <1>0, Facts DEF Order, TimerInv, Firing
  <2> QED
    BY <1>0, <1>a, <1>b, <1>c, <2>1
<1>3. TimerInv'
  <2> SUFFICES ASSUME loop = "sleep", ~turned \/ excused # Periods
               PROVE  wait' = NextTick(now') - now' \/ (wait' = 0 /\ Sharp')
    BY <1>0, <1>e DEF TimerInv
  <2>1. CASE Sharp
    BY <1>0, <1>2, <1>a, <1>b, <1>d, <2>1
  <2>2. CASE ~Sharp
    BY <1>2, <1>c, <2>2
  <2> QED
    BY <2>1, <2>2
\* A period that is still to be run, while mails of another are sent.
<1>4. ASSUME NEW p \in periods
      PROVE  /\ p \in Periods /\ p # "daily" /\ loop = "send" /\ Day(now') \in Nat
             /\ batch.day \in Nat /\ Last(Day(now), p) \in Int
             /\ Day(now') = Day(now) \/ Day(now') = Day(now) + 1
             /\ Day(now) <= batch.day + 1
  <2>1. p \in Periods /\ loop = "send" /\ p # "daily"
    BY <1>0, Facts DEF Order, RoundInv
  <2> QED
    BY <1>0, <1>a, <1>b, <1>c, <2>1, Facts, BeforeIsOver
<1>5. ASSUME NEW p \in periods, NEW b \in Int, Boundary(b, p), b <= Day(now), Day(now') <= b + 6
      PROVE  Last(Day(now'), p) = Last(Day(now), p) /\ Before(Day(now'), p) = Before(Day(now), p)
  <2>1. CASE Day(now') = Day(now)
    BY <2>1
  <2>2. CASE Day(now') = Day(now) + 1
    <3> DEFINE e == Day(now) + 1
    <3>1. e \in b + 1 .. b + 6 /\ e \in Days /\ e >= 0 /\ e - 1 = Day(now) /\ e - 1 >= 0
      BY <1>a, <1>5, <2>2 DEF Days
    <3>2. ~Boundary(e, p)
      BY <1>4, <1>5, <3>1, LongPeriods
    <3>3. Last(e, p) = Last(e - 1, p) /\ Before(e, p) = Before(e - 1, p)
      BY <1>4, <3>1, <3>2, NextDay
    <3> QED
      BY <2>2, <3>1, <3>3
  <2> QED
    BY <1>4, <2>1, <2>2
<1>6. ASSUME ~turned, NEW p \in periods
      PROVE  /\ Last(Day(now'), p) = Last(Day(now), p) /\ Before(Day(now'), p) = Before(Day(now), p)
             /\ 2 * Last(Day(now), p) + 1 <= now
             /\ batch.day <= Last(Day(now), p) + (IF "weekly" \in periods THEN 0 ELSE 2)
  <2>1. /\ 2 * Last(Day(now), p) + 1 <= now
        /\ batch.day <= Last(Day(now), p) + (IF "weekly" \in periods THEN 0 ELSE 2)
    BY <1>4, <1>6, Facts DEF Order, LateInv
  <2>2. Boundary(Last(Day(now), p), p) /\ Last(Day(now), p) <= Day(now)
    BY <1>4, <1>a, Ranges DEF IsLast
  <2>3. Day(now') <= Last(Day(now), p) + 6
    BY <1>4, <1>a, <2>1
  <2> QED
    BY <1>4, <1>5, <2>1, <2>2, <2>3
<1>7. LateInv'
  <2> SUFFICES ASSUME ~turned, NEW p \in periods
               PROVE  /\ 2 * Last(Day(now'), p) + 1 <= now'
                      /\ batch.day <= Last(Day(now'), p) + (IF "weekly" \in periods THEN 0 ELSE 2)
                      /\ Day(now') <= batch.day + 2
    BY <1>0, <1>4 DEF LateInv
  <2> QED
    BY <1>0, <1>4, <1>6, <1>a
<1>8. TwiceInv'
  <2> SUFFICES ASSUME ~turned, NEW p \in Periods
               PROVE  upto[p] <= IF p \in periods THEN Before(Day(now'), p)
                                 ELSE IF Firing' THEN Last(LastTick(now') - 1, p)
                                 ELSE Last(LastTick(now'), p)
    BY <1>0 DEF TwiceInv
  <2>1. CASE p \in periods
    <3>1. upto[p] <= Before(Day(now), p)
      BY <2>1, Facts DEF Order, TwiceInv
    <3> QED
      BY <1>6, <2>1, <3>1
  <2>2. CASE p \notin periods
    <3>1. upto[p] <= Last(LastTick(now), p) /\ upto[p] \in Int
      BY <1>0, <2>2, Facts DEF Order, TwiceInv
    <3>2. upto[p] <= Last(LastTick(now'), p)
      BY <1>f, <3>1
    <3>3. Firing' => LastTick(now') - 1 = LastTick(now)
      BY <1>0, <1>2, <1>a, <1>c DEF Firing
    <3> QED
      BY <2>2, <3>1, <3>2, <3>3
  <2> QED
    BY <2>1, <2>2
<1>9. SkipInv'
  <2> SUFFICES ASSUME NEW p \in Periods \ excused'
               PROVE  /\ p \in periods => Boundary(LastTick(now'), p) /\ (p = "daily" => Sharp')
                      /\ upto[p] >= IF p \in periods THEN Before(Day(now'), p)
                                    ELSE IF Firing' THEN Last(LastTick(now') - 1, p)
                                    ELSE Last(LastTick(now'), p)
    BY <1>0 DEF SkipInv
  <2>0. p \notin excused /\ (loop # "sleep" => Sharp)
    BY <1>e
  <2>1. CASE p \in periods
    <3>1. Boundary(LastTick(now), p) /\ upto[p] >= Before(Day(now), p)
      BY <2>0, <2>1, Facts DEF Order, SkipInv
    <3>2. Sharp /\ p # "daily"
      BY <1>4, <2>0, <2>1
    <3>3. LastTick(now) <= Day(now) /\ Day(now') <= LastTick(now) + 6 /\ LastTick(now') = LastTick(now)
      BY <1>a, <1>b, <3>2
    <3>4. Before(Day(now'), p) = Before(Day(now), p)
      BY <1>5, <1>a, <2>1, <3>1, <3>3
    <3> QED
      BY <2>1, <3>1, <3>2, <3>3, <3>4
  <2>2. CASE p \notin periods
    <3>1. upto[p] >= Last(LastTick(now), p)
      BY <1>0, <2>0, <2>2, Facts DEF Order, SkipInv
    <3>2. CASE loop # "sleep"
      BY <1>0, <1>b, <2>0, <2>2, <3>1, <3>2 DEF Firing
    <3>3. CASE loop = "sleep"
      <4>1. excused # Periods
        BY <2>0
      <4>2. CASE Sharp
        BY <1>2, <1>b, <2>2, <3>1, <3>3, <4>1, <4>2 DEF Firing
      <4>3. CASE ~Sharp
        <5>1. Firing' /\ LastTick(now') - 1 = LastTick(now)
          BY <1>0, <1>2, <1>a, <1>c, <3>3, <4>1, <4>3 DEF Firing
        <5> QED
          BY <2>2, <3>1, <5>1
      <4> QED
        BY <4>2, <4>3
    <3> QED
      BY <3>2, <3>3
  <2> QED
    BY <2>1, <2>2
<1> QED
  BY <1>0, <1>1, <1>3, <1>7, <1>8, <1>9, Facts DEF Order, NoReportTwice, NoReportSkipped

-----------------------------------------------------------------------------
\* Every report is one of a full period.
LEMMA StepFull ==
  ASSUME MailInv, MailNext
  PROVE  ReportOfFullPeriod'
<1>n. now \in Nat
  BY Facts
<1>d. Day(now) \in Days /\ Day(now) \in Nat /\ Day(now) >= 0
  <2>1. Day(now) \in Days /\ Day(now) \in Nat
    BY <1>n, Instant
  <2> QED
    BY <2>1
<1>a. partial = {} /\ docs \in [Subs -> Doc] /\ periods \subseteq Periods /\ Day(now) \in Days /\ Day(now) >= 0
  BY <1>d DEF MailInv, MailTypeOK, ReportOfFullPeriod
<1>1. CASE BeginBatch
  <2>1. NextPeriod \in Periods
    BY <1>1, <1>a, InOrder DEF BeginBatch
  <2>2. FullPeriod(PeriodRange(Day(now), NextPeriod), NextPeriod, Day(now))
    BY <1>a, <2>1, RangeIsFull
  <2> QED
    BY <1>1, <1>a, <2>2 DEF BeginBatch, ReportOfFullPeriod
<1>2. ASSUME NEW s \in Subs, SendNow(s) PROVE ReportOfFullPeriod'
  <2>1. docs[s].period \in Periods
    BY <1>a DEF Doc
  <2>2. FullPeriod(PeriodRange(Day(now), docs[s].period), docs[s].period, Day(now))
    BY <1>a, <2>1, RangeIsFull
  <2> QED
    BY <1>2, <1>a, <2>2 DEF SendNow, ReportOfFullPeriod
<1>3. ASSUME NEW s \in Subs, SaveSubscription(s) \/ DeleteSubscription(s) PROVE UNCHANGED partial
  BY <1>3 DEF SaveSubscription, DeleteSubscription, reportVars
<1>4. CASE UNCHANGED partial
  BY <1>4, <1>a DEF ReportOfFullPeriod
<1> QED
  BY <1>1, <1>2, <1>3, <1>4 DEF MailNext, LoopStep, Start, StopClose, StopForget, ProcessEnds, LoopStops, TimerFires,
     BatchFails, SendOne, EndBatch, EndRound, TimePasses, ClockIsSet, reportVars

\* The order of the reports is kept by every step.
LEMMA StepOrder ==
  ASSUME MailInv, MailNext
  PROVE  Order'
<1>1. CASE Start \/ EndRound
  <2>1. periods = {}
    BY <1>1, Facts DEF Start, EndRound, Order, RoundInv
  <2> QED
    BY <1>1, <2>1, SleepStep DEF Start, EndRound, reportVars
<1>2. CASE ProcessEnds \/ LoopStops
  <2>1. periods' = {}
    BY <1>2, Facts DEF ProcessEnds, LoopStops, Closed, Order, RoundInv
  <2> QED
    BY <1>2, <2>1, OffStep DEF ProcessEnds, LoopStops
<1>3. CASE StopClose \/ StopForget
  BY <1>3, Quiet DEF StopClose, StopForget, loopVars, reportVars
<1>4. CASE SendOne
  <2>1. batch'.day = batch.day
    BY <1>4 DEF SendOne, MailInv, MoreTypes, BatchDoc
  <2> QED
    BY <1>4, <2>1, Quiet DEF SendOne, reportVars
<1>5. ASSUME NEW s \in Subs, SaveSubscription(s) \/ DeleteSubscription(s) \/ SendNow(s) PROVE Order'
  BY <1>5, Quiet DEF SaveSubscription, DeleteSubscription, SendNow, loopVars, reportVars
<1> QED
  BY <1>1, <1>2, <1>3, <1>4, <1>5, FiresStep, BeginStep, FailsStep, EndBatchStep, TimeStep, ClockStep
  DEF MailNext, LoopStep

LEMMA MailInvNext ==
  ASSUME MailInv, [MailNext]_mailVars PROVE MailInv'
<1>1. CASE MailNext
  BY <1>1, StepTypes, StepFull, StepOrder DEF MailInv, Order
<1>2. CASE UNCHANGED mailVars
  <2>1. Order'
    BY <1>2, Quiet DEF mailVars, loopVars, reportVars
  <2> QED
    BY <1>2, <2>1 DEF mailVars, loopVars, reportVars, MailInv, MailTypeOK, MoreTypes, Order, ReportOfFullPeriod
<1> QED
  BY <1>1, <1>2

\* The inductive invariant holds in every reachable state.
THEOREM MailInvariant == MailSpec => []MailInv
BY MailInvInit, MailInvNext, PTL DEF MailSpec

(***************************************************************************)
(* The scheduler's variables and the subscriptions have their types: the   *)
(* timer is never set to a time that has passed.                           *)
(***************************************************************************)
THEOREM MailTypeCorrect == MailSpec => []MailTypeOK
<1>1. MailInv => MailTypeOK
  BY DEF MailInv
<1> QED
  BY <1>1, MailInvariant, PTL

(***************************************************************************)
(* periodRange returns the previous full period on every day and for every *)
(* calendar: for the scheduler, whatever day a slow round has reached, and *)
(* for a report that is sent by hand.                                      *)
(***************************************************************************)
THEOREM ReportsAreFull == MailSpec => []ReportOfFullPeriod
<1>1. MailInv => ReportOfFullPeriod
  BY DEF MailInv
<1> QED
  BY <1>1, MailInvariant, PTL

(***************************************************************************)
(* The loop reports no day twice while nobody sets the clock, although it  *)
(* stores nothing: nextTick is after the round, and a round that runs over *)
(* midnight ends before the next week or month begins.                     *)
(***************************************************************************)
THEOREM NothingReportedTwice == MailSpec => []NoReportTwice
<1>1. MailInv => NoReportTwice
  BY DEF MailInv
<1> QED
  BY <1>1, MailInvariant, PTL

(***************************************************************************)
(* The loop leaves no day out while it is there at every tick and the      *)
(* subscriptions can be listed.                                            *)
(***************************************************************************)
THEOREM NothingSkipped == MailSpec => []NoReportSkipped
<1>1. MailInv => NoReportSkipped
  BY DEF MailInv
<1> QED
  BY <1>1, MailInvariant, PTL

=============================================================================
