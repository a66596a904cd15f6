-------------------------------- MODULE Mail ---------------------------------
(***************************************************************************)
(* The mail service of impl/mail/mail.go: the scheduler goroutine that     *)
(* sends the periodic reports at 06:00 UTC, its start and stop by main.go, *)
(* the subscriptions it reads and the requests that change them.           *)
(*                                                                         *)
(* Nothing about a report that was sent is stored: which period a report   *)
(* is about follows from the wall clock alone.  Time stops only at the    *)
(* instants that matter, 00:00 and 06:00 of each day.                      *)
(*                                                                         *)
(* Data: a report is the range of days it covers; days are numbered, day 0 *)
(* is a Sunday; the text of a mail is left out.                            *)
(***************************************************************************)
EXTENDS Integers

CONSTANTS
  Subs,        \* ids of subscriptions
  Groups,      \* user groups
  LastDay,     \* bound: days
  Firsts,      \* the days that are the first of a month
  MaxSets,     \* bound: times the wall clock is set
  MaxChanges,  \* bound: changes of subscriptions
  NoGroup

ASSUME MailAssumption ==
  /\ LastDay \in Nat /\ MaxSets \in Nat /\ MaxChanges \in Nat
  /\ Firsts \subseteq Int /\ \A d, e \in Firsts : d < e => d + 28 <= e
  /\ \E d, e \in Firsts : -62 <= e /\ e < d /\ d <= 0
  /\ NoGroup \notin Groups

Periods == {"daily", "weekly", "monthly"}
Instants == 0..(2 * LastDay + 1)

\* A subscription; group NoGroup stands for no document.
Doc == [period : Periods, group : Groups \cup {NoGroup}, enabled : BOOLEAN]
NoDoc == [period |-> "daily", group |-> NoGroup, enabled |-> FALSE]

\* Before the first report of a period.
Never == -1000

VARIABLES
  now,       \* the wall clock
  docs,      \* collection mail_subscriptions
  stop,      \* the field Service.stop: "nil", "open" or "closed"
  loop,      \* the scheduler goroutine: "off", "sleep", "list", "send"
  chan,      \* the channel its select waits for: "nil" or the one of stop
  wait,      \* instants left of its timer
  periods,   \* periods still to be run in this round
  batch,     \* the run in progress: period, range, and who has to get a mail
  upto,      \* history: the day up to which a period was last reported
  excused,   \* history: periods whose next report may leave days out
  turned,    \* history: the wall clock has been set
  skipped, repeated,  \* history: periods of which a report left out or
                      \* repeated days, although nothing excuses it
  partial,   \* history: periods of which a report was not a full period
  sets, changes

loopVars == <<loop, chan, wait, periods, batch>>
reportVars == <<upto, excused, turned, skipped, repeated, partial>>
mailVars == <<now, docs, stop, loopVars, reportVars, sets, changes>>

NoBatch == [period |-> "daily", day |-> 0, todo |-> {}]

MailInit ==
  /\ now \in 0..1
  /\ docs = [s \in Subs |-> NoDoc]
  /\ stop = "nil" /\ loop = "off" /\ chan = "nil" /\ wait = 0
  /\ periods = {} /\ batch = NoBatch
  /\ upto = [p \in Periods |-> Never]
  /\ excused = Periods /\ turned = FALSE
  /\ skipped = {} /\ repeated = {} /\ partial = {}
  /\ sets = 0 /\ changes = 0

-----------------------------------------------------------------------------
(***************************************************************************)
(* The calendar.                                                           *)
(***************************************************************************)
Day(q) == q \div 2
Weekday(d) == d % 7

\* Mutant of NextTick: always tomorrow's.
NextTickTomorrow(q) == 2 * Day(q) + 3

\* Mutant of NextTick: at 06:00 sharp the next tick is now.
NextTickNow(q) == IF q <= 2 * Day(q) + 1 THEN 2 * Day(q) + 1 ELSE 2 * Day(q) + 3

\* nextTick: the next 06:00 strictly after q.
NextTick(q) == IF q < 2 * Day(q) + 1 THEN 2 * Day(q) + 1 ELSE 2 * Day(q) + 3

\* The first of the month of day d, and of the month before.
MonthOf(d) == CHOOSE f \in Firsts : f <= d /\ \A g \in Firsts : g <= d => g <= f

\* Mutant of PeriodRange: a Sunday belongs to the next week.
RangeFromSunday(d, p) ==
  LET monday == d - (Weekday(d) - 1)
      first == MonthOf(d)
  IN  CASE p = "weekly"  -> <<monday - 7, monday>>
        [] p = "monthly" -> <<MonthOf(first - 1), first>>
        [] OTHER         -> <<d - 1, d>>

\* periodRange: the previous full period, for a day.
PeriodRange(d, p) ==
  LET offset == Weekday(d) - 1
      monday == d - (IF offset < 0 THEN offset + 7 ELSE offset)
      first == MonthOf(d)
  IN  CASE p = "weekly"  -> <<monday - 7, monday>>
        [] p = "monthly" -> <<MonthOf(first - 1), first>>
        [] OTHER         -> <<d - 1, d>>

\* runDuePeriods: what is due on a day.
DuePeriods(d) ==
  {p \in Periods : CASE p = "weekly"  -> Weekday(d) = 1
                     [] p = "monthly" -> d \in Firsts
                     [] OTHER         -> TRUE}

\* Used to state ReportOfFullPeriod: the days of a period begin and end at a
\* boundary, with none between, and are over on day d.
Boundary(d, p) == CASE p = "weekly"  -> Weekday(d) = 1
                    [] p = "monthly" -> d \in Firsts
                    [] OTHER         -> TRUE

FullPeriod(r, p, d) ==
  /\ Boundary(r[1], p) /\ Boundary(r[2], p) /\ r[1] < r[2] /\ r[2] <= d
  /\ \A e \in r[1] + 1 .. r[2] - 1 : ~Boundary(e, p)

-----------------------------------------------------------------------------
(***************************************************************************)
(* Start and Stop, each called once by main.go; the process may also end   *)
(* in any other way, and is started again.                                 *)
(***************************************************************************)
Sleep ==
  /\ loop' = "sleep"
  /\ chan' = stop'
  /\ wait' = NextTick(now) - now
  /\ periods' = {} /\ batch' = NoBatch

Start ==
  /\ stop = "nil" /\ loop = "off"
  /\ stop' = "open"
  /\ Sleep
  /\ UNCHANGED <<now, docs, reportVars, sets, changes>>

\* Stop closes the channel ...
StopClose ==
  /\ stop = "open"
  /\ stop' = "closed"
  /\ UNCHANGED <<now, docs, loopVars, reportVars, sets, changes>>

\* ... and forgets it.  A goroutine that waits for it has its own reference.
StopForget ==
  /\ stop = "closed"
  /\ stop' = "nil"
  /\ chan' = IF chan = "nil" THEN "nil" ELSE "closed"
  /\ UNCHANGED <<now, docs, loop, wait, periods, batch, reportVars, sets, changes>>

\* The periods a goroutine that ends now has been about to run.
Lost == IF loop = "sleep" /\ wait = 0 THEN Periods ELSE periods

\* The process ends, by the end of main or a crash.
ProcessEnds ==
  /\ loop # "off" \/ stop # "nil"
  /\ stop' = "nil" /\ loop' = "off" /\ chan' = "nil" /\ wait' = 0
  /\ periods' = {} /\ batch' = NoBatch
  /\ excused' = excused \cup Lost
  /\ UNCHANGED <<now, docs, upto, turned, skipped, repeated, partial, sets, changes>>

(***************************************************************************)
(* loop, runDuePeriods and RunOnce.                                        *)
(***************************************************************************)
\* Mutant of Closed: the field is read again.
ClosedField == loop = "sleep" /\ stop = "closed"

\* The channel the select waits for is closed.
Closed == loop = "sleep" /\ (chan = "closed" \/ (chan = "open" /\ stop = "closed"))

LoopStops ==
  /\ Closed
  /\ loop' = "off" /\ chan' = "nil" /\ wait' = 0
  /\ excused' = excused \cup Lost
  /\ UNCHANGED <<now, docs, stop, periods, batch, upto, turned, skipped, repeated,
                 partial, sets, changes>>

TimerFires ==
  /\ loop = "sleep" /\ wait = 0
  /\ loop' = "list" /\ chan' = "nil"
  /\ periods' = DuePeriods(Day(now))
  /\ UNCHANGED <<now, docs, stop, wait, batch, reportVars, sets, changes>>

\* RunOnce of the next period: daily, then weekly, then monthly.
NextPeriod == CHOOSE p \in periods : p = "daily" \/ ("daily" \notin periods /\ p = "weekly")
                                     \/ periods = {"monthly"}

Listed(p) == {s \in Subs : docs[s].group # NoGroup /\ docs[s].period = p /\ docs[s].enabled}

\* The subscriptions are listed and the range computed.
BeginBatch ==
  LET p == NextPeriod
      r == PeriodRange(Day(now), p)
  IN  /\ loop = "list" /\ periods # {}
      /\ periods' = periods \ {p}
      /\ loop' = "send"
      /\ batch' = [period |-> p, day |-> Day(now), todo |-> Listed(p)]
      /\ upto' = [upto EXCEPT ![p] = r[2]]
      /\ skipped' = IF r[1] > upto[p] /\ p \notin excused THEN skipped \cup {p} ELSE skipped
      /\ repeated' = IF r[1] < upto[p] /\ ~turned THEN repeated \cup {p} ELSE repeated
      /\ partial' = IF FullPeriod(r, p, Day(now)) THEN partial ELSE partial \cup {p}
      /\ excused' = excused \ {p}
      /\ UNCHANGED <<now, docs, stop, chan, wait, turned, sets, changes>>

\* The listing fails: the error is logged.
BatchFails ==
  LET p == NextPeriod
  IN  /\ loop = "list" /\ periods # {}
      /\ periods' = periods \ {p}
      /\ excused' = excused \cup {p}
      /\ UNCHANGED <<now, docs, stop, loop, chan, wait, batch, upto, turned,
                     skipped, repeated, partial, sets, changes>>

\* One recipient: the report of the group is loaded, unless the run has it,
\* and mailed; an error of either is logged and the next one follows.
SendOne ==
  /\ loop = "send"
  /\ \E s \in batch.todo : batch' = [batch EXCEPT !.todo = @ \ {s}]
  /\ UNCHANGED <<now, docs, stop, loop, chan, wait, periods, reportVars, sets, changes>>

EndBatch ==
  /\ loop = "send" /\ batch.todo = {}
  /\ loop' = "list"
  /\ batch' = NoBatch
  /\ UNCHANGED <<now, docs, stop, chan, wait, periods, reportVars, sets, changes>>

\* The round is over and the loop waits for the next 06:00.
EndRound ==
  /\ loop = "list" /\ periods = {}
  /\ UNCHANGED <<now, docs, stop, reportVars, sets, changes>>
  /\ Sleep

(***************************************************************************)
(* Requests: create, update and delete a subscription, send one by hand.   *)
(***************************************************************************)
\* What the handlers let through: Bind validates the period.
Accepted == [period : Periods, group : Groups, enabled : BOOLEAN]

Known(s) == docs[s].group # NoGroup

SaveSubscription(s) ==
  /\ changes < MaxChanges /\ changes' = changes + 1
  /\ \E d \in Accepted : docs' = [docs EXCEPT ![s] = d]
  /\ UNCHANGED <<now, stop, loopVars, reportVars, sets>>

DeleteSubscription(s) ==
  /\ Known(s)
  /\ docs' = [docs EXCEPT ![s] = NoDoc]
  /\ UNCHANGED <<now, stop, loopVars, reportVars, sets, changes>>

SendNow(s) ==
  LET p == docs[s].period
      r == PeriodRange(Day(now), p)
  IN  /\ Known(s)
      /\ partial' = IF FullPeriod(r, p, Day(now)) THEN partial ELSE partial \cup {p}
      /\ UNCHANGED <<now, docs, stop, loopVars, upto, excused, turned, skipped, repeated,
                     sets, changes>>

(***************************************************************************)
(* Time.  A goroutine that is ready to run does so before time passes;     *)
(* sending the mails of a period may take until the day after the next.    *)
(***************************************************************************)
Ready == Closed \/ (loop = "sleep" /\ wait = 0) \/ loop = "list"

TimePasses ==
  /\ ~Ready /\ now + 1 \in Instants
  /\ loop = "send" => batch.todo # {} /\ Day(now) <= batch.day + 1
  /\ now' = now + 1
  /\ wait' = IF loop = "sleep" THEN wait - 1 ELSE wait
  /\ excused' = IF loop # "sleep" /\ now + 1 = NextTick(now) THEN Periods ELSE excused
  /\ UNCHANGED <<docs, stop, loop, chan, periods, batch, upto, turned, skipped,
                 repeated, partial, sets, changes>>

\* The wall clock is set; timers do not notice.
ClockIsSet ==
  /\ sets < MaxSets /\ sets' = sets + 1
  /\ now' \in {now - 1, now + 1} \cap Instants
  /\ excused' = Periods /\ turned' = TRUE
  /\ UNCHANGED <<docs, stop, loopVars, upto, skipped, repeated, partial, changes>>

LoopStep ==
  \/ LoopStops \/ TimerFires \/ BeginBatch \/ BatchFails \/ SendOne \/ EndBatch \/ EndRound

MailNext ==
  \/ Start \/ StopClose \/ StopForget \/ ProcessEnds \/ LoopStep
  \/ \E s \in Subs : SaveSubscription(s) \/ DeleteSubscription(s) \/ SendNow(s)
  \/ TimePasses \/ ClockIsSet

\* The runtime schedules the goroutine.
MailSpec == MailInit /\ [][MailNext]_mailVars /\ WF_mailVars(LoopStep)

-----------------------------------------------------------------------------
\* Types of the subscriptions and of the scheduler's variables.
MailTypeOK ==
  /\ now \in Instants
  /\ docs \in [Subs -> Doc]
  /\ stop \in {"nil", "open", "closed"} /\ chan \in {"nil", "open", "closed"}
  /\ loop \in {"off", "sleep", "list", "send"}
  /\ wait \in Nat
  /\ periods \subseteq Periods
  /\ batch.period \in Periods /\ batch.todo \subseteq Subs

(***************************************************************************)
(* "[from, to) covering the previous full period": on whatever day it is   *)
(* sent, a report covers exactly one day, week or month, which is over.    *)
(***************************************************************************)
ReportOfFullPeriod == partial = {}

(***************************************************************************)
(* The scheduler never mails a period twice, however long a round takes    *)
(* and however often the process is restarted, as long as nobody sets the  *)
(* clock: nextTick is strictly after the round.                            *)
(***************************************************************************)
NoReportTwice == repeated = {}

(***************************************************************************)
(* The scheduler leaves no day out of its reports, unless it was not       *)
(* waiting when a tick came (the process was down, or a round took that    *)
(* long), the list of subscriptions could not be read, or the clock was    *)
(* set.                                                                    *)
(***************************************************************************)
NoReportSkipped == skipped = {}

(***************************************************************************)
(* Stop ends a goroutine that waits for its tick, although it sets the     *)
(* field to nil: the select holds the channel.  (A goroutine that is       *)
(* sending at that time finds nil and never ends.)                         *)
(***************************************************************************)
StopEndsLoop == (stop = "closed" /\ loop = "sleep" /\ wait > 0) ~> loop = "off"
=============================================================================
