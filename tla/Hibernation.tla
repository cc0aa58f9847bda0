---------------------------- MODULE Hibernation -----------------------------
(***************************************************************************)
(* hibernate.c: a relay that carries at most AccountingMax bytes in every  *)
(* accounting interval.  One step of the model is one second of            *)
(* run_scheduled_events; between any two a signal may stop the program, or *)
(* it may crash, and what it knows of the interval is on disk or lost.     *)
(***************************************************************************)
EXTENDS Integers, Sequences, FiniteSetsExt, Functions

CONSTANTS
  Hard,                   \* AccountingMax
  SoftBytes, SoftMinutes, \* SOFT_LIM_BYTES, SOFT_LIM_MINUTES
  Length,                 \* of an interval
  PerSecond,              \* bytes the relay may carry in a second
  Expectations,           \* what expected_bandwidth_usage may come out as
  Months,                 \* how many days the months of a calendar have
  ShutdownWait,           \* ShutdownWaitLength
  MaxNow, MaxEvents       \* bounds: seconds, crashes and changes of the options

\* A quota of one byte has no soft limit, and is not kept.  No month is shorter
\* than the day, up to 28, on which a month's interval may start: here up to 3.
HibernationAssumption ==
  /\ Hard \in Nat /\ Hard >= 2 /\ SoftBytes \in Nat /\ SoftMinutes \in Nat
  /\ Length \in Nat \ {0} /\ PerSecond \in Nat /\ Expectations \subseteq Nat
  /\ Months \in Seq(Nat) /\ \A m \in DOMAIN Months : Months[m] >= 3
  /\ ShutdownWait \in Nat /\ MaxNow \in Nat /\ MaxEvents \in Nat

VARIABLES
  now, up,
  h,      \* the state of hibernate.c while the program runs
  state,  \* the accounting fields of the state file's image in memory
  disk,   \* ... and of the file
  draw,   \* what the identity key makes of an interval's start
  settled, \* the interval was not begun after consider_hibernation
  fresh,   \* usage was read that consider_hibernation has not looked at
  total, lost, exempt, \* bytes carried in this interval; those of them that
           \* were forgotten; those that no limit applies to: carried while
           \* fresh, in a shutdown, or by the directory connections of a
           \* relay that is dormant
  events
vars == <<now, up, h, state, disk, draw, settled, fresh, total, lost, exempt, events>>

Least(a, b) == IF a < b THEN a ELSE b
Most(a, b) == IF a > b THEN a ELSE b
Never == -1

\* edge_of_accounting_period_containing, in days and in the minutes of a day.
DayOf(mon, day) == day + SumFunctionOnSet(Months, 1 .. mon - 1)
Edge(unit, start, t, end) ==
  LET before == t.min < start.min
      today == DayOf(t.mon, t.day)
      next(n) == IF end THEN n ELSE 0
      delta == (7 + (today % 7) - (start.day % 7)) % 7
  IN  [day |-> CASE unit = "month" -> DayOf(t.mon - (IF t.day < start.day THEN 1 ELSE 0) + next(1), start.day)
                 [] unit = "week" -> today - (IF delta = 0 /\ before THEN 7 ELSE delta) + next(7)
                 [] unit = "day" -> today - (IF before THEN 1 ELSE 0) + next(1),
       min |-> start.min]
Earlier(a, b) == a.day < b.day \/ (a.day = b.day /\ a.min < b.min)

\* An accounting period contains the time it is the period of; but before the
\* hour at which a month's changes, the day belongs to the one to come.
PeriodsContain ==
  \A unit \in {"month", "week", "day"}, day \in 1 .. 3, min, m \in 0 .. 1 :
    \A mon \in 2 .. Len(Months) - 1 : \A d \in 1 .. Months[mon] :
      LET start == [day |-> day, min |-> min]
          t == [mon |-> mon, day |-> d, min |-> m]
          at == [day |-> DayOf(mon, d), min |-> m]
      IN  /\ Earlier(at, Edge(unit, start, t, TRUE))
          /\ Earlier(at, Edge(unit, start, t, FALSE)) <=> unit = "month" /\ d = day /\ m < min

\* The same, for days that are all alike.
PeriodStart(t) == t - (t % Length)
PeriodEnd(t) == PeriodStart(t) + Length

Record(s) == [start |-> s.start, used |-> s.used, expected |-> s.expected]
Nothing == [start |-> Never, used |-> 0, expected |-> 0]
Off(on) == [mode |-> "initial", on |-> on, until |-> 0, start |-> Never, end |-> 0,
            wake |-> 0, used |-> 0, expected |-> 0, stop |-> 0]

Init ==
  /\ now \in 0 .. Length - 1 /\ up = FALSE
  /\ h = Off(TRUE) /\ state = Nothing /\ disk = Nothing
  /\ draw \in 0 .. Length - 1
  /\ settled = FALSE /\ fresh = FALSE /\ events = 0 /\ total = 0 /\ lost = 0 /\ exempt = 0
-----------------------------------------------------------------------------
\* reset_accounting; e is what update_expected_bandwidth comes to.
Reset(s, t, e) == [s EXCEPT !.expected = e, !.start = PeriodStart(t), !.end = PeriodEnd(t), !.used = 0]

\* accounting_set_wakeup_time: the same for every run of the program in an
\* interval, as long as the expectation is.
WithWakeup(s) ==
  LET consider == IF s.expected = 0 THEN 0 ELSE (s.end - s.start) - Hard \div s.expected
  IN  [s EXCEPT !.wake = s.start + IF consider <= 0 THEN 0 ELSE draw % consider]

\* configure_accounting, with read_bandwidth_usage.
Configure(s, t, e, file) ==
  LET r == IF s.start = Never
           THEN [s EXCEPT !.used = file.used, !.start = file.start, !.expected = file.expected] ELSE s
      moved == PeriodStart(t) - r.start
  IN  WithWakeup(IF r.start = Never THEN Reset(r, t, e)
                 ELSE IF moved = 0 THEN [r EXCEPT !.end = PeriodEnd(r.start)]
                 ELSE IF 2 * moved <= Length /\ -2 * moved <= Length THEN [r EXCEPT !.end = PeriodEnd(t)]
                 ELSE Reset(r, t, e))

HardReached(s) == s.on /\ s.used >= Hard
SoftLimit(s) ==
  LET percent == (Hard * 95) \div 100
      bytes == IF Hard > SoftBytes THEN Most(percent, Hard - SoftBytes) ELSE percent
      soon == s.expected * SoftMinutes
  IN  IF s.expected > 0 /\ Hard > soon THEN Most(bytes, Hard - soon) ELSE bytes
SoftReached(s) == s.on /\ SoftLimit(s) > 0 /\ s.used >= SoftLimit(s)

\* hibernate_begin at the soft limit and at the first SIGINT; and
\* hibernate_go_dormant.
Begin(s, mode, t) ==
  IF mode = "exiting" THEN [s EXCEPT !.mode = mode, !.stop = t + ShutdownWait]
  ELSE [s EXCEPT !.mode = mode, !.until = s.end]
GoDormant(s, t) ==
  IF s.mode = "dormant" THEN s
  ELSE [s EXCEPT !.mode = "dormant", !.until = IF t < s.wake THEN s.wake ELSE s.end]

\* hibernate_end_time_elapsed, with accounting_run_housekeeping.
Housekeeping(s, t, e) == IF t >= s.end THEN Configure(s, t, e, Nothing) ELSE s
Elapsed(s, t, e) ==
  LET r == Housekeeping(s, t, e)
  IN  IF r.wake <= t THEN [r EXCEPT !.mode = "live", !.until = 0]
      ELSE IF r.mode # "dormant" THEN GoDormant(r, t) ELSE [r EXCEPT !.until = r.wake]

\* consider_hibernation: three questions, each asked of what the one before left,
\* and none of a program that is shutting down, which ends when its time has come.
Done(s, t) == s.mode = "exiting" /\ s.stop <= t
Sleeping(s, t, e) ==
  IF s.mode = "dormant" /\ ~(s.until > t /\ s.on) THEN Elapsed(s, t, e) ELSE s
Awake(s, t) ==
  IF s.mode \notin {"live", "initial"} THEN s
  ELSE IF SoftReached(s) THEN Begin(s, "lowbandwidth", t)
  ELSE IF s.on /\ t < s.wake THEN GoDormant(s, t)
  ELSE [s EXCEPT !.mode = "live"]
Low_EndOnly(s, t, e) ==
  IF s.mode = "lowbandwidth" /\ (~s.on \/ s.until <= t) THEN Elapsed(s, t, e) ELSE s
Low(s, t, e) ==
  IF s.mode # "lowbandwidth" THEN s
  ELSE IF ~s.on THEN Elapsed(s, t, e)
  ELSE IF HardReached(s) THEN GoDormant(s, t)
  ELSE IF s.until <= t THEN Elapsed(s, t, e) ELSE s
Consider(s, t, e) ==
  IF s.mode = "exiting" \/ (s.mode = "dormant" /\ s.until > t /\ s.on) THEN s
  ELSE Low(Awake(Sleeping(s, t, e), t), t, e)
-----------------------------------------------------------------------------
\* What r tells of the interval of now, and whom the program s asks.
OfInterval(r) == IF r.start = PeriodStart(now) THEN r.used ELSE 0
Known(s) == IF s.start = Never THEN Record(state) ELSE Record(s)
Forgotten(s, image) == Most(0, OfInterval(Known(s)) - OfInterval(image))

\* Hibernation that is begun is recorded in memory.
Noted(s, r) == IF r.mode # s.mode /\ r.mode # "live" THEN Record(r) ELSE state

\* The options take effect: options_act_reversible asks consider_hibernation
\* before options_act reads what is recorded.
Act(s, e, file) ==
  LET r == Consider(s, now, e)
  IN  IF s.on THEN Configure(r, now, e, file) ELSE r
Switched(s) == [s EXCEPT !.on = ~@]
StartUp(e) ==
  /\ ~up /\ up' = TRUE /\ settled' = FALSE /\ fresh' = TRUE
  /\ h' = Act(h, e, disk) /\ state' = disk
  /\ UNCHANGED <<now, disk, draw, total, lost, exempt, events>>
SetAccountingMax(e) ==
  /\ up /\ ~Done(h, now) /\ events < MaxEvents /\ events' = events + 1 /\ settled' = FALSE
  /\ fresh' = (h.start = Never)
  /\ h' = Act(Switched(h), e, state) /\ state' = Noted(h, Consider(Switched(h), now, e))
  /\ UNCHANGED <<now, up, disk, draw, total, lost, exempt>>

\* One second: n bytes are carried, run_scheduled_events considers hibernation,
\* keeps the interval and, if it is time, records it and writes the state file.
Carried(n) == [h EXCEPT !.used = IF h.on THEN @ + n ELSE @]
Second(n, e, note, save) ==
  LET t == now + 1
      considered == Consider(Carried(n), t, e)
      kept == IF h.on THEN Housekeeping(considered, t, e) ELSE considered
      recorded == IF h.on /\ (note \/ kept.end <= t) THEN Record(kept) ELSE Noted(h, considered)
      same == PeriodStart(t) = PeriodStart(now)
      counted == IF h.on THEN n ELSE 0
  IN  /\ up /\ now < MaxNow /\ ~Done(h, t)
      /\ now' = t /\ h' = kept /\ state' = recorded
      /\ disk' = IF save THEN recorded ELSE disk
      /\ settled' = (kept.start = considered.start) /\ fresh' = FALSE
      /\ total' = IF same THEN total + counted ELSE 0
      /\ lost' = IF same THEN lost ELSE 0
      /\ exempt' = IF ~same THEN 0
                   ELSE IF fresh \/ h.mode \in {"exiting", "dormant"} THEN exempt + counted ELSE exempt
      /\ UNCHANGED <<up, draw, events>>

\* The program s ends, leaves the image on disk, and may be started again at t.
\* n of its bytes have not been counted in the interval.
Ends(s, n, image, t) ==
  LET same == PeriodStart(t) = PeriodStart(now)
  IN  /\ up /\ up' = FALSE /\ now' = t /\ settled' = FALSE /\ fresh' = FALSE
      /\ h' = Off(s.on) /\ state' = Nothing /\ disk' = image
      /\ total' = IF same THEN total + n ELSE 0
      /\ lost' = IF same THEN lost + Forgotten(s, image) ELSE 0
      /\ exempt' = IF same THEN exempt + n ELSE 0
      /\ UNCHANGED draw

\* It dies; or it exits through tor_cleanup, which records the usage if there
\* is accounting and writes the state file: at a SIGTERM, at a SIGINT while it
\* is not live, or when a shutdown's time has come and the options or a second
\* make it consider.
Cleanly(s) == IF s.on THEN Record(s) ELSE state
Crash(t) == events < MaxEvents /\ events' = events + 1 /\ Ends(h, 0, disk, t)
Stop(s, t) == (s = h \/ Done(h, now)) /\ Ends(s, 0, Cleanly(s), t) /\ UNCHANGED events
LastSecond(n, t) ==
  /\ Done(h, now + 1) /\ now < t
  /\ Ends(Carried(n), IF h.on THEN n ELSE 0, Cleanly(Carried(n)), t)
  /\ UNCHANGED events

\* hibernate_begin_shutdown, at a SIGINT while it is live.
Interrupt ==
  /\ up /\ h.mode = "live"
  /\ h' = Begin(h, "exiting", now) /\ state' = Record(h)
  /\ lost' = lost + Forgotten(h, Record(h))
  /\ UNCHANGED <<now, up, disk, draw, settled, fresh, total, exempt, events>>

Next ==
  \/ \E e \in Expectations :
       \/ StartUp(e) \/ SetAccountingMax(e)
       \/ \E n \in 0 .. PerSecond, note, save \in BOOLEAN : Second(n, e, note, save)
  \/ \E t \in now .. Least(MaxNow, now + Length) :
       \/ Crash(t) \/ Stop(h, t) \/ Stop(Switched(h), t)
       \/ \E n \in 0 .. PerSecond : LastSecond(n, t)
  \/ Interrupt
Spec == Init /\ [][Next]_vars
-----------------------------------------------------------------------------
\* Whatever crashes make it forget, a relay carries in no interval more than its
\* quota, the bytes of the second in which it reaches it, those that were
\* forgotten, and those that no limit applies to.
QuotaKept == total <= Hard - 1 + PerSecond + lost + exempt

\* Whoever has quota left is awake when its time has come, and no sooner; a
\* relay that is shutting down only keeps its interval.
SleepsRight ==
  /\ now = 0 => PeriodsContain  \* which no variable is in
  /\ up /\ settled /\ h.on =>
    /\ h.mode # "exiting" =>
       /\ h.used >= Hard => h.mode = "dormant"
       /\ now < h.wake => h.mode \in {"dormant", "lowbandwidth"}
       /\ h.mode = "dormant" => h.used >= Hard \/ now < h.wake
    /\ now < h.end

\* The quota is kept, and the relay sleeps and wakes when it should.
HibernatesRight == QuotaKept /\ SleepsRight
=============================================================================
