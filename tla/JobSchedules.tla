---------------------------- MODULE JobSchedules ----------------------------
(***************************************************************************)
(* Recurrence rules of packages/async/jobs/mod.ts: cron expressions over   *)
(* the Gregorian calendar, intervals, and the delay before a retry.  A     *)
(* cron field is the list of its tokens [lo, hi, step, stepped]; lo = Star  *)
(* stands for "*", stepped says whether a step is written.  Hours and       *)
(* minutes may be made fewer than a real day has, so that the search of     *)
(* nextCronRun, instant by instant, stays small.                            *)
(***************************************************************************)
EXTENDS Integers, SequencesExt, FiniteSetsExt

CONSTANTS
  Star,            \* "*"
  HoursPerDay,     \* 24
  MinutesPerHour   \* 60

None == -1       \* no run within the search window
Rejected == -2   \* JOB_INVALID

-----------------------------------------------------------------------------
(* The UTC calendar of Date, by day number; day 0 is 1 January 1970.        *)
(* Counting years from 1 March makes the leap day the last one of a year.   *)
DateOf(day) ==
  LET z   == day + 719468
      era == z \div 146097
      doe == z - era * 146097
      yoe == (doe - doe \div 1460 + doe \div 36524 - doe \div 146096) \div 365
      doy == doe - (365 * yoe + yoe \div 4 - yoe \div 100)
      mp  == (5 * doy + 2) \div 153
      m   == IF mp < 10 THEN mp + 3 ELSE mp - 9
  IN  [year |-> yoe + era * 400 + (IF m <= 2 THEN 1 ELSE 0), month |-> m,
       dom |-> doy - (153 * mp + 2) \div 5 + 1, dow |-> (day + 4) % 7]

InstantsPerDay == HoursPerDay * MinutesPerHour
At(t) == [date |-> DateOf(t \div InstantsPerDay),
          hour |-> (t % InstantsPerDay) \div MinutesPerHour,
          minute |-> t % MinutesPerHour]

-----------------------------------------------------------------------------
(* parseCronField; a field it refuses has no values, and no other is empty.  *)
TokenRange(token, min, max) ==
  IF token.lo = Star THEN min .. max ELSE token.lo .. token.hi

ValidToken(token, min, max) ==
  /\ token.step >= 1
  /\ token.lo = Star \/ (min <= token.lo /\ token.lo <= token.hi /\ token.hi <= max)

TokenValues(token, min, max) ==
  LET lo == IF token.lo = Star THEN min ELSE token.lo IN
    {v \in TokenRange(token, min, max) : (v - lo) % token.step = 0}

ParseCronField(field, min, max) ==
  IF \E i \in DOMAIN field : ~ValidToken(field[i], min, max) THEN {}
  ELSE UNION {TokenValues(field[i], min, max) : i \in DOMAIN field}

(* The text "*", which "*/1" is not. *)
IsStar(field) == Len(field) = 1 /\ field[1].lo = Star /\ ~field[1].stepped

(* parseCronExpression, of the five fields. *)
ParseCronExpression(e) ==
  [minutes     |-> ParseCronField(e.minute, 0, MinutesPerHour - 1),
   hours       |-> ParseCronField(e.hour, 0, HoursPerDay - 1),
   daysOfMonth |-> ParseCronField(e.dom, 1, 31),
   months      |-> ParseCronField(e.month, 1, 12),
   daysOfWeek  |-> ParseCronField(e.dow, 0, 6),
   domRestricted |-> ~IsStar(e.dom), dowRestricted |-> ~IsStar(e.dow)]

Refused(s) == {} \in {s.minutes, s.hours, s.daysOfMonth, s.months, s.daysOfWeek}

DayMatches(s, date) ==
  /\ date.month \in s.months
  /\ IF s.domRestricted /\ s.dowRestricted
     THEN date.dom \in s.daysOfMonth \/ date.dow \in s.daysOfWeek
     ELSE date.dom \in s.daysOfMonth /\ date.dow \in s.daysOfWeek

CronMatches(s, at) ==
  at.minute \in s.minutes /\ at.hour \in s.hours /\ DayMatches(s, at.date)

CronSearchMinutes == 4 * 366 * InstantsPerDay

(* nextCronRun: the first instant after `after` that matches.               *)
NextCronRun(e, after) ==
  LET s == ParseCronExpression(e)
      matches == {t \in after + 1 .. after + CronSearchMinutes : CronMatches(s, At(t))}
  IN  IF Refused(s) THEN Rejected
      ELSE IF matches = {} THEN None ELSE Min(matches)

(* nextRecurrenceAt: an interval, in halves of a millisecond, need only be     *)
(* positive, and Date cuts off what is less than a millisecond.              *)
NextRecurrenceAt(rule, after) ==
  IF rule.kind = "cron" THEN NextCronRun(rule.expression, after)
  ELSE IF rule.every <= 0 THEN Rejected ELSE after + rule.every \div 2

-----------------------------------------------------------------------------
(* What crontab(5) means by an expression, field by field.                  *)
Meant(field, min, max, v) ==
  \E i \in DOMAIN field :
    LET token == field[i]
        lo == IF token.lo = Star THEN min ELSE token.lo
        hi == IF token.lo = Star THEN max ELSE token.hi
    IN  \E n \in 0 .. max : v = lo + n * token.step /\ v <= hi

Due(e, at) ==
  /\ Meant(e.minute, 0, MinutesPerHour - 1, at.minute)
  /\ Meant(e.hour, 0, HoursPerDay - 1, at.hour)
  /\ Meant(e.month, 1, 12, at.date.month)
  /\ LET dom == Meant(e.dom, 1, 31, at.date.dom)
         dow == Meant(e.dow, 0, 6, at.date.dow)
     IN  \/ dom /\ dow
         \/ ~IsStar(e.dom) /\ dow /\ ~IsStar(e.dow)
         \/ ~IsStar(e.dow) /\ dom /\ ~IsStar(e.dom)

(* The run that is found is due, later, and no due instant was passed over; *)
(* none is found only when none is due in the four years searched.          *)
NextRunIsNext(e, after) ==
  LET next == NextRecurrenceAt([kind |-> "cron", expression |-> e], after) IN
    next # Rejected =>
    IF next = None
    THEN \A d \in 1 .. CronSearchMinutes : ~Due(e, At(after + d))
    ELSE /\ next > after /\ Due(e, At(next))
         /\ \A t \in after + 1 .. next - 1 : ~Due(e, At(t))

(* A job recurs later than the run it follows - and not at the same instant, *)
(* which would keep its worker busy for ever - exactly when its interval is  *)
(* a millisecond or more; a positive one below that is accepted as well.     *)
IntervalGoesOn(every, after) ==
  LET next == NextRecurrenceAt([kind |-> "interval", every |-> every], after) IN
    next # Rejected => next >= after /\ (next > after <=> every >= 2)
=============================================================================
