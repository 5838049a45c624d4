------------------------------ MODULE TimeZone ------------------------------
(***************************************************************************)
(* The clock of a terminal session (plugins/terminal/src/shared/           *)
(* timeZone.ts, node-terminal/src/timezone.c).  A shell is given the name  *)
(* of console's time zone where its container or node has tzdata, and      *)
(* otherwise a POSIX TZ string derived from the zone's offsets during the  *)
(* current year, which libc reads back.                                    *)
(*                                                                         *)
(* An instant is a number of minutes since the year began in UTC.  What    *)
(* Intl knows of a zone is its offset when the year begins and the         *)
(* changes of it.                                                          *)
(***************************************************************************)
EXTENDS Integers, Sequences, SequencesExt, FiniteSets, FiniteSetsExt, Absent

CONSTANTS TzZones,     \* what Intl knows, by name: [base, changes: <<[at, to], ...>>]
          TzSafe,      \* the names that match IANA_PATTERN
          TzBrowser,   \* the browser's zone
          TzYears      \* the years looked at: [first: weekday of January 1st, leap]

ASSUME TzAssumption == TzBrowser \in TzSafe /\ TzSafe \subseteq DOMAIN TzZones

VARIABLE session   \* the session opened, or None

tzVars == session

-----------------------------------------------------------------------------
(* The calendar                                                             *)

DAY == 24 * 60

MonthLengths(year) == <<31, IF year.leap THEN 29 ELSE 28, 31, 30, 31, 30, 31, 31, 30, 31, 30, 31>>

\* Days of the year before month m
DaysBefore(year, m) == FoldLeft(LAMBDA n, l : n + l, 0, SubSeq(MonthLengths(year), 1, m - 1))

YearDays(year) == DaysBefore(year, 13)

Weekday(year, day) == (year.first + day) % 7

\* What a Date shows of the minute wall. It may fall into the year before or after.
CalendarDate(year, wall) ==
  LET day == wall \div DAY
      month == CASE day < 0 -> 12
                 [] day >= YearDays(year) -> 1
                 [] OTHER -> CHOOSE m \in 1..12 : DaysBefore(year, m) <= day /\ day < DaysBefore(year, m + 1)
      date == CASE day < 0 -> 32 + day
                [] day >= YearDays(year) -> day - YearDays(year) + 1
                [] OTHER -> day - DaysBefore(year, month) + 1
  IN  [month |-> month, date |-> date, weekday |-> Weekday(year, day),
       hours |-> (wall % DAY) \div 60, minutes |-> wall % 60]

-----------------------------------------------------------------------------
(* timeZone.ts                                                              *)

offsetAt(zone, time) ==
  LET past == {k \in DOMAIN zone.changes : zone.changes[k].at <= time}
  IN  IF past = {} THEN zone.base ELSE zone.changes[Max(past)].to

Magnitude(offset) == IF offset < 0 THEN -offset ELSE offset

posixName(offset) ==
  [sign |-> IF offset < 0 THEN "-" ELSE "+",
   hours |-> Magnitude(offset) \div 60, minutes |-> Magnitude(offset) % 60]

\* West of UTC is positive.
posixOffset(offset) ==
  [sign |-> IF offset > 0 THEN "-" ELSE "",
   hours |-> Magnitude(offset) \div 60, minutes |-> Magnitude(offset) % 60]

\* Mutant of posixRule: the rule says when the clocks will show, not when they showed.
posixRuleAfter(year, t) ==
  LET wall == CalendarDate(year, t.at + t.to)
      last == wall.date + 7 > MonthLengths(year)[wall.month]
  IN  [month |-> wall.month, week |-> IF last THEN 5 ELSE (wall.date + 6) \div 7,
       weekday |-> wall.weekday, hours |-> wall.hours, minutes |-> wall.minutes]

\* Month, week (5 is the last), weekday, and the time the clocks showed.
posixRule(year, t) ==
  LET wall == CalendarDate(year, t.at + t.from)
      last == wall.date + 7 > MonthLengths(year)[wall.month]
  IN  [month |-> wall.month, week |-> IF last THEN 5 ELSE (wall.date + 6) \div 7,
       weekday |-> wall.weekday, hours |-> wall.hours, minutes |-> wall.minutes]

fixed(offset) == [name |-> posixName(offset), offset |-> posixOffset(offset)]

\* Halving the day of a change until a minute is left.
RECURSIVE Narrow(_, _, _, _)
Narrow(zone, previous, low, high) ==
  IF high - low <= 1 THEN high
  ELSE LET mid == low + (high - low) \div 2
       IN  IF offsetAt(zone, mid) = previous THEN Narrow(zone, previous, mid, high)
           ELSE Narrow(zone, previous, low, mid)

\* The changes found by comparing the offsets day by day.
transitions(zone, year) ==
  LET found == {d \in 0..(YearDays(year) - 1) : offsetAt(zone, d * DAY) # offsetAt(zone, (d + 1) * DAY)}
      days == SetToSortSeq(found, <)
  IN  [k \in DOMAIN days |->
         LET previous == offsetAt(zone, days[k] * DAY)
         IN  [at |-> Narrow(zone, previous, days[k] * DAY, (days[k] + 1) * DAY),
              from |-> previous, to |-> offsetAt(zone, (days[k] + 1) * DAY)]]

\* A TZ string: a standard offset and, with daylight saving time, another
\* offset and the rules for changing to it and back.
Constantly(offset) == [standard |-> fixed(offset), daylight |-> None, toDaylight |-> None, toStandard |-> None]

posixTimeZone(name, year, now) ==
  LET zone == TzZones[name]
      ts == transitions(zone, year)
      standard == Min({ts[1].from, ts[1].to})
      daylight == Max({ts[1].from, ts[1].to})
      To(offset) == SelectInSeq(ts, LAMBDA t : t.to = offset)
  IN  IF name \in {"UTC", "Etc/UTC"} THEN Constantly(0)
      ELSE IF Len(ts) # 2 \/ To(daylight) = 0 \/ To(standard) = 0 THEN Constantly(offsetAt(zone, now))
      ELSE [standard |-> fixed(standard), daylight |-> fixed(daylight),
            toDaylight |-> posixRule(year, ts[To(daylight)]), toStandard |-> posixRule(year, ts[To(standard)])]

preferredTimeZone(preference) ==
  IF preference \in DOMAIN TzZones THEN preference ELSE TzBrowser

sessionTimeZone(preference, year, now) ==
  LET name == preferredTimeZone(preference)
  IN  IF name \in TzSafe THEN [name |-> name, posix |-> posixTimeZone(name, year, now)] ELSE None

Named(name) == [iana |-> name, posix |-> None]
Derived(posix) == [iana |-> None, posix |-> posix]

\* What the code before the shell of a pod sets TZ to; None sets nothing.
shellTimeZonePrefix(tz, zoneinfo) ==
  IF tz = None THEN None ELSE IF tz.name \in zoneinfo THEN Named(tz.name) ELSE Derived(tz.posix)

\* What the shim sets it to. It checks both strings again.
timezone_select(tz, zoneinfo) ==
  IF tz = None THEN None
  ELSE IF tz.name \in TzSafe \cap zoneinfo THEN Named(tz.name) ELSE Derived(tz.posix)

TzInit == session = None

\* A session is opened in a container or on a node that has the tzdata zoneinfo.
OpenSession(shell, preference, year, now, zoneinfo) ==
  /\ session = None
  /\ LET tz == sessionTimeZone(preference, year, now)
     IN  session' = [zone |-> preferredTimeZone(preference), year |-> year, now |-> now,
                     TZ |-> IF shell = "pod" THEN shellTimeZonePrefix(tz, zoneinfo)
                            ELSE timezone_select(tz, zoneinfo)]

TzNext ==
  \E shell \in {"pod", "node"}, preference \in {None, "browser", "unknown"} \cup DOMAIN TzZones,
     year \in TzYears :
    \E time \in {0, 181 * DAY, YearDays(year) * DAY - 1}, zoneinfo \in {{}, TzSafe} :
      OpenSession(shell, preference, year, time, zoneinfo)

-----------------------------------------------------------------------------
(* How libc reads a TZ string                                               *)

Reads(po) == (IF po.sign = "-" THEN 1 ELSE -1) * (po.hours * 60 + po.minutes)

\* The local minute at which a rule applies: in the given week of the month, or
\* the last one if that has no such day.
RuleTime(year, rule) ==
  LET length == MonthLengths(year)[rule.month]
      dates == {d \in 1..length : Weekday(year, DaysBefore(year, rule.month) + d - 1) = rule.weekday}
      late == {d \in dates : d > 7 * (rule.week - 1)}
      date == IF late = {} THEN Max(dates) ELSE Min(late)
  IN  (DaysBefore(year, rule.month) + date - 1) * DAY + rule.hours * 60 + rule.minutes

LibcOffset(tz, year, times) ==
  LET standard == Reads(tz.standard.offset)
      daylight == Reads(tz.daylight.offset)
      begins == RuleTime(year, tz.toDaylight) - standard
      ends == RuleTime(year, tz.toStandard) - daylight
  IN  [t \in times |->
         IF tz.daylight = None THEN standard
         ELSE IF (IF begins < ends THEN begins <= t /\ t < ends ELSE t < ends \/ begins <= t)
           THEN daylight ELSE standard]

-----------------------------------------------------------------------------
\* The zone's clocks change on days of the year by its own clocks, too.
WithinYear(zone, year) ==
  \A c \in Range(zone.changes), offset \in {zone.base} \cup {d.to : d \in Range(zone.changes)} :
    c.at > 0 /\ (c.at + offset) \div DAY \in 0..(YearDays(year) - 1)

\* The zone keeps its offset all year or changes it twice, there and back.
ThereAndBack(zone) ==
  \/ zone.changes = <<>>
  \/ /\ Len(zone.changes) = 2 /\ zone.changes[2].to = zone.base
     /\ zone.changes[1].at \div DAY # zone.changes[2].at \div DAY

\* The clock of a session shows the time of the zone chosen in console, or of
\* the browser's, with tzdata and without: at every minute of the year if the
\* zone's year fits POSIX's two rules, wherever in the year they fall and in
\* whichever order, and when it is opened in any case (timeZone.ts:3-11, 99-103).
\* Zones that change as the year turns are left out: the rule then names a day
\* at the other end of it.
ClockOfConsole ==
  session # None =>
    LET zone == TzZones[session.zone]
        changes == {zone.changes[k].at : k \in DOMAIN zone.changes}
        times == {d * DAY : d \in 0..(YearDays(session.year) - 1)} \cup {session.now}
                   \cup changes \cup {t - 1 : t \in changes}
        shown == LibcOffset(session.TZ.posix, session.year, times)
    IN  CASE session.zone \notin TzSafe -> session.TZ = None
          [] session.zone \in TzSafe /\ session.TZ.iana = None /\ ~WithinYear(zone, session.year) -> TRUE
          [] session.zone \in TzSafe /\ session.TZ.iana # None -> session.TZ.iana = session.zone
          [] OTHER -> \A t \in IF ThereAndBack(zone) THEN times ELSE {session.now} :
                        shown[t] = offsetAt(zone, t)
=============================================================================
