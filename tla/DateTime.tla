------------------------------ MODULE DateTime ------------------------------
(***************************************************************************)
(* Console's date and time preferences as the plugins apply them: the      *)
(* formatters and wall clocks of plugins/filesystem/src/shared/            *)
(* date-time-preferences.ts and the time column of plugins/logging/src/    *)
(* logs/time-format.ts.  Preferences change in this window and in others,  *)
(* while formatters are cached and the log viewer comes and goes.          *)
(***************************************************************************)
EXTENDS Integers, FiniteSets, Absent, TimeZone

CONSTANTS Zones,        \* time zones the browser knows: offsets before and after an instant
          Chosen,       \* the zones among them that may be preferred
          Locales,      \* well-formed locales
          Languages,    \* languages console may be in
          DayHours,     \* hours of a day
          MonthDays,    \* days of a month
          MaxMonth      \* bound: months in which a time is entered

ASSUME DateAssumption == Chosen \subseteq DOMAIN Zones /\ {DayHours, MonthDays} \subseteq Nat \ {0} /\ MaxMonth \in Nat

VARIABLES
  prefs,   \* localStorage: the locale, hour cycle, time zone and language
  cached,  \* the cache of a lazyDateTimeFormatter
  got,     \* history: the formatter last got and the preferences it was got under
  mount,   \* useTimestampFormat: "off", "rendered" or "subscribed"
  shown,   \* the format the log viewer uses
  due,     \* a storage event of another window is on its way
  missed,  \* history: a change nobody was told of
  clock    \* a wall clock that was entered: its zone and fields

dateVars == <<prefs, cached, got, mount, shown, due, missed, clock>>

-----------------------------------------------------------------------------
(* The preferences.  A locale may be malformed, a time zone unknown.        *)

ZoneNames == DOMAIN Zones
Formatter(locale, hourCycle, timeZone) == [locale |-> locale, hourCycle |-> hourCycle, timeZone |-> timeZone]

\* The locale Intl uses when given none
Browser == "the browser's"

getTimeZone(p) == IF p.timeZone \in ZoneNames THEN p.timeZone ELSE None
getHourCycle(p) == IF p.hourCycle \in {"h12", "h23"} THEN p.hourCycle ELSE None
getConsoleLanguage(p) == IF p.language = None THEN Browser ELSE p.language

getDateTimeLocale(p) ==
  CASE p.locale = "browser" -> Browser
    [] p.locale \in Locales -> p.locale
    [] OTHER -> getConsoleLanguage(p)

\* withDateTimePreferences, and the formatter Intl makes of it: a fixed zone is
\* kept, the hour cycle only matters to times.
Built(p, options) ==
  Formatter(getDateTimeLocale(p), IF options.hour THEN getHourCycle(p) ELSE None,
            IF options.timeZone # None THEN options.timeZone ELSE getTimeZone(p))

\* Mutant of CacheKey: the zone is not part of it.
CacheKeyZoneless(p, options) == <<Built(p, options).locale, Built(p, options).hourCycle>>

CacheKey(p, options) ==
  <<Built(p, options).locale, Built(p, options).hourCycle, Built(p, options).timeZone>>

\* lazyDateTimeFormatter.get
get(options) ==
  LET key == CacheKey(prefs, options)
      fresh == [key |-> key, options |-> options, formatter |-> Built(prefs, options)]
  IN  IF cached # None /\ cached.options = options /\ cached.key = key THEN cached ELSE fresh

-----------------------------------------------------------------------------
(* The time column of a log.  None is the compact default.                  *)

compactFormat(timeZone) == [locale |-> "compact", hourCycle |-> None, timeZone |-> timeZone]

\* Mutant of timestampFormatFromPreference: a time zone alone changes nothing.
timestampFormatZoneless(p) ==
  LET own == p.locale \notin {None, "language"}
      locale == CASE p.locale = "browser" -> Browser [] own -> p.locale [] OTHER -> getConsoleLanguage(p)
  IN  IF (~own /\ getHourCycle(p) = None) \/ locale \notin Locales \cup Languages \cup {Browser} THEN None
      ELSE Formatter(locale, getHourCycle(p), getTimeZone(p))

timestampFormatFromPreference(p) ==
  LET timeZone == getTimeZone(p)
      own == p.locale \notin {None, "language"}
      locale == CASE p.locale = "browser" -> Browser
                  [] p.locale # "browser" /\ own -> p.locale
                  [] OTHER -> getConsoleLanguage(p)
      wellFormed == locale \in Locales \cup Languages \cup {Browser}
  IN  IF (~own /\ getHourCycle(p) = None) \/ ~wellFormed
        THEN IF timeZone = None THEN None ELSE compactFormat(timeZone)
        ELSE Formatter(locale, getHourCycle(p), timeZone)

-----------------------------------------------------------------------------
(* Wall clocks.  An instant is an hour; the clocks of a zone change once.   *)

Fields(month, day, hour) == [month |-> month, day |-> day, hour |-> hour]

\* Date.UTC, which takes a day past the end of the month for one of the next
AsUTC(fields) == ((fields.month - 1) * MonthDays + fields.day - 1) * DayHours + fields.hour

Offset(zone, time) == IF time < Zones[zone].at THEN Zones[zone].before ELSE Zones[zone].after

\* formatToParts in a zone
wallClockIn(time, zone) ==
  LET hours == time + Offset(zone, time)
      days == hours \div DayHours
  IN  Fields((days \div MonthDays) + 1, (days % MonthDays) + 1, hours % DayHours)

toWallClock(time, zone) == wallClockIn(time, zone)

\* The gap between a guess and the wall clock it shows is made up for.
Adjust(time, zone, asUTC) == time + asUTC - AsUTC(wallClockIn(time, zone))

\* Mutant of fromWallClock: one round.
fromWallClockOnce(fields, zone) ==
  LET first == Adjust(AsUTC(fields), zone, AsUTC(fields))
  IN  IF wallClockIn(first, zone) = fields THEN first ELSE None

fromWallClock(fields, zone) ==
  LET asUTC == AsUTC(fields)
      first == Adjust(asUTC, zone, asUTC)
      second == Adjust(first, zone, asUTC)
  IN  IF wallClockIn(second, zone) = fields THEN second ELSE None

-----------------------------------------------------------------------------

DateInit ==
  /\ prefs = [locale |-> None, hourCycle |-> None, timeZone |-> None, language |-> None]
  /\ cached = None /\ got = None
  /\ mount = "off" /\ shown = None /\ due = FALSE /\ missed = FALSE
  /\ clock = None

Preferences == [locale |-> {None, "language", "browser", "malformed"} \cup Locales,
                hourCycle |-> {None, "h12", "auto"},
                timeZone |-> {None, "browser", "unknown"} \cup Chosen,
                language |-> {None} \cup Languages]

\* What a listener of the log viewer makes of a change.
update(p) == shown' = timestampFormatFromPreference(p)

\* A preference is changed in this window; console announces it, except that it
\* does not count the language as one.
Prefer(what, value) ==
  /\ clock = None /\ value # prefs[what]
  /\ prefs' = [prefs EXCEPT ![what] = value]
  /\ IF mount = "subscribed" /\ what # "language" THEN update(prefs') ELSE UNCHANGED shown
  /\ missed' = (missed \/ mount = "rendered" \/ (mount = "subscribed" /\ what = "language"))
  /\ UNCHANGED <<cached, got, mount, due, clock>>

\* Another window changes one: the storage event follows.
PreferElsewhere(what, value) ==
  /\ clock = None /\ value # prefs[what]
  /\ prefs' = [prefs EXCEPT ![what] = value]
  /\ due' = TRUE
  /\ UNCHANGED <<cached, got, mount, shown, missed, clock>>

onStorage ==
  /\ due /\ due' = FALSE
  /\ IF mount = "subscribed" THEN update(prefs) ELSE UNCHANGED shown
  /\ missed' = (missed \/ mount = "rendered")
  /\ UNCHANGED <<prefs, cached, got, mount, clock>>

\* useTimestampFormat: the first render reads, the effect subscribes, the
\* cleanup ends it.
Render ==
  /\ mount = "off" /\ cached = None /\ clock = None
  /\ mount' = "rendered" /\ shown' = timestampFormatFromPreference(prefs) /\ missed' = FALSE
  /\ UNCHANGED <<prefs, cached, got, due, clock>>

Subscribe ==
  /\ mount = "rendered" /\ mount' = "subscribed"
  /\ UNCHANGED <<prefs, cached, got, shown, due, missed, clock>>

Unmount ==
  /\ mount # "off" /\ mount' = "off" /\ shown' = None /\ missed' = FALSE
  /\ UNCHANGED <<prefs, cached, got, due, clock>>

\* A date is formatted.
Format(options) ==
  /\ mount = "off" /\ ~due /\ clock = None
  /\ cached' = get(options)
  /\ got' = [formatter |-> cached'.formatter, wanted |-> Built(prefs, options)]
  /\ UNCHANGED <<prefs, mount, shown, due, missed, clock>>

\* A date and time is entered.
EnterTime(zone, fields) ==
  /\ cached = None /\ mount = "off" /\ ~due
  /\ prefs = [locale |-> None, hourCycle |-> None, timeZone |-> None, language |-> None]
  /\ clock' = [zone |-> zone, fields |-> fields]
  /\ UNCHANGED <<prefs, cached, got, mount, shown, due, missed>>

DateNext ==
  \/ \E what \in DOMAIN prefs : \E value \in Preferences[what] :
       Prefer(what, value) \/ PreferElsewhere(what, value)
  \/ onStorage
  \/ Render
  \/ Subscribe
  \/ Unmount
  \/ \E hour \in BOOLEAN, zone \in {None} \cup Chosen : Format([hour |-> hour, timeZone |-> zone])
  \/ \E zone \in ZoneNames, month \in 1..MaxMonth, day \in 1..(MonthDays + 1), hour \in 0..(DayHours - 1) :
       EnterTime(zone, Fields(month, day, hour))

-----------------------------------------------------------------------------
(* Properties.                                                              *)

\* A formatter got is the one of the preferences as they are now, whatever was
\* cached under earlier ones (date-time-preferences.ts:101-105); and once every
\* announced change has been handled, the time column shows what the present
\* preferences say: a chosen zone always, a format only when one was chosen
\* (time-format.ts:80-88).
PreferencesApplied ==
  /\ got # None => got.formatter = got.wanted
  /\ mount # "off" /\ ~due /\ ~missed =>
       /\ shown = timestampFormatFromPreference(prefs)
       /\ IF shown = None THEN getTimeZone(prefs) = None ELSE shown.timeZone = getTimeZone(prefs)
       /\ prefs.locale \in {None, "language"} /\ getHourCycle(prefs) = None =>
            shown = None \/ shown.locale = "compact"

\* What an entered wall clock means is an instant that shows it, and it means
\* nothing only if no instant does: a day the month does not have, or an hour
\* skipped by a change of the clocks (date-time-preferences.ts:187-191,
\* 208-209).
WallClockMeant ==
  clock # None =>
    LET near == (AsUTC(clock.fields) - 2 * DayHours)..(AsUTC(clock.fields) + 2 * DayHours)
        shows == {t \in near : toWallClock(t, clock.zone) = clock.fields}
        time == fromWallClock(clock.fields, clock.zone)
    IN  IF time = None THEN shows = {} ELSE time \in shows

\* Times are shown as preferred, entered ones mean what they say, and the clocks
\* of terminals agree.
DatesMeant == PreferencesApplied /\ WallClockMeant /\ ClockOfConsole
=============================================================================
