------------------------------ MODULE LogParse ------------------------------
(* parse.ts and the row of LogViewer.tsx: one line of a log turned into the    *)
(* cells of a row, for each format and each list of annotated columns.         *)
(*                                                                             *)
(* A line is [text, record]: its text, and the object JSON.parse makes of it   *)
(* or None. A value of a record is tagged with its type; a key is the tuple of *)
(* its dotted segments, so <<"log", "level">> is the flat key log.level and    *)
(* <<"log">> the key of a nested object.                                       *)
EXTENDS Ansi, ParseCache

CONSTANTS Lines,        \* the lines to read
          ColumnLists,  \* the columns an annotation may ask for, [key, type]
          MaxDate       \* the last millisecond a Date can hold

VARIABLE reading        \* the row last read, or None

Formats == {"plain", "json", "ecs", "journald"}

Str(text) == [t |-> "string", s |-> text]
Num(n) == [t |-> "number", n |-> n]
Arr(items) == [t |-> "array", items |-> items]
Obj(fields) == [t |-> "object", fields |-> fields]
Null == [t |-> "null"]

Typed(value, t) == value # None /\ value.t = t

------------------------------------------------------------------------------
(* Reading fields *)

\* The flat key first, then the walk through nested objects.
pick(record, path) ==
  IF path \in DOMAIN record THEN record[path]
  ELSE FoldLeft(LAMBDA cursor, segment :
                  IF Typed(cursor, "object") /\ <<segment>> \in DOMAIN cursor.fields
                    THEN cursor.fields[<<segment>>] ELSE None,
                Obj(record), path)

\* A value as the text of a column, None if it is no text.
StringOf(value) ==
  CASE Typed(value, "string") /\ value.s # <<>> -> value.s
    [] Typed(value, "number") -> <<ToString(value.n)>>
    [] OTHER -> None

FirstIn(values, some) == IF some = {} THEN None ELSE values[Min(some)]
First(values) == FirstIn(values, {i \in DOMAIN values : values[i] # None})

firstString(record, paths) ==
  First([i \in DOMAIN paths |-> StringOf(pick(record, paths[i]))])

Join(texts, separator) ==
  IF texts = <<>> THEN <<>>
  ELSE FoldLeft(LAMBDA acc, text : acc \o separator \o text, Head(texts), Tail(texts))

asStackTrace(value) ==
  CASE Typed(value, "string") -> StringOf(value)
    [] Typed(value, "array") ->
         LET lines == SelectSeq(value.items, LAMBDA v : v.t = "string")
         IN IF lines = <<>> THEN None ELSE Join([i \in DOMAIN lines |-> lines[i].s], <<"NL">>)
    [] OTHER -> None

JsonTimeKeys == <<<<"@timestamp">>, <<"timestamp">>, <<"time">>, <<"ts">>, <<"Time">>,
                  <<"datetime">>, <<"date">>, <<"eventTime">>>>
JsonLevelKeys == <<<<"log", "level">>, <<"level">>, <<"levelname">>, <<"severity">>,
                   <<"SeverityText">>, <<"loglevel">>, <<"lvl">>, <<"levelName">>>>
JsonLoggerKeys == <<<<"log", "logger">>, <<"logger">>, <<"logger_name">>, <<"loggerName">>,
                    <<"channel">>, <<"category">>, <<"module">>, <<"component">>, <<"name">>>>
JsonMessageKeys == <<<<"message">>, <<"msg">>, <<"Message">>, <<"log">>, <<"text">>, <<"body">>,
                     <<"short_message">>>>
JsonStackKeys == <<<<"error", "stack_trace">>, <<"stack_trace">>, <<"stacktrace">>,
                   <<"stackTrace">>, <<"exception">>, <<"error", "stack">>, <<"stack">>>>

------------------------------------------------------------------------------
(* Levels, numbers and instants *)

LevelWords ==
  [trace |-> {"TRACE", "FINEST", "FINER", "VERBOSE"},
   debug |-> {"DEBUG", "FINE", "DBG"},
   info  |-> {"INFO", "INFORMATION", "NOTICE", "CONFIG"},
   warn  |-> {"WARN", "WARNING"},
   error |-> {"ERROR", "ERR", "SEVERE"},
   fatal |-> {"CRIT", "CRITICAL", "FATAL", "ALERT", "EMERG", "PANIC", "DPANIC"}]

\* Number(): blank text is zero.
NumberOf(text) ==
  LET trimmed == SelectSeq(text, LAMBDA s : s # " ")
  IN CASE trimmed = <<>> -> 0
       [] Len(trimmed) = 1 /\ trimmed[1] \in DOMAIN Numeral -> Numeral[trimmed[1]]
       [] OTHER -> None

\* The magnitude tells syslog's 0-7 from the 10-60 of pino and bunyan.
LevelNumber(n) ==
  CASE n = 3 \/ n \in 41..50 -> "error"
    [] n = 4 \/ n \in 31..40 -> "warn"
    [] n \in {5, 6} \/ n \in 21..30 -> "info"
    [] n = 7 \/ n \in 11..20 -> "debug"
    [] n \in 8..10 -> "trace"
    [] OTHER -> "fatal"

normalizeLevel(text) ==
  LET word == IF text = None THEN {}
              ELSE {l \in DOMAIN LevelWords :
                      \E w \in LevelWords[l] : SelectSeq(text, LAMBDA s : s # " ") = <<w>>}
  IN CASE text = None -> None
       [] text # None /\ word # {} -> CHOOSE l \in word : TRUE
       [] text # None /\ word = {} /\ NumberOf(text) = None -> None
       [] OTHER -> LevelNumber(NumberOf(text))

SyslogNames == <<"EMERG", "ALERT", "CRIT", "ERR", "WARNING", "NOTICE", "INFO", "DEBUG">>

syslogLevelName(priority) ==
  CASE priority = None -> None
    [] priority # None /\ NumberOf(priority) \in 0..7 -> <<SyslogNames[NumberOf(priority) + 1]>>
    [] OTHER -> priority

asNumber(value) ==
  CASE Typed(value, "number") -> value.n
    [] Typed(value, "string") /\ \E i \in DOMAIN value.s : value.s[i] # " " -> NumberOf(value.s)
    [] OTHER -> None

Instant(ms) == IF ms = None \/ ms > MaxDate THEN None ELSE <<"ISO", ToString(ms)>>

\* Texts the RFC3339 pattern takes, and those of them that are dates.
Rfc3339 == {<<"2026-02-01T10:00:00Z">>, <<"2026-13-01T10:00:00Z">>}
Dates == {<<"2026-02-01T10:00:00Z">>}

asTimestamp(value, type) ==
  CASE type \in {"epoch", "date/epoch-ms"} ->
         IF asNumber(value) = None THEN None
         ELSE Instant(IF type = "epoch" THEN asNumber(value) * 1000 ELSE asNumber(value))
    [] Typed(value, "string") /\ value.s \in Rfc3339 \cap Dates -> value.s
    [] OTHER -> None

\* Microseconds in a string.
journaldTimestamp(value) ==
  IF Typed(value, "string") /\ Len(value.s) = 1 /\ value.s[1] \in DOMAIN Numeral
    THEN Instant(Numeral[value.s[1]] \div 1000) ELSE None

\* A message that is no UTF-8 comes as an array of bytes.
journaldMessage(value) ==
  CASE Typed(value, "string") -> value.s
    [] Typed(value, "array") /\ \A i \in DOMAIN value.items :
                                  value.items[i].t = "number" /\ value.items[i].n \in 0..255 ->
         [i \in DOMAIN value.items |-> "byte"]
    [] OTHER -> None

abbreviateLogger(name) ==
  LET segments == Split(name, ".")
  IN Join([i \in DOMAIN segments |->
             IF i = Len(segments) \/ segments[i] = <<>> THEN segments[i] ELSE <<Head(segments[i])>>],
          <<".">>)

asText(value) ==
  CASE Typed(value, "string") -> value.s
    [] Typed(value, "number") -> <<ToString(value.n)>>
    [] value = None \/ value = Null -> <<>>
    [] OTHER -> <<"json">>

------------------------------------------------------------------------------
(* Entries *)

plainEntry(line) ==
  [raw |-> line.text, timestamp |-> None, level |-> None, levelClass |-> None, logger |-> None,
   loggerShort |-> None, priority |-> None, unit |-> None, message |-> line.text,
   messageSpans |-> None, stackTrace |-> None, record |-> None, extras |-> <<>>]

OrElse(x, y) == IF x = None THEN y ELSE x

journaldEntry(line) ==
  LET r == line.record
      priority == firstString(r, <<<<"PRIORITY">>>>)
  IN [plainEntry(line) EXCEPT
        !.timestamp = journaldTimestamp(pick(r, <<"__REALTIME_TIMESTAMP">>)),
        !.level = syslogLevelName(priority),
        !.levelClass = normalizeLevel(priority),
        !.priority = priority,
        !.unit = OrElse(firstString(r, <<<<"_SYSTEMD_UNIT">>>>),
                        firstString(r, <<<<"SYSLOG_IDENTIFIER">>, <<"_COMM">>>>)),
        !.message = OrElse(journaldMessage(pick(r, <<"MESSAGE">>)), line.text),
        !.record = r]

\* ECS reads its own keys and no aliases.
parseDefault(line, format) ==
  LET r == line.record
      ecs == format = "ecs"
      Field(own, aliases) == firstString(r, IF ecs THEN <<own>> ELSE aliases)
      level == Field(<<"log", "level">>, JsonLevelKeys)
      stacks == IF ecs THEN <<<<"error", "stack_trace">>>> ELSE JsonStackKeys
  IN CASE format = "plain" \/ r = None -> plainEntry(line)
       [] format = "journald" /\ r # None -> journaldEntry(line)
       [] OTHER ->
            [plainEntry(line) EXCEPT
               !.timestamp = Field(<<"@timestamp">>, JsonTimeKeys),
               !.level = level,
               !.levelClass = normalizeLevel(level),
               !.logger = Field(<<"log", "logger">>, JsonLoggerKeys),
               !.message = OrElse(Field(<<"message">>, JsonMessageKeys), line.text),
               !.stackTrace = First([i \in DOMAIN stacks |-> asStackTrace(pick(r, stacks[i]))]),
               !.record = r]

TimeTypes == {"date/rfc3339", "date/rfc3339nano", "date/epoch-ms", "epoch"}

extraColumns(columns) == SelectSeq(columns, LAMBDA c : c.type \in {"string", "number"})

\* Mutant of applyColumns: the last column that reads wins.
applyColumnsLast(entry, columns) ==
  LET Apply(e, c) ==
        LET value == pick(entry.record, c.key)
        IN CASE c.type \in TimeTypes /\ asTimestamp(value, c.type) # None ->
                  [e EXCEPT !.timestamp = asTimestamp(value, c.type)]
             [] c.type = "string" -> [e EXCEPT !.extras = Append(@, asText(value))]
             [] OTHER -> e
  IN FoldLeft(Apply, entry, columns)

\* Each column overrides its slot where it reads; the first that does wins.
applyColumns(entry, columns) ==
  LET Apply(acc, c) ==
        LET value == pick(entry.record, c.key)
            time == IF "time" \in acc.set THEN None ELSE asTimestamp(value, c.type)
            level == IF "level" \in acc.set THEN None ELSE StringOf(value)
            logger == IF "logger" \in acc.set THEN None ELSE StringOf(value)
            number == asNumber(value)
        IN CASE c.type \in TimeTypes /\ time # None ->
                  [acc EXCEPT !.e.timestamp = time, !.set = @ \cup {"time"}]
             [] c.type = "log-level" /\ level # None ->
                  [acc EXCEPT !.e.level = level, !.e.levelClass = normalizeLevel(level),
                              !.set = @ \cup {"level"}]
             [] c.type = "abbreviate" /\ logger # None ->
                  [acc EXCEPT !.e.loggerShort = abbreviateLogger(logger), !.set = @ \cup {"logger"}]
             [] c.type = "number" ->
                  [acc EXCEPT !.e.extras = Append(@, IF number = None THEN <<>> ELSE <<ToString(number)>>)]
             [] c.type = "string" -> [acc EXCEPT !.e.extras = Append(@, asText(value))]
             [] OTHER -> acc
  IN FoldLeft(Apply, [e |-> entry, set |-> {}], columns).e

firstLine(text) ==
  LET cut == FirstFrom(text, 1, LAMBDA i : text[i] = "NL")
  IN IF cut = None THEN text ELSE Append(SubSeq(text, 1, cut - 1), "...")

firstLineSpans(text) ==
  LET cut == FirstFrom(text, 1, LAMBDA i : text[i] = "NL")
  IN IF cut = None THEN parseAnsi(text)
     ELSE Append(parseAnsi(SubSeq(text, 1, cut - 1)), [text |-> <<"...">>, style |-> None])

stripped(text) == IF text = None THEN None ELSE stripAnsi(text)

\* Mutant of withoutAnsi: the level is classed before its colour is gone.
withoutAnsiLate(e) ==
  [e EXCEPT !.message = stripAnsi(@),
            !.messageSpans = IF hasAnsi(e.message) THEN firstLineSpans(e.message) ELSE None,
            !.level = stripped(@), !.logger = stripped(@), !.loggerShort = stripped(@),
            !.unit = stripped(@), !.extras = [i \in DOMAIN @ |-> stripAnsi(@[i])]]

\* Taken out of every column but the time, and drawn in the message; the level
\* is classed again, unless it is journald's.
withoutAnsi(e) ==
  LET fields == {e.message, e.level, e.logger, e.loggerShort, e.unit} \cup Range(e.extras)
  IN IF \A f \in fields : f = None \/ ~hasAnsi(f) THEN e
     ELSE [e EXCEPT !.message = stripAnsi(@),
                    !.messageSpans = IF hasAnsi(e.message) THEN firstLineSpans(e.message) ELSE None,
                    !.level = stripped(@),
                    !.levelClass = IF e.priority = None THEN normalizeLevel(stripped(e.level)) ELSE @,
                    !.logger = stripped(@), !.loggerShort = stripped(@), !.unit = stripped(@),
                    !.extras = [i \in DOMAIN @ |-> stripAnsi(@[i])]]

Overridden(entry, columns) ==
  IF entry.record = None \/ columns = <<>> THEN entry ELSE applyColumns(entry, columns)

parseLine(line, format, columns) == withoutAnsi(Overridden(parseDefault(line, format), columns))

------------------------------------------------------------------------------
(* The row *)

\* new Date(value); a text of digits is a number of milliseconds.
DateOf(value) ==
  CASE value \in Dates -> value[1]
    [] value \notin Dates /\ Len(value) = 2 /\ value[1] = "ISO" -> value[2]
    [] value \notin Dates /\ Len(value) = 1 /\ value[1] \in DOMAIN Numeral -> value[1]
    [] OTHER -> None

\* format is None for the compact default, or how the reader wants it.
formatTimestamp(value, format) ==
  CASE value = None -> <<>>
    [] value # None /\ DateOf(value) # None -> <<OrElse(format, "compact"), DateOf(value)>>
    [] value # None /\ DateOf(value) = None /\ Len(value) > 12 -> Append(SubSeq(value, 1, 12), "...")
    [] OTHER -> value

formatTimestampWithDate(value, format) ==
  IF value # None /\ DateOf(value) # None
    THEN <<"day">> \o formatTimestamp(value, format) ELSE formatTimestamp(value, format)

Or(text) == OrElse(text, <<>>)

Row(e, format, columns) ==
  LET plain == format = "plain"
      extras == extraColumns(IF plain THEN <<>> ELSE columns)
  IN [time |-> CASE plain -> <<>>
                 [] format = "journald" -> formatTimestampWithDate(e.timestamp, None)
                 [] OTHER -> formatTimestamp(e.timestamp, None),
      level |-> IF plain THEN <<>> ELSE firstLine(Or(e.level)),
      levelClass |-> IF plain THEN None ELSE e.levelClass,
      source |-> CASE plain -> <<>>
                   [] format = "journald" -> firstLine(Or(e.unit))
                   [] OTHER -> firstLine(Or(OrElse(e.loggerShort, e.logger))),
      extras |-> [i \in DOMAIN extras |-> IF i \in DOMAIN e.extras THEN firstLine(e.extras[i]) ELSE <<>>],
      message |-> IF e.messageSpans = None THEN firstLine(e.message)
                  ELSE FoldLeft(LAMBDA acc, span : acc \o span.text, <<>>, e.messageSpans)]

------------------------------------------------------------------------------
(* Sniffing *)

isEcs(record) ==
  /\ pick(record, <<"@timestamp">>) # None
  /\ \E path \in {<<"log", "level">>, <<"log", "logger">>, <<"ecs", "version">>} :
       pick(record, path) # None

sniffFormat(lines) ==
  LET records == {l.record : l \in Range(lines)} \ {None}
  IN CASE \E r \in records : isEcs(r) -> "ecs"
       [] records # {} /\ ~\E r \in records : isEcs(r) -> "json"
       [] OTHER -> "plain"

------------------------------------------------------------------------------
ParseInit == reading = None

\* The viewer asks for no columns in the plain format.
Parsed(line, format, columns, entry) ==
  [line |-> line, format |-> format, columns |-> columns, entry |-> entry,
   row |-> Row(entry, format, columns)]

ReadLine(line, format, columns) ==
  LET used == IF format = "plain" THEN <<>> ELSE columns
  IN reading' = Parsed(line, format, used, parseLine(line, format, used))

ParseNext ==
  /\ reading = None
  /\ \E line \in Lines, format \in Formats, columns \in ColumnLists : ReadLine(line, format, columns)

------------------------------------------------------------------------------
(* Properties *)

ColumnOf(types, Read(_, _)) ==
  First([i \in DOMAIN reading.columns |->
           IF reading.columns[i].type \in types
             THEN Read(pick(reading.line.record, reading.columns[i].key), reading.columns[i].type)
             ELSE None])

\* The entry and the row against what the format alone makes of the line.
ReadAgainst(e, row, default) ==
  LET Text(value, type) == StringOf(value)
      cells == {row.level, row.source, row.message} \cup Range(row.extras)
  IN /\ row.message = <<>> => (stripAnsi(default.message) = <<>>)
     /\ default.record = None => row.message = firstLine(stripAnsi(reading.line.text))
     /\ default.record # None =>
          /\ e.timestamp = OrElse(ColumnOf(TimeTypes, asTimestamp), default.timestamp)
          /\ e.level = stripped(OrElse(ColumnOf({"log-level"}, Text), default.level))
          /\ (e.loggerShort = None) <=> (ColumnOf({"abbreviate"}, Text) = None)
          /\ Len(e.extras) = Len(extraColumns(reading.columns))
     /\ \A cell \in cells : Range(cell) \cap {"NL", "ESC", "CSI"} = {}

\* Every line stays legible: one that does not decode is shown as it is, one
\* that does shows a message of its own or itself. A column that reads takes its
\* slot, the first of several, and one that does not leaves what the format
\* finds; the extra columns stay in step with the row; and no cell but the time
\* carries a line break or an escape into a row of fixed height.
EntryRead ==
  reading # None => ReadAgainst(reading.entry, reading.row, parseDefault(reading.line, reading.format))

\* The same line as written by a process that does not colour its output.
Uncoloured(line) ==
  LET Plain(v) == IF v.t = "string" THEN Str(stripAnsi(v.s)) ELSE v
  IN [text |-> stripAnsi(line.text),
      record |-> IF line.record = None THEN None
                 ELSE [k \in DOMAIN line.record |->
                         IF line.record[k].t = "object"
                           THEN Obj([j \in DOMAIN line.record[k].fields |-> Plain(line.record[k].fields[j])])
                           ELSE Plain(line.record[k])]]

UncolouredRow ==
  Row(parseLine(Uncoloured(reading.line), reading.format, reading.columns), reading.format, reading.columns)

Asked(types) == \E i \in DOMAIN reading.columns : reading.columns[i].type \in types

SameCells(row, plain) ==
  /\ row.level = plain.level
  /\ row.message = plain.message
  /\ row.levelClass = plain.levelClass \/ (reading.format = "journald" /\ Asked({"log-level"}))
  /\ row.source = plain.source \/ Asked({"abbreviate"})
  /\ \A i \in DOMAIN row.extras :
       extraColumns(reading.columns)[i].type = "string" => row.extras[i] = plain.extras[i]

\* Colour changes nothing but colour: levels are recognised and cells read as
\* without it. Outside this are columns that are read before the colour is
\* dropped (an abbreviated logger, a number, an instant) and the class of a level
\* that a column takes from the text of a journald record.
ColourBlind == reading # None => SameCells(reading.row, UncolouredRow)

\* "In the level, logger and annotation columns the escapes are only removed"
\* (logging README.md:332): a logger's cell is what it would be without colour.
OnlyRemoved == reading # None => reading.row.source = UncolouredRow.source

\* Rows are read from lines as the format and the columns say, colour or not, and
\* what is kept of them is of the line and the format they are shown for.
RowsRead == EntryRead /\ ColourBlind /\ CacheHonest
=============================================================================
