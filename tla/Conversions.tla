------------------------------- MODULE Conversions -------------------------------
(***************************************************************************)
(* The pure parts of the server and the commands, each against a reference:   *)
(* one case after the other, and for the times a walk over the calendar and   *)
(* the clock.                                                               *)
(***************************************************************************)
EXTENDS StoredMetadata, Texts, Urls, Ages, ApiFront

CONSTANTS
  Cases,        \* the inputs: records with a kind
  LastYear,     \* bound of the walk over the calendar
  LongestName   \* characters of a file name

ASSUME CaseAssumption == \A case \in Cases : case.kind \notin {"date", "clock"}
ASSUME NameAssumption == LongestName \in Nat \ {0}
ASSUME CalendarAssumption == LastYear \in 1970..LargestYear

VARIABLE input

-----------------------------------------------------------------------------
(* Calendar and clock, as everybody knows them.                              *)

IsLeap(year) == year % 4 = 0 /\ (year % 100 = 0 => year % 400 = 0)

MonthDays(year, month) ==
  CASE month = 2 -> IF IsLeap(year) THEN 29 ELSE 28
    [] month \in {4, 6, 9, 11} -> 30
    [] OTHER -> 31

Tomorrow(date) ==
  IF date.day < MonthDays(date.year, date.month) THEN [date EXCEPT !.day = @ + 1]
  ELSE IF date.month < 12 THEN [date EXCEPT !.day = 1, !.month = @ + 1]
  ELSE [year |-> date.year + 1, month |-> 1, day |-> 1]

NextSecond(clock) ==
  IF clock.second < 59 THEN [clock EXCEPT !.second = @ + 1]
  ELSE IF clock.minute < 59 THEN [clock EXCEPT !.second = 0, !.minute = @ + 1]
  ELSE [second |-> 0, minute |-> 0, hour |-> clock.hour + 1]

Epoch == [kind |-> "date", day |-> 0, date |-> [year |-> 1970, month |-> 1, day |-> 1]]

Midnight == [kind |-> "clock", second |-> 0, clock |-> [hour |-> 0, minute |-> 0, second |-> 0]]

Init == input \in Cases \union {Epoch, Midnight}

NextDay ==
  /\ input.kind = "date"
  /\ Tomorrow(input.date).year <= LastYear
  /\ input' = [input EXCEPT !.day = @ + 1, !.date = Tomorrow(@)]

Tick ==
  /\ input.kind = "clock"
  /\ input.second + 1 < DaySeconds
  /\ input' = [input EXCEPT !.second = @ + 1, !.clock = NextSecond(@)]

Next == NextDay \/ Tick

Spec == Init /\ [][Next]_input

-----------------------------------------------------------------------------

(* A time in the metadata or in an answer is the date and the hour it is in   *)
(* UTC, and the text is read back as that time: leap years, ends of centuries *)
(* and of eras included.                                                     *)
CalendarIsRight ==
  /\ input.kind = "date" =>
       LET text == FormatRfc3339(Time(input.day, 0)) IN
       /\ [year |-> text.year, month |-> text.month, day |-> text.day] = input.date
       /\ ParseRfc3339(text) = [ok |-> TRUE, time |-> Time(input.day, 0)]
  /\ input.kind = "clock" =>
       LET text == FormatRfc3339(Time(0, input.second)) IN
       /\ [hour |-> text.hour, minute |-> text.minute, second |-> text.second] = input.clock
       /\ ParseRfc3339(text) = [ok |-> TRUE, time |-> Time(0, input.second)]

(* Texts of times that a server could have written, by the calendar.          *)
IsWritten(text) ==
  /\ text.layout = "rfc3339" /\ \A i \in 1..6 : Slices[i] \in DOMAIN text
  /\ text.month \in 1..12 /\ text.day \in 1..MonthDays(text.year, text.month)
  /\ text.hour \in 0..23 /\ text.minute \in 0..59 /\ text.second \in 0..59

\* A slice with half a character, behind numbers.
IsCut(text) ==
  /\ text.layout # "length"
  /\ \E i \in 1..6 : /\ Slices[i] \in text.cut \ DOMAIN text
                     /\ \A j \in 1..(i - 1) : Slices[j] \in DOMAIN text

\* The texts of times in the value of a field.
TimesIn(field, value) ==
  CASE field \in TimeFields /\ value.type = "string" -> {value.is}
    [] field = "download_tokens" /\ value.type = "array" ->
         {value.is[i].is["expires_at"].is :
            i \in {j \in DOMAIN value.is : value.is[j].type = "object"
                                             /\ IsA("string", value.is[j].is, "expires_at")}}
    [] OTHER -> {}

(* What a server saved, the next one loads.  A file that is damaged in one       *)
(* place is refused, or all the rest is read as it was saved: no link gets the  *)
(* expiry of another, no build the status of another.  What is read there is    *)
(* what stands there, but for times that the calendar or a clock does not have  *)
(* or that have signs, which are taken and would be written otherwise; and a    *)
(* time with half a character in a slice is not refused: it is a panic.        *)
MetadataSurvives ==
  input.kind = "metadata" =>
    LET doc == ToStorageJson(input.md)
        damaged == IF input.value.type = "missing"
                     THEN [f \in Fields \ {input.field} |-> doc[f]]
                     ELSE [doc EXCEPT ![input.field] = input.value]
        read == FromJson(damaged)
        times == TimesIn(input.field, input.value)
    IN /\ FromJson(doc) = [ok |-> TRUE, md |-> input.md]
       /\ read = Panic => \E text \in times : IsCut(text)
       /\ input.field \in TimeFields => \A text \in times : IsCut(text) => read = Panic
       /\ read.ok =>
            /\ \A f \in Fields \ {input.field} : read.md[f] = input.md[f]
            /\ input.field # "error" =>
                 (ToStorageJson(read.md) = damaged <=> \A text \in times : IsWritten(text))

(* A text that goes through JSON or the property list comes out as it went in;  *)
(* through the configuration, unless it has line breaks or control characters,  *)
(* which `config set` writes and the parser of TOML then refuses.  The migration *)
(* keeps a text without such characters, without backslashes and not in quotes, *)
(* and no other: backslashes become escapes there, and quotes around a text are *)
(* its delimiters; but a value that `config set` wrote it leaves alone.  A        *)
(* comment behind a value that can be read is no part of it, nor is a hash in   *)
(* the value a comment.  The name of a download never spoils its header.        *)
TextSurvives ==
  input.kind = "text" =>
    LET text == input.text
        clean == {Newline, Control} \intersect ToSet(text) = {}
        line == FormatConfigValue(text)
        comment == <<Space, Hash>> \o text
        name == SafeFilename(text, LongestName)
    IN /\ ReadsAs(InQuotes(JsonEscape(text)), text)
       /\ clean => ReadsAs(line, text)
       /\ ~clean => ~IsRead(line)
       /\ clean => StripConfigComment(line \o comment) = line \o <<Space>>
       /\ clean => StripLineComment(line \o comment) = line \o <<Space>>
       /\ ReadsAs(MigratedValue(text), text) <=>
            clean /\ Backslash \notin ToSet(text) /\ ~HasQuotes(text)
       /\ MigratedValue(line) = line
       /\ XmlRead(XmlEscape(text)) = text
       /\ name # <<>> /\ Len(name) <= LongestName /\ ToSet(name) \intersect Spoils = {}

(* A URL of a server without a path leads to the server: with its own port if  *)
(* it names one, else with the server's, however often it is normalized; and  *)
(* the link made of it can be tried on the machine itself.                   *)
LinksReachTheService ==
  input.kind = "url" /\ ValidateHttpishUrl(input.url) =>
    LET base == NormalizePublicBaseUrl(input.url, input.port)
        trimmed == WithoutLastSlashes(input.url)
        link == DownloadUrl(base, "token")
        own == <<":", ToString(input.port)>>
    IN /\ NormalizePublicBaseUrl(base, input.port) = base
       /\ ExtractUrlHost(base) = input.host
       /\ input.explicit => base = trimmed
       /\ ~input.explicit => \/ base = trimmed \o own
                             \/ base = trimmed /\ input.port = DefaultPort(base)
       /\ LocalizeServiceUrl(link, "0.0.0.0", input.port)
            = <<"http://", "127.0.0.1">> \o own \o <<"/", "s", "/", "token">>

(* What gc removes has expired before the age it is given, up to the longest    *)
(* that an i64 holds.  A longer age is taken for a negative one, and gc removes  *)
(* builds that are valid, all that expire before now + (U64 - seconds).  Where   *)
(* the product saturates this is now + 1: no valid build goes, but all that      *)
(* have expired, more than with an age of 0.                                 *)
AgeSaysWhatGoes ==
  input.kind = "age" =>
    LET seconds == input.amount * UnitSeconds[input.unit]
        ahead == IF seconds < U64 THEN U64 - seconds ELSE 1
        threshold == Threshold(input.now, input)
    IN /\ seconds < I64 => threshold = input.now - seconds
       /\ seconds >= I64 /\ input.now + ahead < I64 => threshold = input.now + ahead
       /\ seconds >= I64 /\ input.now + ahead >= I64 => threshold = I64 - 1

Minute == 60

ThirtyDays == 30 * 86400

(* Without the token of the configuration, all of it and nothing after it, a  *)
(* request under /api gets the same answer whatever it holds, and /health      *)
(* nothing of the tools; with it, a build is submitted just when the request   *)
(* keeps every limit.                                                        *)
RequestsAreJudged ==
  input.kind = "request" =>
    LET answer == Answer(input)
        authorized == input.header # <<>> /\ input.header[1] =
                        [text |-> TRUE, bearer |-> TRUE, token |-> AuthToken]
        body == input.body
    IN /\ input.route \in {"builds", "metadata"} /\ ~authorized => answer = Unauthorized
       /\ answer = Reached("tools") => authorized
       /\ input.route = "health" /\ input.header = <<>> => answer = Reached("brief")
       /\ answer = Reached("submit") <=>
            /\ input.route = "builds" /\ authorized
            /\ body.json = "object" /\ ~body.extra /\ body.size <= BodyLimit
            /\ \E n \in 1..80, s \in 1..MaxSourceBytes :
                 body.name = <<n>> /\ body.source = <<s>>
            /\ body.source_format = <<"cherri">>
            /\ body.sign_mode \in {<<>>, <<"anyone">>}
            /\ body.ttl_seconds # <<>> => body.ttl_seconds[1] \in Minute..ThirtyDays
       /\ input.route = "builds" /\ answer.code = "PAYLOAD_TOO_LARGE" =>
            body.source[1] > MaxSourceBytes
=============================================================================
