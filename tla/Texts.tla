---------------------------------- MODULE Texts ----------------------------------
(***************************************************************************)
(* How a text is put into JSON, into a line of the configuration, into the   *)
(* property list of launchd and into a header.  A text is a sequence of       *)
(* characters; those that no code tells apart are one character.             *)
(***************************************************************************)
EXTENDS Integers, Sequences, SequencesExt

Quote == "\""
Apostrophe == "'"
Backslash == "\\"
Newline == "newline"
Control == "control"
Hash == "#"
Ampersand == "&"
Less == "<"
Space == " "
Letter == "n"

\* str::replace: each occurrence of a character becomes a text.
Replaced(text, ch, by) == FlattenSeq([i \in DOMAIN text |-> IF text[i] = ch THEN by ELSE <<text[i]>>])

-----------------------------------------------------------------------------
(* json_escape, and what a JSON parser makes of it.                          *)

JsonEscape(text) ==
  FlattenSeq([i \in DOMAIN text |->
    CASE text[i] \in {Quote, Backslash} -> <<Backslash, text[i]>>
      [] text[i] = Newline -> <<Backslash, "n">>
      [] text[i] = Control -> <<Backslash, "u001b">>
      [] OTHER -> <<text[i]>>])

(* Reading a text in quotes, in JSON or in TOML: what is read, whether the     *)
(* last character was a backslash, and whether the closing quote has come or  *)
(* something that may not be there.                                          *)
Reading == [out |-> <<>>, escaped |-> FALSE, at |-> "inside"]

Unescaped(ch) ==
  CASE ch \in {Quote, Backslash} -> <<ch>>
    [] ch = "n" -> <<Newline>>
    [] ch = "u001b" -> <<Control>>
    [] OTHER -> <<>>

ReadOn(r, ch) ==
  CASE r.at # "inside" -> [r EXCEPT !.at = "bad"]
    [] r.at = "inside" /\ r.escaped ->
         IF Unescaped(ch) = <<>> THEN [r EXCEPT !.at = "bad"]
         ELSE [r EXCEPT !.out = @ \o Unescaped(ch), !.escaped = FALSE]
    [] r.at = "inside" /\ ~r.escaped /\ ch = Quote -> [r EXCEPT !.at = "end"]
    [] r.at = "inside" /\ ~r.escaped /\ ch = Backslash -> [r EXCEPT !.escaped = TRUE]
    [] r.at = "inside" /\ ~r.escaped /\ ch \in {Newline, Control} -> [r EXCEPT !.at = "bad"]
    [] OTHER -> [r EXCEPT !.out = Append(@, ch)]

(* A text in quotes is read as this text, and nothing is left over.          *)
ReadsAs(quoted, text) ==
  /\ quoted # <<>> /\ Head(quoted) = Quote
  /\ FoldLeft(ReadOn, Reading, Tail(quoted)) = [out |-> text, escaped |-> FALSE, at |-> "end"]

(* Some text is read.                                                        *)
IsRead(quoted) ==
  /\ quoted # <<>> /\ Head(quoted) = Quote
  /\ FoldLeft(ReadOn, Reading, Tail(quoted)).at = "end"

InQuotes(text) == <<Quote>> \o text \o <<Quote>>

-----------------------------------------------------------------------------
(* Values in the configuration.                                             *)

\* Fault: the backslashes that escape the quotes are escaped in turn.
FormatConfigValueQuotesFirst(text) ==
  InQuotes(Replaced(Replaced(text, Quote, <<Backslash, Quote>>), Backslash, <<Backslash, Backslash>>))

(* format_config_value_for_key, for a key with a text.                       *)
FormatConfigValue(text) ==
  InQuotes(Replaced(Replaced(text, Backslash, <<Backslash, Backslash>>), Quote, <<Backslash, Quote>>))

Scan == [quote |-> "none", escaped |-> FALSE, cut |-> 0, seen |-> 0]

ScanOn(s, ch, quotes) ==
  LET next == [s EXCEPT !.seen = @ + 1] IN
  CASE s.cut > 0 -> next
    [] s.cut = 0 /\ s.escaped -> [next EXCEPT !.escaped = FALSE]
    [] s.cut = 0 /\ ~s.escaped /\ s.quote = Quote /\ ch = Backslash -> [next EXCEPT !.escaped = TRUE]
    [] s.cut = 0 /\ ~s.escaped /\ s.quote = ch -> [next EXCEPT !.quote = "none"]
    [] s.cut = 0 /\ ~s.escaped /\ s.quote = "none" /\ ch \in quotes -> [next EXCEPT !.quote = ch]
    [] s.cut = 0 /\ ~s.escaped /\ s.quote = "none" /\ ch = Hash -> [next EXCEPT !.cut = next.seen]
    [] OTHER -> next

StripComment(line, quotes) ==
  LET end == FoldLeft(LAMBDA s, ch : ScanOn(s, ch, quotes), Scan, line) IN
  IF end.cut = 0 THEN line ELSE SubSeq(line, 1, end.cut - 1)

(* strip_config_comment, and strip_line_comment of the migration, which does  *)
(* not know apostrophes.                                                     *)
StripConfigComment(line) == StripComment(line, {Quote, Apostrophe})

StripLineComment(line) == StripComment(line, {Quote})

HasQuotes(value) == value # <<>> /\ value[1] = Quote /\ Last(value) = Quote

(* The value of a line of the legacy file: one in quotes stays as it is.      *)
MigratedValue(value) ==
  IF HasQuotes(value) THEN value
  ELSE InQuotes(Replaced(value, Quote, <<Backslash, Quote>>))

-----------------------------------------------------------------------------
(* The property list of the job.                                            *)

Entities == <<<<Ampersand, "amp;">>, <<Less, "lt;">>, <<Quote, "quot;">>, <<Apostrophe, "apos;">>>>

XmlEscape(text) ==
  FoldLeft(LAMBDA t, entity : Replaced(t, entity[1], <<Ampersand, entity[2]>>), text, Entities)

XmlReadOn(r, ch) ==
  LET known == {i \in DOMAIN Entities : Entities[i][2] = ch} IN
  CASE r.escaped -> [r EXCEPT !.escaped = FALSE,
                              !.out = @ \o (IF known = {} THEN <<"?">>
                                            ELSE <<Entities[CHOOSE i \in known : TRUE][1]>>)]
    [] ~r.escaped /\ ch = Ampersand -> [r EXCEPT !.escaped = TRUE]
    [] OTHER -> [r EXCEPT !.out = Append(@, ch)]

XmlRead(text) == FoldLeft(XmlReadOn, Reading, text).out

-----------------------------------------------------------------------------
(* safe_filename, for the header of a download.                              *)

Spoils == {Newline, Control, Quote, Backslash, "/", ":", ";"}

Trimmed(text, chars) ==
  LET kept == {i \in DOMAIN text : text[i] \notin chars} IN
  IF kept = {} THEN <<>>
  ELSE SubSeq(text, CHOOSE i \in kept : \A j \in kept : i <= j,
                    CHOOSE i \in kept : \A j \in kept : i >= j)

SafeFilename(text, longest) ==
  LET trimmed == Trimmed(text, {Space, Newline})
      replaced == [i \in DOMAIN trimmed |-> IF trimmed[i] \in Spoils THEN "_" ELSE trimmed[i]]
      bare == Trimmed(replaced, {".", Space, "_"})
  IN IF bare = <<>> THEN <<"shortcut">> ELSE SubSeq(bare, 1, IF Len(bare) < longest THEN Len(bare) ELSE longest)
=============================================================================
