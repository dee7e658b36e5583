----------------------------- MODULE StoredMetadata -----------------------------
(***************************************************************************)
(* The metadata of a build as the JSON document in its file.  A JSON value    *)
(* has a type and, where it matters, what it is; the text of a string is      *)
(* carried as Texts shows.                                                   *)
(***************************************************************************)
EXTENDS Timestamps, Sequences, SequencesExt

Json(type, is) == [type |-> type, is |-> is]

Str(is) == Json("string", is)

Null == [type |-> "null"]

IsA(type, doc, key) == key \in DOMAIN doc /\ doc[key].type = type

-----------------------------------------------------------------------------

Statuses == {"Ready", "Failed"}

AsStr(status) == CASE status = "Ready" -> "ready" [] status = "Failed" -> "failed"

FromStr(text) == {status \in Statuses : AsStr(status) = text}

TextFields == {"id", "name", "source_format", "source_hash", "sign_mode"}

TimeFields == {"created_at", "updated_at", "expires_at"}

ToolFields == {"cherri", "shortcuts_sign", "fingerprint"}

Fields == TextFields \union TimeFields \union {"status", "download_tokens", "toolchain", "error"}

\* The error of a build is a sequence of at most one ErrorBody.
ErrorFields == {"code", "message"}

Strings(record, fields) == [f \in fields |-> Str(record[f])]

FieldJson(md, f) ==
  CASE f \in TextFields -> Str(md[f])
    [] f \in TimeFields -> Str(FormatRfc3339(md[f]))
    [] f = "status" -> Str(AsStr(md.status))
    [] f = "toolchain" -> Json("object", Strings(md.toolchain, ToolFields))
    [] f = "error" ->
         IF md.error = <<>> THEN Null ELSE Json("object", Strings(md.error[1], ErrorFields))
    [] f = "download_tokens" ->
         Json("array", [i \in DOMAIN md.download_tokens |->
           Json("object", [hash |-> Str(md.download_tokens[i].hash),
                           expires_at |-> Str(FormatRfc3339(md.download_tokens[i].expires_at))])])

ToStorageJson(md) == [f \in Fields |-> FieldJson(md, f)]

-----------------------------------------------------------------------------
(* from_json: what is missing or of another type makes the document invalid;   *)
(* a time that cannot be cut into its parts panics.                          *)

HasStrings(doc, fields) == \A f \in fields : IsA("string", doc, f)

HasTime(doc, f) == IsA("string", doc, f) /\ ParseRfc3339(doc[f].is).ok

TimeIn(doc, f) == ParseRfc3339(doc[f].is).time

HasObject(doc, f, fields) == IsA("object", doc, f) /\ HasStrings(doc[f].is, fields)

IsTokenJson(value) == value.type = "object" /\ IsA("string", value.is, "hash")
                                            /\ HasTime(value.is, "expires_at")

ErrorIsReadable(doc) ==
  \/ "error" \notin DOMAIN doc \/ doc["error"].type = "null"
  \/ HasObject(doc, "error", ErrorFields)

Invalid == [ok |-> FALSE, panics |-> FALSE]

\* Fault: a link without a readable expiry gets the one of the build.
TokenFromJsonLenient(doc, value) ==
  [hash |-> value.is["hash"].is, expires_at |-> TimeIn(doc, "expires_at")]

TokenFromJson(doc, value) ==
  [hash |-> value.is["hash"].is, expires_at |-> TimeIn(value.is, "expires_at")]

FieldFrom(doc, f) ==
  CASE f \in TextFields -> doc[f].is
    [] f \in TimeFields -> TimeIn(doc, f)
    [] f = "status" -> CHOOSE status \in FromStr(doc["status"].is) : TRUE
    [] f = "toolchain" -> [t \in ToolFields |-> doc["toolchain"].is[t].is]
    [] f = "error" ->
         IF "error" \notin DOMAIN doc \/ doc["error"].type # "object" THEN <<>>
         ELSE <<[e \in ErrorFields |-> doc["error"].is[e].is]>>
    [] f = "download_tokens" ->
         [i \in DOMAIN doc["download_tokens"].is |->
            TokenFromJson(doc, doc["download_tokens"].is[i])]

IsReadable(doc) ==
  /\ HasStrings(doc, TextFields \union {"status"})
  /\ FromStr(doc["status"].is) # {}
  /\ IsA("array", doc, "download_tokens")
  /\ \A i \in DOMAIN doc["download_tokens"].is : IsTokenJson(doc["download_tokens"].is[i])
  /\ HasObject(doc, "toolchain", ToolFields)
  /\ \A f \in TimeFields : HasTime(doc, f)
  /\ ErrorIsReadable(doc)

(* What is read before a time has to be fine for the reading to get there.     *)
TimePanics(doc, f) == IsA("string", doc, f) /\ ParseRfc3339(doc[f].is) = Panic

TokenPanics(value) ==
  value.type = "object" /\ IsA("string", value.is, "hash") /\ TimePanics(value.is, "expires_at")

TimeOrder == <<"created_at", "updated_at", "expires_at">>

ReadingPanics(doc) ==
  /\ HasStrings(doc, TextFields \union {"status"})
  /\ FromStr(doc["status"].is) # {}
  /\ IsA("array", doc, "download_tokens")
  /\ LET values == doc["download_tokens"].is IN
     \/ \E i \in DOMAIN values : /\ TokenPanics(values[i])
                                 /\ \A j \in 1..(i - 1) : IsTokenJson(values[j])
     \/ /\ \A i \in DOMAIN values : IsTokenJson(values[i])
        /\ HasObject(doc, "toolchain", ToolFields)
        /\ \E i \in 1..3 : /\ TimePanics(doc, TimeOrder[i])
                           /\ \A j \in 1..(i - 1) : HasTime(doc, TimeOrder[j])

FromJson(doc) ==
  IF ReadingPanics(doc) THEN Panic
  ELSE IF IsReadable(doc) THEN [ok |-> TRUE, md |-> [f \in Fields |-> FieldFrom(doc, f)]]
  ELSE Invalid
=============================================================================
