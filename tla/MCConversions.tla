------------------------------ MODULE MCConversions ------------------------------
(***************************************************************************)
(* The cases of Conversions for TLC.                                        *)
(***************************************************************************)
EXTENDS Conversions

TheToken == <<1, 2>>

-----------------------------------------------------------------------------
Characters == {Quote, Apostrophe, Backslash, Newline, Control, Hash, Ampersand, Space, Letter, "/"}

TextCases == {[kind |-> "text", text |-> t] : t \in BoundedSeq(Characters, 4)}

-----------------------------------------------------------------------------
Build(status, tokens, error) ==
  [f \in Fields |->
     CASE f \in TextFields -> f
       [] f = "status" -> status
       [] f = "created_at" -> Time(19000, 5)
       [] f = "updated_at" -> Time(19001, 5)
       [] f = "expires_at" -> Time(19002, 6)
       [] f = "toolchain" -> [t \in ToolFields |-> t]
       [] f = "download_tokens" -> tokens
       [] f = "error" -> error]

Token(n) == [hash |-> n, expires_at |-> Time(19000 + n, 0)]

Builds ==
  {Build(status, tokens, error) :
     status \in Statuses, tokens \in {<<>>, <<Token(1)>>, <<Token(1), Token(3)>>},
     error \in {<<>>, <<[code |-> "c", message |-> "m"]>>}}

NoDate == FormatRfc3339(Time(0, 0))

Without(text, slices) == [f \in DOMAIN text \ slices |-> text[f]]

\* Numbers at both sides of what a slice may hold, other layouts, slices that
\* are no numbers, and slices with half a character, behind numbers or not.
OddTimes ==
  {[NoDate EXCEPT !.month = 13], [NoDate EXCEPT !.hour = 7], [NoDate EXCEPT !.hour = 24],
   [NoDate EXCEPT !.minute = 60], [NoDate EXCEPT !.second = 60], [NoDate EXCEPT !.second = 61],
   [NoDate EXCEPT !.month = 2, !.day = 28], [NoDate EXCEPT !.month = 2, !.day = 29],
   [NoDate EXCEPT !.year = 2000, !.month = 2, !.day = 29], [NoDate EXCEPT !.month = 2, !.day = 31],
   [NoDate EXCEPT !.month = 12, !.day = 31], [NoDate EXCEPT !.month = 11, !.day = 31],
   [NoDate EXCEPT !.day = 32], [NoDate EXCEPT !.year = -999], [NoDate EXCEPT !.year = 0],
   [NoDate EXCEPT !.year = 9999, !.month = 12, !.day = 31],
   FormatRfc3339(Time(DaysFromCivil(10000, 1, 1), 0))}
  \union {[NoDate EXCEPT !.layout = layout, !.hour = hour] :
            layout \in {"signs", "separators"}, hour \in {-9, 0, 9}}
  \union {[Without(NoDate, cut \union {slice}) EXCEPT !.cut = cut, !.layout = layout] :
            slice \in ToSet(Slices), cut \in {{}, {"year"}, {"day"}, {"second"}},
            layout \in {"rfc3339", "separators", "length"}}

Damages(field) ==
  {[type |-> "missing"], Null, [type |-> "number"]} \union
  CASE field = "status" -> {Str("building"), Str("failed")}
    [] field \in TextFields -> {Str("other")}
    [] field \in TimeFields -> {Str(text) : text \in OddTimes}
    [] field = "toolchain" -> {Json("object", [t \in ToolFields \ {"cherri"} |-> Str(t)])}
    [] field = "error" -> {Json("object", [code |-> Str("c")]), [type |-> "array"]}
    [] field = "download_tokens" ->
         {Json("array", <<Json("object", [hash |-> Str(1)])>>),
          Json("array", <<Null>>)}
         \union {Json("array", <<Json("object", [hash |-> Str(1), expires_at |-> Str(a)]),
                                 Json("object", [hash |-> Str(2), expires_at |-> Str(b)])>>) :
                   a, b \in {NoDate, [NoDate EXCEPT !.day = 32], [NoDate EXCEPT !.second = 60],
                             [Without(NoDate, {"day"}) EXCEPT !.cut = {"day"}]}}

MetadataCases ==
  UNION {{[kind |-> "metadata", md |-> md, field |-> field, value |-> value] :
            md \in Builds, value \in Damages(field)} : field \in Fields}

-----------------------------------------------------------------------------
Hosts == {<<<<"mini.local">>, "mini.local">>, <<<<"[", "::1", "]">>, "::1">>}

UrlCases ==
  {[kind |-> "url", port |-> port, explicit |-> explicit # <<>>, host |-> <<host[2]>>,
    url |-> scheme \o host[1] \o explicit \o slashes] :
     scheme \in {<<>>, <<"http://">>, <<"https://">>}, host \in Hosts,
     explicit \in {<<>>, <<":", "9000">>}, slashes \in {<<>>, <<"/">>, <<"/", "/">>},
     port \in {80, 443, 8787}}

-----------------------------------------------------------------------------
\* At 24 bits of a u64, half of them are 97 days and all of them 194.
AgeCases ==
  [kind : {"age"}, now : {0, 2000000}, unit : {"d"}, amount : {0, 1, 30, 97, 98, 194, 195, 300}]
  \union [kind : {"age"}, now : {0, 2000000}, unit : {"h", "m"}, amount : {0, 1, 2330, 2331, 7000}]
  \union [kind : {"age"}, now : {0, 2000000}, unit : {"s"},
          amount : {0, 59, 8388607, 8388608, 16777214, 16777215}]

-----------------------------------------------------------------------------
Header(text, bearer, token) == <<[text |-> text, bearer |-> bearer, token |-> token]>>

Headers ==
  {<<>>} \union {Header(TRUE, bearer, token) : bearer \in BOOLEAN, token \in BoundedSeq(0..2, 3)}
         \union {Header(FALSE, TRUE, TheToken)}

Body ==
  [json |-> "object", size |-> 5, extra |-> FALSE, name |-> <<3>>, source_format |-> <<"cherri">>,
   source |-> <<2>>, sign_mode |-> <<>>, ttl_seconds |-> <<>>]

Bodies ==
  [json : {"bad", "list", "object"}, size : {5, 20, 21}, extra : BOOLEAN,
   name : {<<>>, <<0>>, <<80>>, <<81>>}, source_format : {<<>>, <<"cherri">>, <<"plist">>},
   source : {<<>>, <<0>>, <<4>>, <<5>>}, sign_mode : {<<>>, <<"anyone">>, <<"contacts">>},
   ttl_seconds : {<<>>, <<-1>>, <<59>>, <<60>>, <<2592000>>, <<2592001>>}]

Names == [kind : {"id", "token", "other"}, length : {24, 25, 32, 33}]

Request(route, header, body, name) ==
  [kind |-> "request", route |-> route, header |-> header, body |-> body, name |-> name]

RequestCases ==
  {Request(route, header, [Body EXCEPT !.size = size], [kind |-> "id", length |-> 32]) :
     route \in {"health", "builds", "metadata"}, header \in Headers, size \in {5, 21}}
  \union {Request("builds", Header(TRUE, TRUE, TheToken), body, [kind |-> "id", length |-> 32]) :
            body \in Bodies}
  \union {Request(route, header, Body, name) :
            route \in {"metadata", "download"}, header \in {<<>>, Header(TRUE, TRUE, TheToken)},
            name \in Names}

-----------------------------------------------------------------------------
AllCases ==
  TextCases \union MetadataCases \union UrlCases \union AgeCases \union RequestCases
=============================================================================
