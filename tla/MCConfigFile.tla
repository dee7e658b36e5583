------------------------------ MODULE MCConfigFile ------------------------------
EXTENDS ConfigFile

CONSTANTS i1, i2, i3, sh1, sh2

ByInit ==
  Text(RenderOperatorConfig(InitConfig(Nothing, Nothing, Value("text", 1))))

\* Written by hand: a key with dashes, one both ways, a number in quotes, most
\* keys left out, and a token of blanks.
ByHand ==
  Text("max-build-concurrency" :> [Line("max-build-concurrency", Number(2)) EXCEPT !.spelling = "both"]
       @@ "port" :> [Line("port", Number(2)) EXCEPT !.form = "quoted", !.spelling = "dashed"]
       @@ "auth-token" :> Line("auth-token", Value("blank", 0)))

Legacy ==
  Text("expired-before" :> [Line("expired-before", Value("age", 3)) EXCEPT !.spelling = "dashed"]
       @@ "auth-token" :> [Line("auth-token", Value("text", 2)) EXCEPT !.form = "bare"])

SlashedLegacy ==
  Text("storage" :> [Line("storage", Value("slashed", 1)) EXCEPT !.form = "bare"]
       @@ "auth-token" :> Line("auth-token", Value("blank", 1)))

HandTexts == {ByInit, ByHand}

LegacyTexts == {Legacy, SlashedLegacy}

Edit(key, v) == [key |-> key, value |-> v]

SomeEdits ==
  {Edit("port", Number(0)), Edit("port", Number(4)),
   Edit("max-build-concurrency", Number(0)), Edit("max-build-concurrency", Number(1)),
   Edit("host", Value("blank", 0)), Edit("host", Value("broken", 0)),
   Edit("auth-token", Value("text", 9)),
   Edit("expired-before", Value("age", 2)), Edit("expired-before", Value("text", 0)),
   Edit("public-base-url", Value("text", 0)), Edit("health-cache-ttl-seconds", Number(6)),
   Edit("max-source-bytes", Value("padded", 2))}

TwoEdits ==
  {Edit("port", Number(1)), Edit("max-build-concurrency", Number(1))}

SomeAnswers ==
  {[host |-> Value("text", 4), port |-> Number(p)] : p \in {0, 3}}

NoAnswers == {}

NoTexts == {}
=============================================================================
