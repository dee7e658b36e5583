---------------------------------- MODULE Urls ----------------------------------
(***************************************************************************)
(* The URL that callers are given and the one the operator's commands use.    *)
(* A URL is a sequence of parts; a part is what no code looks into.           *)
(***************************************************************************)
EXTENDS Integers, Sequences, SequencesExt

Schemes == {"http://", "https://"}

(* Text up to the first, or after the last, of a part.                       *)
UpTo(url, part) == LET i == SelectInSeq(url, LAMBDA p : p = part) IN
                   IF i = 0 THEN url ELSE SubSeq(url, 1, i - 1)

From(url, part) == LET i == SelectInSeq(url, LAMBDA p : p = part) IN
                   IF i = 0 THEN <<>> ELSE SubSeq(url, i, Len(url))

AfterLast(url, part) == SubSeq(url, SelectLastInSeq(url, LAMBDA p : p = part) + 1, Len(url))

WithoutLastSlashes(url) == SubSeq(url, 1, SelectLastInSeq(url, LAMBDA p : p # "/"))

HasScheme(url) == url # <<>> /\ Head(url) \in Schemes

WithoutScheme(url) == IF HasScheme(url) THEN Tail(url) ELSE url

Authority(url) == UpTo(WithoutScheme(url), "/")

\* Fault: each colon is taken for the one before a port.
AuthorityHasPortAnyColon(authority) == {":", "::1"} \intersect ToSet(authority) # {}

(* authority_has_port: the colons of an address in brackets are not it; part  *)
(* "::1" is such an address.                                                 *)
AuthorityHasPort(authority) ==
  LET hostPort == AfterLast(authority, "@") IN
  IF hostPort # <<>> /\ Head(hostPort) = "["
    THEN \E i \in 1..Len(hostPort) - 1 : hostPort[i] = "]" /\ hostPort[i + 1] = ":"
    ELSE \E i \in DOMAIN hostPort : hostPort[i] \in {":", "::1"}

DefaultPort(url) == IF HasScheme(url) /\ Head(url) = "https://" THEN 443 ELSE 80

NormalizePublicBaseUrl(url, port) ==
  LET trimmed == WithoutLastSlashes(url)
      authority == Authority(trimmed) IN
  IF authority = <<>> \/ AuthorityHasPort(authority) \/ port = DefaultPort(trimmed)
    THEN trimmed
    ELSE trimmed \o <<":", ToString(port)>>

ValidateHttpishUrl(url) == HasScheme(url) /\ Tail(url) # <<>> /\ url[2] # "/"

ExtractUrlHost(url) ==
  LET authority == Authority(url) IN
  IF authority # <<>> /\ Head(authority) = "["
    THEN UpTo(Tail(authority), "]")
    ELSE UpTo(authority, ":")

ExtractUrlPath(url) == From(WithoutScheme(url), "/")

LocalServiceBaseUrl(host, port) ==
  <<"http://", CASE host = "0.0.0.0" -> "127.0.0.1" [] host = "::" -> "::1" [] OTHER -> host,
    ":", ToString(port)>>

LocalizeServiceUrl(url, host, port) == LocalServiceBaseUrl(host, port) \o ExtractUrlPath(url)

DownloadUrl(base, token) == base \o <<"/", "s", "/", token>>
=============================================================================
