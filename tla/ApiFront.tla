-------------------------------- MODULE ApiFront --------------------------------
(***************************************************************************)
(* What a request meets before the build lifecycle or the storage: the       *)
(* routes, the bearer token, the limit of the body, the validation.          *)
(*                                                                         *)
(* A token is a sequence of bytes.  A request body is a record: how it parses *)
(* (json), its size, whether it has a key too many, and for each field of      *)
(* RawBuildRequest a sequence with the one value it has, or none: of a name    *)
(* its length without blanks, of a source its length.                         *)
(***************************************************************************)
EXTENDS Integers, Sequences

CONSTANTS
  AuthToken,       \* the token of the configuration
  MaxSourceBytes,  \* max_source_bytes
  BodySlack        \* what a body may have beside four times a source: 64 KiB

ASSUME ApiAssumption == MaxSourceBytes \in Nat /\ BodySlack \in Nat /\ AuthToken # <<>>

MaxName == 80
MinTtl == 60
MaxTtl == 2592000

-----------------------------------------------------------------------------
(* error.rs.                                                                *)

Reply(status, code) == [status |-> status, code |-> code]

Unauthorized == Reply(401, "UNAUTHORIZED")
NotFound == Reply(404, "NOT_FOUND")
ValidationFailed == Reply(400, "VALIDATION_FAILED")
PayloadTooLarge == Reply(413, "PAYLOAD_TOO_LARGE")

\* The answer of axum to a body over the limit has no code.
BodyTooLarge == Reply(413, "none")

\* What a handler that is reached goes on to do.
Reached(what) == Reply(200, what)

-----------------------------------------------------------------------------
(* The token.                                                               *)

ByteAt(bytes, i) == IF i <= Len(bytes) THEN bytes[i] ELSE 0

MaxLen(a, b) == IF Len(a) >= Len(b) THEN Len(a) ELSE Len(b)

\* Fault: the lengths are not compared.
ConstantTimeEqPadded(a, b) == \A i \in 1..MaxLen(a, b) : ByteAt(a, i) = ByteAt(b, i)

ConstantTimeEq(a, b) ==
  Len(a) = Len(b) /\ \A i \in 1..MaxLen(a, b) : ByteAt(a, i) = ByteAt(b, i)

(* A header is a sequence of at most one record: whether it is text, whether  *)
(* it begins with "Bearer ", and the rest.                                    *)
IsAuthorized(header) ==
  header # <<>> /\ header[1].text /\ header[1].bearer /\ ConstantTimeEq(header[1].token, AuthToken)

HealthHandler(header) ==
  IF header = <<>> THEN Reached("brief")
  ELSE IF IsAuthorized(header) THEN Reached("tools")
  ELSE Unauthorized

-----------------------------------------------------------------------------
(* parse_build_request.                                                     *)

BodyLimit == 4 * MaxSourceBytes + BodySlack

Missing == <<>>

ParsesAsRequest(body) ==
  /\ body.json = "object" /\ ~body.extra
  /\ body.name # Missing /\ body.source_format # Missing /\ body.source # Missing

Ttl(body) == IF body.ttl_seconds = Missing THEN MaxTtl
             ELSE IF body.ttl_seconds[1] < 0 THEN 0 ELSE body.ttl_seconds[1]

ParseBuildRequest(body) ==
  CASE ~ParsesAsRequest(body) -> ValidationFailed
    [] ParsesAsRequest(body) /\ (body.name[1] \notin 1..MaxName \/ body.source_format[1] # "cherri"
                                 \/ body.source[1] = 0) -> ValidationFailed
    [] OTHER ->
         IF body.source[1] > MaxSourceBytes THEN PayloadTooLarge
         ELSE IF \/ body.sign_mode # Missing /\ body.sign_mode[1] # "anyone"
                 \/ Ttl(body) \notin MinTtl..MaxTtl THEN ValidationFailed
         ELSE Reached("submit")

-----------------------------------------------------------------------------
(* serve: auth_middleware stands before the routes under /api, the extraction *)
(* of the body behind it.                                                    *)

ApiRoute(header, inner) == IF ~IsAuthorized(header) THEN Unauthorized ELSE inner

BuildHandler(body) == IF body.size > BodyLimit THEN BodyTooLarge ELSE ParseBuildRequest(body)

(* is_valid_build_id, is_valid_download_token: a name that is none is not      *)
(* looked up.                                                                *)
IsValidBuildId(name) == name.kind = "id" /\ name.length = 32

IsValidDownloadToken(name) == name.kind = "token" /\ name.length >= 25

Named(name, isValid, what) == IF isValid THEN Reached(what) ELSE NotFound

Answer(request) ==
  CASE request.route = "health" -> HealthHandler(request.header)
    [] request.route = "builds" -> ApiRoute(request.header, BuildHandler(request.body))
    [] request.route = "metadata" ->
         ApiRoute(request.header, Named(request.name, IsValidBuildId(request.name), "metadata"))
    [] request.route = "download" ->
         Named(request.name, IsValidDownloadToken(request.name), "download")
=============================================================================
