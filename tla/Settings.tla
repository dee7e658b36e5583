-------------------------------- MODULE Settings --------------------------------
(***************************************************************************)
(* The settings of a server: what `config set` accepts, where a value comes  *)
(* from, and what `serve` and `start` make of the values they find.          *)
(*                                                                         *)
(* The text of a value is abstracted to what the code tells apart: its kind,  *)
(* and a number n that is the value of a number and the name of any other.   *)
(***************************************************************************)
EXTENDS Integers, Sequences, SequencesExt

CONSTANTS
  MaxPort,     \* the greatest u16
  MaxNumber,   \* the greatest usize and u64
  MaxInteger   \* the greatest i64: the integers of TOML

ASSUME WidthAssumption ==
  /\ {MaxPort, MaxNumber, MaxInteger} \subseteq Nat
  /\ 2 <= MaxPort /\ MaxPort <= MaxInteger /\ MaxInteger <= MaxNumber

NumberKeys == {"port", "max-source-bytes", "build-timeout-seconds", "max-build-concurrency",
               "health-cache-ttl-seconds"}

RuntimeKeys == NumberKeys \union
  {"host", "public-base-url", "storage", "auth-token", "cherri-bin", "shortcuts-bin"}

Keys == RuntimeKeys \union {"expired-before"}

(* A slashed text has a backslash, a broken one a line break.                *)
Kinds == {"empty", "blank", "number", "padded", "age", "url", "text", "slashed", "broken"}

Values == [kind : Kinds, n : Nat]

Value(kind, n) == [kind |-> kind, n |-> n]

Number(n) == Value("number", n)

IsBlank(v) == v.kind \in {"empty", "blank"}

Limit(key) == IF key = "port" THEN MaxPort ELSE MaxNumber

(* Digits, without or with zeros before them.                               *)
Numerals == {"number", "padded"}

(* parse::<u16>(), parse::<usize>(), parse::<u64>().                         *)
IsNumberFor(key, v) == v.kind \in Numerals /\ v.n <= Limit(key)

(* An age is a number with or without a unit, or the word now.               *)
IsAge(v) == v.kind \in {"age"} \union Numerals /\ v.n <= MaxNumber

IsHttpUrl(v) == v.kind = "url"

-----------------------------------------------------------------------------
(* validate_config_assignment.                                              *)

MustBePositive == NumberKeys \ {"health-cache-ttl-seconds"}

IsValidAssignment(key, v) ==
  CASE key \in NumberKeys -> IsNumberFor(key, v) /\ (key \in MustBePositive => v.n > 0)
    [] key = "public-base-url" -> IsHttpUrl(v)
    [] key = "expired-before" -> IsAge(v)
    [] OTHER -> ~IsBlank(v)

(* is_supported_config_set_key: the token is changed by `token rotate` only. *)
ConfigSetKeys == Keys \ {"auth-token"}

-----------------------------------------------------------------------------
(* config_value: the first of the layers that has the key.                   *)

Layer(layers, key) == SelectInSeq(layers, LAMBDA layer : key \in DOMAIN layer)

Has(layers, key) == Layer(layers, key) # 0

ConfigValue(layers, key) == layers[Layer(layers, key)][key]

Default(key) ==
  CASE key = "port" -> Number(MaxPort - 1)
    [] key = "max-build-concurrency" -> Number(1)
    [] key \in NumberKeys -> Number(2)
    [] key = "public-base-url" -> Value("url", 0)
    [] key = "auth-token" -> Value("empty", 0)
    [] OTHER -> Value("text", 0)

Effective(layers) ==
  [key \in RuntimeKeys |-> IF Has(layers, key) THEN ConfigValue(layers, key) ELSE Default(key)]

Refused == [ok |-> FALSE]

Accepted(conf) == [ok |-> TRUE, conf |-> conf]

(* What both ways to build a configuration demand of the values they found.  *)
IsSound(conf) ==
  /\ ~IsBlank(conf["host"])
  /\ \A key \in NumberKeys : IsNumberFor(key, conf[key])
  /\ conf["max-build-concurrency"].n > 0
  /\ conf["auth-token"].kind # "empty"

(* build_runtime_config, for `serve`: SERVER_AUTH_TOKEN, the layer named     *)
(* last, is for the token alone; a token of blanks is refused.               *)
BuildRuntimeConfig(flags, env, file, last) ==
  LET conf == Effective(<<flags, env, file, last>>) IN
  IF IsSound(conf) /\ ~IsBlank(conf["auth-token"]) THEN Accepted(conf) ELSE Refused

\* Fault: the limit of builds is not taken from the file.
BuildRuntimeConfigFromFileNoLimit(file) ==
  LET conf == [Effective(<<file>>) EXCEPT !["max-build-concurrency"] = Number(1)] IN
  IF IsSound(conf) THEN Accepted(conf) ELSE Refused

(* build_runtime_config_from_file, for `start` and the other commands.       *)
BuildRuntimeConfigFromFile(file) ==
  LET conf == Effective(<<file>>) IN
  IF IsSound(conf) THEN Accepted(conf) ELSE Refused

(* run_gc_command: an age, if one is given, must be one.                     *)
GcAccepts(flags, env, file) ==
  LET layers == <<flags, env, file>> IN
  Has(layers, "expired-before") => IsAge(ConfigValue(layers, "expired-before"))
=============================================================================
