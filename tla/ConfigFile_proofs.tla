--------------------------- MODULE ConfigFile_proofs ---------------------------
(***************************************************************************)
(* The configuration file, for every set of edits, answers and first files. *)
(***************************************************************************)
EXTENDS ConfigFile, TLAPS

-----------------------------------------------------------------------------
(* The hypotheses of the theorems.                                          *)

(* One command at a time: ConcurrentEdits shows what happens without.        *)
OneShell == \A s, u \in Shells : s = u

(* A value that the configuration takes for a key.                           *)
IsTaken(key, v) ==
  /\ key \in NumberKeys => IsNumberFor(key, v)
  /\ key = "max-build-concurrency" => v.n > 0
  /\ key = "host" => ~IsBlank(v)
  /\ key = "expired-before" => IsAge(v)

(* Each value of a text is one for its key.                                  *)
IsGood(text) == \A key \in DOMAIN text.lines : IsTaken(key, text.lines[key].value)

(* At first a file has a token, which may be of blanks, and values for the     *)
(* keys that it has; it need not be one that TOML can parse.                 *)
FilesAreGood == \A text \in FirstFiles \union FirstLegacy : IsGood(text) /\ HasToken(text)

-----------------------------------------------------------------------------
(* The invariants.                                                          *)

Stages == {"idle", "resolving", "opening", "filling", "reading", "creating", "writing", "renaming"}

Tokens == {Minted(n) : n \in 1..MaxCommands}

IsCommand(cmd) ==
  /\ cmd \in Commands
  /\ cmd.op = "set" => /\ cmd.edit.key \in ConfigSetKeys
                       /\ IsValidAssignment(cmd.edit.key, cmd.edit.value)

ShellTypes(x) ==
  /\ x = [pc |-> x.pc, cmd |-> x.cmd, token |-> x.token, text |-> x.text, fd |-> x.fd]
  /\ x.pc \in Stages
  /\ IsText(x.text)
  /\ x.fd \in Inodes \union {None}
  /\ x.pc # "idle" => IsCommand(x.cmd) /\ x.token \in Tokens
  /\ x.pc \in {"writing", "filling"} => x.fd \in Inodes

FileTypes ==
  /\ names = [toml |-> names.toml, tmp |-> names.tmp]
  /\ names.toml \in Inodes \union {None} /\ names.tmp \in Inodes \union {None}
  /\ DOMAIN data = Inodes /\ data = [i \in Inodes |-> data[i]]
  /\ \A i \in Inodes : IsText(data[i])
  /\ shell = [s \in Shells |-> shell[s]]
  /\ \A s \in Shells : /\ ShellTypes(shell[s])
                       /\ shell[s].pc \in {"filling", "reading"} => names.toml # None
  /\ legacy = None \/ legacy \in FirstLegacy
  /\ cut \in BOOLEAN /\ commands \in 0..MaxCommands /\ kills \in Nat

Torn(text) == [text EXCEPT !.torn = TRUE]

(* The text that the command of x makes of the one it found.                 *)
Made(x, found) ==
  CASE x.cmd.op = "set" -> Edited(found, x.cmd.edit.key, x.cmd.edit.value)
    [] x.cmd.op = "rotate" -> Edited(found, "auth-token", x.token)
    [] x.cmd.op = "init" ->
         Text(RenderOperatorConfig(InitConfig(Loaded(found), x.cmd.answers, x.token)))

(* The text of x is the one its command makes of what is found now.          *)
IsDue(x, found) ==
  /\ x.text = Made(x, found)
  /\ x.cmd.op = "init" => InitAccepts(InitConfig(Loaded(found), x.cmd.answers, x.token))

Making == {"creating", "writing", "renaming"}

(* One command at a time: the file is whole and not the temporary one, what    *)
(* the command writes is what it is about to make of the file, and a         *)
(* migration begins, and is cut short, once.                                 *)
OneAtATime(x) ==
  /\ x.pc \in Making => IsDue(x, Found)
  /\ x.pc = "writing" => x.fd = names.tmp /\ data[x.fd] = Text(Nothing)
  /\ x.pc = "renaming" => names.tmp # None /\ data[names.tmp] = x.text
  /\ x.pc \in {"opening", "filling"} => legacy # None /\ x.text = Migrated(legacy) /\ ~cut
  /\ x.pc = "opening" => names.toml = None
  /\ x.pc = "filling" => x.fd = names.toml /\ data[x.fd] = Text(Nothing)

Whole ==
  /\ names.toml # None => names.toml # names.tmp /\ ~data[names.toml].torn
  /\ cut => names.toml # None
  /\ \A s \in Shells : OneAtATime(shell[s])

(* The values of the file are for its keys, and so are those of the text about *)
(* to be the file; a token is missing only after a migration was cut short.   *)
IsFit(text) == IsGood(text) /\ (HasToken(text) \/ cut)

Good ==
  /\ names.toml # None \/ legacy # None => IsFit(Found)
  /\ \A s \in Shells : shell[s].pc \in Making => IsFit(shell[s].text)

-----------------------------------------------------------------------------
(* Where a value comes from.                                                *)

(* Of one layer, it is the layer.                                            *)
LEMMA OneLayer ==
  ASSUME NEW f, NEW key
  PROVE  /\ Has(<<f>>, key) <=> key \in DOMAIN f
         /\ key \in DOMAIN f => ConfigValue(<<f>>, key) = f[key]
<1> DEFINE I == {i \in 1..Len(<<f>>) : key \in DOMAIN <<f>>[i]}
<1>1. Layer(<<f>>, key) = IF I # {} THEN Min(I) ELSE 0
  BY DEF Layer, SelectInSeq
<1>2. Len(<<f>>) = 1 /\ <<f>>[1] = f
  OBVIOUS
<1>3. CASE key \in DOMAIN f
  <2>1. I = {1}
    BY <1>2, <1>3
  <2>2. Min({1}) = 1
    BY DEF Min
  <2> QED
    BY <1>1, <1>2, <1>3, <2>1, <2>2 DEF Has, ConfigValue
<1>4. CASE key \notin DOMAIN f
  <2>1. I = {}
    BY <1>2, <1>4
  <2> QED
    BY <1>1, <1>4, <2>1 DEF Has
<1> QED
  BY <1>3, <1>4

(* With nothing said on the command line or in the environment, it is the     *)
(* file.                                                                    *)
LEMMA FileLayer ==
  ASSUME NEW f, NEW key
  PROVE  /\ Has(<<Nothing, Nothing, f, Nothing>>, key) <=> key \in DOMAIN f
         /\ Has(<<Nothing, Nothing, f>>, key) <=> key \in DOMAIN f
         /\ key \in DOMAIN f => /\ ConfigValue(<<Nothing, Nothing, f, Nothing>>, key) = f[key]
                                /\ ConfigValue(<<Nothing, Nothing, f>>, key) = f[key]
<1>1. DOMAIN Nothing = {}
  BY DEF Nothing
<1>2. Min({3}) = 3
  BY DEF Min
<1>3. /\ Has(<<Nothing, Nothing, f>>, key) <=> key \in DOMAIN f
      /\ key \in DOMAIN f => ConfigValue(<<Nothing, Nothing, f>>, key) = f[key]
  <2> DEFINE layers == <<Nothing, Nothing, f>>
             I == {i \in 1..Len(layers) : key \in DOMAIN layers[i]}
  <2>1. Layer(layers, key) = IF I # {} THEN Min(I) ELSE 0
    BY DEF Layer, SelectInSeq
  <2>2. Len(layers) = 3 /\ layers[1] = Nothing /\ layers[2] = Nothing /\ layers[3] = f
    OBVIOUS
  <2>3. I = IF key \in DOMAIN f THEN {3} ELSE {}
    BY <1>1, <2>2
  <2>4. Layer(layers, key) = IF key \in DOMAIN f THEN 3 ELSE 0
    BY <1>2, <2>1, <2>3
  <2> HIDE DEF layers, I
  <2>5. Has(layers, key) <=> key \in DOMAIN f
    BY <2>4 DEF Has
  <2>6. key \in DOMAIN f => ConfigValue(layers, key) = f[key]
    BY <2>2, <2>4 DEF ConfigValue
  <2> QED
    BY <2>5, <2>6 DEF layers
<1>4. /\ Has(<<Nothing, Nothing, f, Nothing>>, key) <=> key \in DOMAIN f
      /\ key \in DOMAIN f => ConfigValue(<<Nothing, Nothing, f, Nothing>>, key) = f[key]
  <2> DEFINE layers == <<Nothing, Nothing, f, Nothing>>
             I == {i \in 1..Len(layers) : key \in DOMAIN layers[i]}
  <2>1. Layer(layers, key) = IF I # {} THEN Min(I) ELSE 0
    BY DEF Layer, SelectInSeq
  <2>2. /\ Len(layers) = 4 /\ layers[1] = Nothing /\ layers[2] = Nothing
        /\ layers[3] = f /\ layers[4] = Nothing
    OBVIOUS
  <2>3. I = IF key \in DOMAIN f THEN {3} ELSE {}
    BY <1>1, <2>2
  <2>4. Layer(layers, key) = IF key \in DOMAIN f THEN 3 ELSE 0
    BY <1>2, <2>1, <2>3
  <2> HIDE DEF layers, I
  <2>5. Has(layers, key) <=> key \in DOMAIN f
    BY <2>4 DEF Has
  <2>6. key \in DOMAIN f => ConfigValue(layers, key) = f[key]
    BY <2>2, <2>4 DEF ConfigValue
  <2> QED
    BY <2>5, <2>6 DEF layers
<1> QED
  BY <1>3, <1>4

LEMMA SameEffect ==
  ASSUME NEW f
  PROVE  Effective(<<Nothing, Nothing, f, Nothing>>) = Effective(<<f>>)
<1> DEFINE one == <<f>>
           all == <<Nothing, Nothing, f, Nothing>>
<1>1. \A key : (Has(one, key) <=> Has(all, key)) /\ (Has(one, key) => ConfigValue(one, key) = ConfigValue(all, key))
  BY OneLayer, FileLayer
<1> HIDE DEF one, all
<1>2. Effective(one) = Effective(all)
  BY <1>1 DEF Effective
<1> QED
  BY <1>2 DEF one, all

-----------------------------------------------------------------------------
(* Texts, and what the commands make of them.                                *)

LEMMA ValueTypes ==
  /\ \A n \in Nat : Number(n) \in Values /\ Minted(n) \in Values
  /\ \A key : Default(key) \in Values
  /\ Value("age", 1) \in Values
  /\ Unset \notin Values
  /\ \A t \in Tokens : t \in Values /\ ~IsBlank(t)
  /\ \A v \in Values : v = [kind |-> v.kind, n |-> v.n] /\ v.kind \in Kinds /\ v.n \in Nat
<1>1. \A n \in Nat : Number(n) \in Values /\ Minted(n) \in Values
  BY DEF Number, Minted, Value, Values, Kinds
<1>2. \A key : Default(key) \in Values
  <2>1. MaxPort - 1 \in Nat
    BY WidthAssumption
  <2>2. Value("url", 0) \in Values /\ Value("empty", 0) \in Values /\ Value("text", 0) \in Values
    BY DEF Value, Values, Kinds
  <2> QED
    BY <1>1, <2>1, <2>2 DEF Default
<1>3. Unset \notin Values /\ Value("age", 1) \in Values
  BY DEF Unset, Value, Values, Kinds
<1>4. \A t \in Tokens : t \in Values /\ ~IsBlank(t)
  BY <1>1, FileAssumption DEF Tokens, IsBlank, Minted, Value
<1> QED
  BY <1>1, <1>2, <1>3, <1>4 DEF Values

LEMMA EmptyText ==
  /\ IsText(Text(Nothing)) /\ Loaded(Text(Nothing)) = Nothing
  /\ Text(Nothing) = [lines |-> Nothing, torn |-> FALSE, stray |-> FALSE]
<1>1. DOMAIN Nothing = {}
  BY DEF Nothing
<1>2. Text(Nothing) = [lines |-> Nothing, torn |-> FALSE, stray |-> FALSE]
  BY <1>1 DEF Text
<1>3. Loaded(Text(Nothing)) = Nothing
  BY <1>1, <1>2 DEF Loaded, Nothing
<1>4. Nothing \in [DOMAIN Nothing -> Lines]
  BY <1>1 DEF Nothing
<1> QED
  BY <1>1, <1>2, <1>3, <1>4 DEF IsText

LEMMA KeyNames == /\ AnswerKeys \subseteq Keys /\ KeptByInit \subseteq Keys
                  /\ ConfigSetKeys \subseteq Keys /\ NumberKeys \subseteq RuntimeKeys
                  /\ "auth-token" \in Keys /\ "auth-token" \notin ConfigSetKeys
                  /\ RuntimeKeys \subseteq Keys
BY DEF AnswerKeys, KeptByInit, ConfigSetKeys, Keys, RuntimeKeys, NumberKeys

LEMMA TextLoaded ==
  ASSUME NEW text, IsText(text)
  PROVE  /\ DOMAIN Loaded(text) = DOMAIN text.lines /\ DOMAIN Loaded(text) \subseteq Keys
         /\ \A key \in DOMAIN text.lines :
              Loaded(text)[key] = text.lines[key].value /\ text.lines[key].value \in Values
<1>1. DOMAIN text.lines \subseteq Keys /\ \A key \in DOMAIN text.lines : text.lines[key] \in Lines
  BY DEF IsText
<1> QED
  BY <1>1 DEF Loaded, Lines

LEMMA TextMigrated ==
  ASSUME NEW text, IsText(text)
  PROVE  /\ IsText(Migrated(text)) /\ Migrated(text).torn = text.torn
         /\ DOMAIN Migrated(text).lines = DOMAIN text.lines
         /\ \A key \in DOMAIN text.lines : Migrated(text).lines[key].value = text.lines[key].value
<1> DEFINE lines == [key \in DOMAIN text.lines |-> MigratedLine(text.lines[key])]
<1>1. text = [lines |-> text.lines, torn |-> text.torn, stray |-> text.stray]
  BY DEF IsText
<1>2. Migrated(text) = [lines |-> lines, torn |-> text.torn, stray |-> text.stray]
  BY <1>1 DEF Migrated
<1>3. ASSUME NEW line \in Lines
      PROVE  MigratedLine(line) \in Lines /\ MigratedLine(line).value = line.value
  BY DEF MigratedLine, Lines, Spellings, Forms
<1>4. \A key \in DOMAIN text.lines : lines[key] \in Lines /\ lines[key].value = text.lines[key].value
  BY <1>3 DEF IsText
<1>5. lines \in [DOMAIN text.lines -> Lines] /\ DOMAIN lines = DOMAIN text.lines
  BY <1>4
<1>6. DOMAIN text.lines \subseteq Keys /\ text.torn \in BOOLEAN /\ text.stray \in BOOLEAN
  BY DEF IsText
<1> HIDE DEF lines
<1>7. IsText([lines |-> lines, torn |-> text.torn, stray |-> text.stray])
  BY <1>5, <1>6 DEF IsText
<1> QED
  BY <1>2, <1>4, <1>5, <1>7

(* A part of a text has some of its values.                                  *)
LEMMA TextPart ==
  ASSUME NEW text, IsText(text), NEW part \in Parts(text)
  PROVE  /\ IsText(part) /\ ~part.torn /\ DOMAIN part.lines \subseteq DOMAIN text.lines
         /\ \A key \in DOMAIN part.lines : part.lines[key].value = text.lines[key].value
<1> DEFINE Of(kept, last) ==
      [key \in kept |-> IF key = last THEN [text.lines[key] EXCEPT !.form = "raw"] ELSE text.lines[key]]
<1>1. PICK kept \in SUBSET DOMAIN text.lines, last \in Keys, stray \in {FALSE, TRUE} :
        part = [lines |-> Of(kept, last), torn |-> FALSE, stray |-> stray]
  BY DEF Parts
<1>2. ASSUME NEW line \in Lines
      PROVE  [line EXCEPT !.form = "raw"] \in Lines /\ [line EXCEPT !.form = "raw"].value = line.value
  BY DEF Lines, Forms
<1>3. \A key \in kept : Of(kept, last)[key] \in Lines /\ Of(kept, last)[key].value = text.lines[key].value
  BY <1>2 DEF IsText
<1>4. Of(kept, last) \in [kept -> Lines] /\ DOMAIN Of(kept, last) = kept
  BY <1>3
<1>5. DOMAIN text.lines \subseteq Keys
  BY DEF IsText
<1> DEFINE lines == Of(kept, last)
<1> HIDE DEF lines
<1>6. lines \in [kept -> Lines] /\ DOMAIN lines = kept
      /\ \A key \in kept : lines[key].value = text.lines[key].value
  BY <1>3, <1>4 DEF lines
<1>7. part = [lines |-> lines, torn |-> FALSE, stray |-> stray]
  BY <1>1 DEF lines
<1> HIDE DEF Of
<1> QED
  BY <1>5, <1>6, <1>7 DEF IsText

LEMMA InitMakes ==
  ASSUME NEW f, DOMAIN f \subseteq Keys, \A key \in DOMAIN f : f[key] \in Values,
         NEW answers \in Answers, NEW token \in Tokens
  PROVE  LET conf == InitConfig(f, answers, token) IN
         /\ conf \in [Keys -> Values]
         /\ \A key \in DOMAIN answers : conf[key] = answers[key]
         /\ \A key \in KeptByInit \intersect DOMAIN f :
              (key = "auth-token" => ~IsBlank(f[key])) => conf[key] = f[key]
         /\ ~IsBlank(conf["auth-token"])
         /\ ("auth-token" \in DOMAIN f => IsBlank(f["auth-token"])) => conf["auth-token"] = token
         /\ \A key \in NumberKeys \ {"port"} : conf[key] = Default(key)
<1> DEFINE kept == KeptFrom(f)
           conf == InitConfig(f, answers, token)
<1>1. /\ DOMAIN kept = {k \in KeptByInit \intersect DOMAIN f : k = "auth-token" => ~IsBlank(f[k])}
      /\ \A key \in DOMAIN kept : kept[key] = f[key]
  BY DEF KeptFrom
<1>2. /\ DOMAIN answers \subseteq AnswerKeys /\ \A key \in DOMAIN answers : answers[key] \in Values
  BY InputAssumption
<1>3. /\ conf = [key \in Keys |-> IF key \in DOMAIN kept THEN kept[key]
                                  ELSE IF key \in DOMAIN answers THEN answers[key]
                                  ELSE InitDefault(key, token)]
  BY DEF InitConfig
<1>4. \A key : InitDefault(key, token) \in Values
  BY ValueTypes DEF InitDefault
<1>5. \A key \in AnswerKeys : key \notin KeptByInit
  BY DEF AnswerKeys, KeptByInit
<1>6. InitDefault("auth-token", token) = token /\ token \in Values /\ ~IsBlank(token)
  BY ValueTypes DEF InitDefault
<1>7. "auth-token" \in KeptByInit /\ "auth-token" \notin AnswerKeys
  BY DEF AnswerKeys, KeptByInit
<1>8. \A key \in NumberKeys \ {"port"} :
        key \notin KeptByInit /\ key \notin AnswerKeys /\ InitDefault(key, token) = Default(key) /\ key \in Keys
  BY DEF AnswerKeys, KeptByInit, NumberKeys, RuntimeKeys, Keys, InitDefault
<1> HIDE DEF kept, conf
<1>9. conf \in [Keys -> Values]
  BY <1>1, <1>2, <1>3, <1>4
<1>10. \A key \in DOMAIN answers : conf[key] = answers[key]
  BY <1>1, <1>2, <1>3, <1>5, KeyNames
<1>11. \A key \in KeptByInit \intersect DOMAIN f :
         (key = "auth-token" => ~IsBlank(f[key])) => conf[key] = f[key]
  BY <1>1, <1>3, KeyNames
<1>12. /\ ~IsBlank(conf["auth-token"])
       /\ ("auth-token" \in DOMAIN f => IsBlank(f["auth-token"])) => conf["auth-token"] = token
  BY <1>1, <1>2, <1>3, <1>6, <1>7, KeyNames
<1>13. \A key \in NumberKeys \ {"port"} : conf[key] = Default(key)
  BY <1>1, <1>2, <1>3, <1>8
<1> QED
  BY <1>9, <1>10, <1>11, <1>12, <1>13 DEF conf

LEMMA TextRendered ==
  ASSUME NEW conf \in [Keys -> Values]
  PROVE  /\ IsText(Text(RenderOperatorConfig(conf))) /\ ~Text(RenderOperatorConfig(conf)).torn
         /\ Text(RenderOperatorConfig(conf)).lines = RenderOperatorConfig(conf)
<1> DEFINE lines == RenderOperatorConfig(conf)
<1>1. DOMAIN lines = Keys /\ lines \in [Keys -> Lines]
  BY DEF RenderOperatorConfig, Line, Lines, Spellings, Forms
<1> DEFINE stray == \E key \in DOMAIN lines : lines[key].value.kind = "broken"
<1>2. Text(lines) = [lines |-> lines, torn |-> FALSE, stray |-> stray] /\ stray \in BOOLEAN
  BY DEF Text
<1> HIDE DEF lines, stray
<1>3. IsText(Text(lines)) /\ ~Text(lines).torn /\ Text(lines).lines = lines
  BY <1>1, <1>2 DEF IsText
<1> QED
  BY <1>3 DEF lines

LEMMA TextTorn ==
  ASSUME NEW text, IsText(text)
  PROVE  IsText(Torn(text))
<1> DEFINE lines == text.lines
           torn == text.torn
           stray == text.stray
<1>1. text = [lines |-> lines, torn |-> torn, stray |-> stray]
  BY DEF IsText
<1>2. DOMAIN lines \subseteq Keys /\ lines \in [DOMAIN lines -> Lines] /\ stray \in BOOLEAN
  BY DEF IsText
<1> HIDE DEF lines, torn, stray
<1>3. Torn(text) = [lines |-> lines, torn |-> TRUE, stray |-> stray]
  <2>1. ASSUME NEW a, NEW b, NEW c, NEW d
        PROVE  [[lines |-> a, torn |-> b, stray |-> c] EXCEPT !.torn = d]
                 = [lines |-> a, torn |-> d, stray |-> c]
    OBVIOUS
  <2> QED
    BY <1>1, <2>1, Zenon DEF Torn
<1> QED
  BY <1>2, <1>3 DEF IsText

LEMMA TextEdited ==
  ASSUME NEW text, IsText(text), NEW key \in Keys, NEW v \in Values
  PROVE  /\ IsText(Edited(text, key, v)) /\ Edited(text, key, v).torn = text.torn
         /\ DOMAIN Edited(text, key, v).lines = DOMAIN text.lines \union {key}
         /\ \A k \in DOMAIN text.lines \union {key} :
              Edited(text, key, v).lines[k].value = IF k = key THEN v ELSE text.lines[k].value
<1> DEFINE new == IF key \in DOMAIN text.lines /\ text.lines[key].spelling \in {"both", "twice"}
                    THEN [Line(key, v) EXCEPT !.spelling = "twice"] ELSE Line(key, v)
           lines == [k \in DOMAIN text.lines \union {key} |-> IF k = key THEN new ELSE text.lines[k]]
           stray == text.stray \/ v.kind = "broken"
<1>1. new \in Lines /\ new.value = v
  BY DEF Line, Lines, Spellings, Forms
<1>2. Edited(text, key, v) = [lines |-> lines, torn |-> text.torn, stray |-> stray]
  BY DEF Edited
<1> HIDE DEF new
<1>3. /\ \A k \in DOMAIN text.lines : text.lines[k] \in Lines
      /\ DOMAIN text.lines \subseteq Keys /\ text.torn \in BOOLEAN
  BY DEF IsText
<1>4. /\ DOMAIN lines = DOMAIN text.lines \union {key} /\ lines \in [DOMAIN lines -> Lines]
      /\ \A k \in DOMAIN lines : lines[k].value = IF k = key THEN v ELSE text.lines[k].value
  BY <1>1, <1>3
<1>5. stray \in BOOLEAN
  OBVIOUS
<1> HIDE DEF lines, stray
<1> QED
  BY <1>2, <1>3, <1>4, <1>5 DEF IsText

LEMMA CommandKinds ==
  ASSUME NEW cmd \in Commands
  PROVE  \/ /\ cmd.op = "set" /\ cmd.edit \in Edits
            /\ cmd.edit.key \in Keys /\ cmd.edit.value \in Values
         \/ cmd.op = "rotate"
         \/ cmd.op = "init" /\ cmd.answers \in Answers
BY InputAssumption DEF Commands

LEMMA MadeIsText ==
  ASSUME NEW text, IsText(text), NEW x, IsCommand(x.cmd), x.token \in Tokens
  PROVE  IsText(Made(x, text)) /\ (~text.torn => ~Made(x, text).torn)
<1>1. x.cmd \in Commands
  BY DEF IsCommand
<1>2. x.token \in Values
  BY ValueTypes
<1>3. CASE x.cmd.op = "set"
  <2>1. x.cmd.edit.key \in ConfigSetKeys /\ x.cmd.edit.value \in Values
    BY <1>1, <1>3, CommandKinds DEF IsCommand
  <2>2. /\ IsText(Edited(text, x.cmd.edit.key, x.cmd.edit.value))
        /\ Edited(text, x.cmd.edit.key, x.cmd.edit.value).torn = text.torn
    BY <2>1, KeyNames, TextEdited
  <2> QED
    BY <1>3, <2>2 DEF Made
<1>4. CASE x.cmd.op = "rotate"
  <2>1. IsText(Edited(text, "auth-token", x.token)) /\ Edited(text, "auth-token", x.token).torn = text.torn
    BY <1>2, KeyNames, TextEdited
  <2> QED
    BY <1>4, <2>1 DEF Made
<1>5. CASE x.cmd.op = "init"
  <2> DEFINE conf == InitConfig(Loaded(text), x.cmd.answers, x.token)
  <2>1. x.cmd.answers \in Answers
    BY <1>1, <1>5, CommandKinds
  <2>2. DOMAIN Loaded(text) \subseteq Keys /\ \A key \in DOMAIN Loaded(text) : Loaded(text)[key] \in Values
    BY TextLoaded
  <2>3. conf \in [Keys -> Values]
    BY <2>1, <2>2, InitMakes
  <2>4. Made(x, text) = Text(RenderOperatorConfig(conf))
    BY <1>5 DEF Made
  <2> HIDE DEF conf
  <2> QED
    BY <2>3, <2>4, TextRendered
<1> QED
  BY <1>1, <1>3, <1>4, <1>5, CommandKinds

-----------------------------------------------------------------------------
(* The types are kept, by any number of commands at a time.                  *)

Stage(x, pc, text, fd) ==
  [pc |-> pc, cmd |-> x.cmd, token |-> x.token, text |-> text, fd |-> fd]

LEMMA TextField ==
  ASSUME NEW x, NEW pc, NEW new,
         x = [pc |-> x.pc, cmd |-> x.cmd, token |-> x.token, text |-> x.text, fd |-> x.fd]
  PROVE  [x EXCEPT !.pc = pc, !.text = new] = Stage(x, pc, new, x.fd)
<1> DEFINE y == Stage(x, pc, x.text, x.fd)
<1>1. [x EXCEPT !.pc = pc] = y
  BY DEF Stage
<1>2. [y EXCEPT !.text = new] = Stage(x, pc, new, x.fd)
  BY DEF Stage
<1> HIDE DEF y
<1>3. [x EXCEPT !.pc = pc, !.text = new] = [[x EXCEPT !.pc = pc] EXCEPT !.text = new]
  BY Zenon
<1> QED
  BY <1>1, <1>2, <1>3

LEMMA FdField ==
  ASSUME NEW x, NEW pc, NEW new,
         x = [pc |-> x.pc, cmd |-> x.cmd, token |-> x.token, text |-> x.text, fd |-> x.fd]
  PROVE  [x EXCEPT !.pc = pc, !.fd = new] = Stage(x, pc, x.text, new)
<1> DEFINE y == Stage(x, pc, x.text, x.fd)
<1>1. [x EXCEPT !.pc = pc] = y
  BY DEF Stage
<1>2. [y EXCEPT !.fd = new] = Stage(x, pc, x.text, new)
  BY DEF Stage
<1> HIDE DEF y
<1>3. [x EXCEPT !.pc = pc, !.fd = new] = [[x EXCEPT !.pc = pc] EXCEPT !.fd = new]
  BY Zenon
<1> QED
  BY <1>1, <1>2, <1>3

LEMMA GoesTo ==
  ASSUME FileTypes, NEW s \in Shells, NEW pc,
         shell' = [shell EXCEPT ![s].pc = pc]
  PROVE  shell' = [shell EXCEPT ![s] = Stage(shell[s], pc, shell[s].text, shell[s].fd)]
<1> DEFINE x == Stage(shell[s], pc, shell[s].text, shell[s].fd)
           old == [shell EXCEPT ![s].pc = pc]
<1>1. shell = [u \in Shells |-> shell[u]]
  BY DEF FileTypes
<1>2. shell[s] = [pc |-> shell[s].pc, cmd |-> shell[s].cmd, token |-> shell[s].token,
                  text |-> shell[s].text, fd |-> shell[s].fd]
  BY DEF FileTypes, ShellTypes
<1>3. old = [u \in Shells |-> old[u]] /\ \A u \in Shells \ {s} : old[u] = shell[u]
  BY <1>1
<1>4. old[s] = [shell[s] EXCEPT !.pc = pc]
  BY <1>1
<1>5. [shell[s] EXCEPT !.pc = pc] = x
  BY <1>2 DEF Stage
<1> HIDE DEF x, old
<1>6. old = [shell EXCEPT ![s] = x]
  BY <1>1, <1>3, <1>4, <1>5
<1> QED
  BY <1>6 DEF x, old

LEMMA GoesToText ==
  ASSUME FileTypes, NEW s \in Shells, NEW pc, NEW text,
         shell' = [shell EXCEPT ![s].pc = pc, ![s].text = text]
  PROVE  shell' = [shell EXCEPT ![s] = Stage(shell[s], pc, text, shell[s].fd)]
<1> DEFINE x == Stage(shell[s], pc, text, shell[s].fd)
           old == [shell EXCEPT ![s].pc = pc, ![s].text = text]
<1>1. shell = [u \in Shells |-> shell[u]]
  BY DEF FileTypes
<1>2. shell[s] = [pc |-> shell[s].pc, cmd |-> shell[s].cmd, token |-> shell[s].token,
                  text |-> shell[s].text, fd |-> shell[s].fd]
  BY DEF FileTypes, ShellTypes
<1>3. old = [u \in Shells |-> old[u]] /\ \A u \in Shells \ {s} : old[u] = shell[u]
  BY <1>1
<1>4. old[s] = [shell[s] EXCEPT !.pc = pc, !.text = text]
  BY <1>1
<1>5. [shell[s] EXCEPT !.pc = pc, !.text = text] = x
  BY <1>2, TextField
<1> HIDE DEF x, old
<1>6. old = [shell EXCEPT ![s] = x]
  BY <1>1, <1>3, <1>4, <1>5
<1> QED
  BY <1>6 DEF x, old

LEMMA OneMoves ==
  ASSUME FileTypes, NEW s \in Shells, NEW x, shell' = [shell EXCEPT ![s] = x]
  PROVE  /\ shell' = [u \in Shells |-> shell'[u]] /\ shell'[s] = x
         /\ \A u \in Shells \ {s} : shell'[u] = shell[u]
         /\ ShellTypes(x) => \A u \in Shells : ShellTypes(shell'[u])
<1>1. shell = [u \in Shells |-> shell[u]]
  BY DEF FileTypes
<1>2. shell' = [u \in Shells |-> shell'[u]] /\ shell'[s] = x
      /\ \A u \in Shells \ {s} : shell'[u] = shell[u]
  BY <1>1
<1> QED
  BY <1>2 DEF FileTypes

LEMMA IdleTypes == ShellTypes(Idle) /\ Idle.pc = "idle" /\ Idle.fd = None
BY EmptyText DEF ShellTypes, Idle, Stages

LEMMA OneWritten ==
  ASSUME FileTypes, NEW i \in Inodes, NEW text, IsText(text), data' = [data EXCEPT ![i] = text]
  PROVE  /\ DOMAIN data' = Inodes /\ data' = [j \in Inodes |-> data'[j]]
         /\ data'[i] = text /\ \A j \in Inodes \ {i} : data'[j] = data[j]
         /\ \A j \in Inodes : IsText(data'[j])
<1>1. data = [j \in Inodes |-> data[j]] /\ \A j \in Inodes : IsText(data[j])
  BY DEF FileTypes
<1>2. /\ DOMAIN data' = Inodes /\ data' = [j \in Inodes |-> data'[j]]
      /\ data'[i] = text /\ \A j \in Inodes \ {i} : data'[j] = data[j]
  BY <1>1
<1> QED
  BY <1>1, <1>2

LEMMA LegacyIs ==
  ASSUME FileTypes, legacy # None
  PROVE  /\ IsText(legacy) /\ ~legacy.torn
         /\ IsText(Migrated(legacy)) /\ ~Migrated(legacy).torn
<1>1. IsText(legacy) /\ ~legacy.torn
  BY InputAssumption DEF FileTypes
<1> QED
  BY <1>1, TextMigrated

LEMMA TypesInit == Init => FileTypes
<1> SUFFICES ASSUME Init
             PROVE  FileTypes
  OBVIOUS
<1>1. PICK i \in Inodes : \E first \in FirstFiles \union {None}, old \in FirstLegacy \union {None} :
         /\ names = [toml |-> IF first = None THEN None ELSE i, tmp |-> None]
         /\ data = [j \in Inodes |-> IF j = i /\ first # None THEN first ELSE Text(Nothing)]
         /\ legacy = old
  BY DEF Init
<1>2. PICK first \in FirstFiles \union {None}, old \in FirstLegacy \union {None} :
         /\ names = [toml |-> IF first = None THEN None ELSE i, tmp |-> None]
         /\ data = [j \in Inodes |-> IF j = i /\ first # None THEN first ELSE Text(Nothing)]
         /\ legacy = old
  BY <1>1
<1>3. first # None => IsText(first)
  BY <1>2, InputAssumption
<1>4. \A j \in Inodes : IsText(data[j])
  BY <1>2, <1>3, EmptyText
<1>5. shell = [s \in Shells |-> shell[s]]
      /\ \A s \in Shells : ShellTypes(shell[s]) /\ shell[s].pc = "idle"
  BY IdleTypes DEF Init
<1> QED
  <2>1. cut = FALSE /\ commands = 0 /\ kills = 0
    BY Zenon DEF Init
  <2>2. 0 \in 0..MaxCommands /\ 0 \in Nat /\ FALSE \in BOOLEAN
    BY FileAssumption
  <2> QED
    BY <1>2, <1>4, <1>5, <2>1, <2>2 DEF FileTypes

LEMMA TypesBegin ==
  ASSUME FileTypes, NEW s \in Shells, NEW cmd \in Commands, Begin(s, cmd)
  PROVE  /\ FileTypes'
         /\ shell'[s] = [Idle EXCEPT !.pc = "resolving", !.cmd = cmd, !.token = Minted(commands + 1)]
         /\ shell'[s].pc = "resolving"
<1> DEFINE x == [Idle EXCEPT !.pc = "resolving", !.cmd = cmd, !.token = Minted(commands + 1)]
<1>1. shell' = [shell EXCEPT ![s] = x] /\ UNCHANGED <<names, data, legacy, cut, kills>>
      /\ commands' = commands + 1 /\ commands < MaxCommands
  BY DEF Begin
<1>2. x = [pc |-> "resolving", cmd |-> cmd, token |-> Minted(commands + 1),
           text |-> Text(Nothing), fd |-> None]
  <2> DEFINE y == [Idle EXCEPT !.pc = "resolving"]
             z == [y EXCEPT !.cmd = cmd]
  <2>1. y = [pc |-> "resolving", cmd |-> None, token |-> None, text |-> Text(Nothing), fd |-> None]
    BY DEF Idle
  <2> HIDE DEF y
  <2>2. z = [pc |-> "resolving", cmd |-> cmd, token |-> None, text |-> Text(Nothing), fd |-> None]
    BY <2>1
  <2>3. x = [z EXCEPT !.token = Minted(commands + 1)]
    BY Zenon DEF y
  <2> HIDE DEF z, x
  <2> QED
    BY <2>2, <2>3
<1>3. Minted(commands + 1) \in Tokens /\ commands + 1 \in 0..MaxCommands
  BY <1>1, FileAssumption DEF FileTypes, Tokens
<1>4. IsCommand(cmd)
  BY DEF Begin, IsCommand
<1> HIDE DEF x
<1>5. ShellTypes(x)
  BY <1>2, <1>3, <1>4, EmptyText DEF ShellTypes, Stages
<1>6. /\ shell' = [u \in Shells |-> shell'[u]] /\ shell'[s] = x
      /\ \A u \in Shells : ShellTypes(shell'[u])
      /\ \A u \in Shells \ {s} : shell'[u] = shell[u]
  BY <1>1, <1>5, OneMoves
<1>8. x.pc = "resolving"
  BY <1>2
<1>7. FileTypes'
  BY <1>1, <1>3, <1>6, <1>8 DEF FileTypes
<1> QED
  BY <1>6, <1>7, <1>8 DEF x

(* What a shell goes to is a stage that follows.                             *)
LEMMA StageTypes ==
  ASSUME NEW x, ShellTypes(x), x.pc # "idle", NEW pc \in Stages, NEW text, IsText(text),
         NEW fd \in Inodes \union {None}, pc \in {"writing", "filling"} => fd \in Inodes
  PROVE  ShellTypes(Stage(x, pc, text, fd)) /\ Stage(x, pc, text, fd).pc = pc
BY DEF ShellTypes, Stage

-----------------------------------------------------------------------------
(* What each step does, in full.                                            *)

LEMMA ResolveDoes ==
  ASSUME FileTypes, NEW s \in Shells, Resolve(s)
  PROVE  LET x == shell[s] IN
         \/ /\ names.toml # None
            /\ shell' = [shell EXCEPT ![s] = Stage(x, "reading", x.text, x.fd)]
         \/ /\ names.toml = None /\ legacy # None
            /\ shell' = [shell EXCEPT ![s] = Stage(x, "opening", Migrated(legacy), x.fd)]
         \/ /\ names.toml = None /\ legacy = None
            /\ shell' = [shell EXCEPT ![s] = Idle]
         \/ /\ names.toml = None /\ legacy = None
            /\ x.cmd.op = "init" /\ InitAccepts(InitConfig(Nothing, x.cmd.answers, x.token))
            /\ shell' = [shell EXCEPT ![s] =
                 Stage(x, "creating",
                       Text(RenderOperatorConfig(InitConfig(Nothing, x.cmd.answers, x.token))), x.fd)]
<1> DEFINE x == shell[s]
           conf == InitConfig(Nothing, x.cmd.answers, x.token)
<1>1. Goto(s, "reading") => shell' = [shell EXCEPT ![s] = Stage(x, "reading", x.text, x.fd)]
  BY GoesTo DEF Goto
<1>2. ASSUME NEW pc, NEW text, shell' = [shell EXCEPT ![s].pc = pc, ![s].text = text]
      PROVE  shell' = [shell EXCEPT ![s] = Stage(x, pc, text, x.fd)]
  BY <1>2, GoesToText
<1>3. Ends(s) => shell' = [shell EXCEPT ![s] = Idle]
  BY DEF Ends
<1>4. \/ names.toml # None /\ Goto(s, "reading")
      \/ /\ names.toml = None /\ legacy # None
         /\ shell' = [shell EXCEPT ![s].pc = "opening", ![s].text = Migrated(legacy)]
      \/ /\ names.toml = None /\ legacy = None
         /\ \/ Ends(s)
            \/ /\ x.cmd.op = "init" /\ InitAccepts(conf)
               /\ shell' = [shell EXCEPT ![s].pc = "creating",
                                         ![s].text = Text(RenderOperatorConfig(conf))]
  BY DEF Resolve
<1> HIDE DEF conf, x
<1>5. shell' = [shell EXCEPT ![s].pc = "opening", ![s].text = Migrated(legacy)]
      => shell' = [shell EXCEPT ![s] = Stage(x, "opening", Migrated(legacy), x.fd)]
  BY <1>2
<1>6. shell' = [shell EXCEPT ![s].pc = "creating", ![s].text = Text(RenderOperatorConfig(conf))]
      => shell' = [shell EXCEPT ![s] = Stage(x, "creating", Text(RenderOperatorConfig(conf)), x.fd)]
  BY <1>2
<1> QED
  BY <1>1, <1>3, <1>4, <1>5, <1>6 DEF conf, x

LEMMA ReadDoes ==
  ASSUME FileTypes, NEW s \in Shells, Read(s)
  PROVE  LET x == shell[s]
             text == data[names.toml] IN
         \/ /\ shell' = [shell EXCEPT ![s] = Stage(x, "creating", Made(x, text), x.fd)]
            /\ x.cmd.op = "init" => InitAccepts(InitConfig(Loaded(text), x.cmd.answers, x.token))
         \/ shell' = [shell EXCEPT ![s] = Idle]
<1> DEFINE x == shell[s]
           text == data[names.toml]
           makes(new) == shell' = [shell EXCEPT ![s].pc = "creating", ![s].text = new]
<1>1. x.cmd \in Commands
  BY DEF Read, FileTypes, ShellTypes, IsCommand
<1>2. ASSUME NEW new, makes(new)
      PROVE  shell' = [shell EXCEPT ![s] = Stage(x, "creating", new, x.fd)]
  BY <1>2, GoesToText
<1>3. \/ /\ makes(Made(x, text))
         /\ x.cmd.op = "init" => InitAccepts(InitConfig(Loaded(text), x.cmd.answers, x.token))
      \/ Ends(s)
  <2>1. CASE x.cmd.op = "set"
    BY <2>1 DEF Read, Made
  <2>2. CASE x.cmd.op = "rotate"
    BY <2>2 DEF Read, Made
  <2>3. CASE x.cmd.op = "init"
    BY <2>3 DEF Read, Made
  <2> QED
    BY <1>1, <2>1, <2>2, <2>3, CommandKinds
<1> HIDE DEF makes, x, text
<1>4. makes(Made(x, text)) => shell' = [shell EXCEPT ![s] = Stage(x, "creating", Made(x, text), x.fd)]
  BY <1>2
<1> QED
  BY <1>3, <1>4 DEF Ends, x, text

LEMMA OpensDoes ==
  ASSUME FileTypes, NEW s \in Shells, NEW name \in {"toml", "tmp"}, NEW pc, Opens(s, name, pc)
  PROVE  \E i \in Inodes :
           /\ i \in IF names[name] # None THEN {names[name]} ELSE UnusedInodes
           /\ names' = IF name = "toml" THEN [toml |-> i, tmp |-> names.tmp]
                       ELSE [toml |-> names.toml, tmp |-> i]
           /\ data' = [data EXCEPT ![i] = Text(Nothing)]
           /\ shell' = [shell EXCEPT ![s] = Stage(shell[s], pc, shell[s].text, i)]
<1>0. ASSUME NEW fd
      PROVE  [shell[s] EXCEPT !.pc = pc, !.fd = fd] = Stage(shell[s], pc, shell[s].text, fd)
  <2>1. shell[s] = [pc |-> shell[s].pc, cmd |-> shell[s].cmd, token |-> shell[s].token,
                    text |-> shell[s].text, fd |-> shell[s].fd]
    BY DEF FileTypes, ShellTypes
  <2> QED
    BY <2>1, FdField
<1>1. PICK i \in IF names[name] # None THEN {names[name]} ELSE UnusedInodes :
         /\ names' = [names EXCEPT ![name] = i]
         /\ data' = [data EXCEPT ![i] = Truncated(data[i])]
         /\ shell' = [shell EXCEPT ![s].pc = pc, ![s].fd = i]
  BY DEF Opens
<1>2. i \in Inodes
  BY <1>1 DEF FileTypes, UnusedInodes
<1>3. shell' = [shell EXCEPT ![s] = Stage(shell[s], pc, shell[s].text, i)]
  <2>1. shell = [u \in Shells |-> shell[u]]
    BY DEF FileTypes
  <2>3. shell' = [u \in Shells |-> shell'[u]] /\ \A u \in Shells \ {s} : shell'[u] = shell[u]
    BY <1>1, <2>1
  <2>4. shell'[s] = [shell[s] EXCEPT !.pc = pc, !.fd = i]
    BY <1>1, <2>1
  <2>5. [shell[s] EXCEPT !.pc = pc, !.fd = i] = Stage(shell[s], pc, shell[s].text, i)
    BY <1>0
  <2> QED
    BY <2>1, <2>3, <2>4, <2>5
<1>4. names' = IF name = "toml" THEN [toml |-> i, tmp |-> names.tmp] ELSE [toml |-> names.toml, tmp |-> i]
  <2> DEFINE a == names.toml
             b == names.tmp
  <2>1. names = [toml |-> a, tmp |-> b]
    BY DEF FileTypes
  <2> HIDE DEF a, b
  <2>2. [names EXCEPT !["toml"] = i] = [toml |-> i, tmp |-> b]
    BY <2>1
  <2>3. [names EXCEPT !["tmp"] = i] = [toml |-> a, tmp |-> i]
    BY <2>1
  <2> QED
    BY <1>1, <2>2, <2>3 DEF a, b
<1>5. data' = [data EXCEPT ![i] = Text(Nothing)]
  BY <1>1 DEF Truncated
<1> QED
  BY <1>1, <1>2, <1>3, <1>4, <1>5

LEMMA FillsDoes ==
  ASSUME FileTypes, NEW s \in Shells, NEW pc, Fills(s, pc)
  PROVE  LET x == shell[s] IN
         /\ \/ data' = [data EXCEPT ![x.fd] = x.text]
            \/ data[x.fd] # Text(Nothing) /\ data' = [data EXCEPT ![x.fd] = Torn(x.text)]
         /\ shell' = [shell EXCEPT ![s] = Stage(x, pc, x.text, None)]
<1> DEFINE x == shell[s]
<1>1. \E text \in IF data[x.fd] = Text(Nothing) THEN {x.text}
                  ELSE IF data[x.fd].torn THEN {Torn(x.text)} ELSE {x.text, Torn(x.text)} :
        data' = [data EXCEPT ![x.fd] = text]
  BY DEF Fills, Torn
<1>2. shell' = [shell EXCEPT ![s].pc = pc, ![s].fd = None]
  BY DEF Fills
<1>3. shell' = [shell EXCEPT ![s] = Stage(x, pc, x.text, None)]
  <2>1. shell = [u \in Shells |-> shell[u]]
    BY DEF FileTypes
  <2>2. shell[s] = [pc |-> shell[s].pc, cmd |-> shell[s].cmd, token |-> shell[s].token,
                    text |-> shell[s].text, fd |-> shell[s].fd]
    BY DEF FileTypes, ShellTypes
  <2>3. shell' = [u \in Shells |-> shell'[u]] /\ \A u \in Shells \ {s} : shell'[u] = shell[u]
    BY <1>2, <2>1
  <2>4. shell'[s] = [shell[s] EXCEPT !.pc = pc, !.fd = None]
    BY <1>2, <2>1
  <2>5. [shell[s] EXCEPT !.pc = pc, !.fd = None] = Stage(shell[s], pc, shell[s].text, None)
    BY <2>2, FdField
  <2> QED
    BY <2>1, <2>3, <2>4, <2>5
<1> QED
  BY <1>1, <1>3

LEMMA KillDoes ==
  ASSUME FileTypes, NEW s \in Shells, Kill(s)
  PROVE  LET x == shell[s] IN
         /\ shell' = [shell EXCEPT ![s] = Idle]
         /\ \/ UNCHANGED data
            \/ x.pc = "writing" /\ data' = [data EXCEPT ![x.fd] = Torn(x.text)]
            \/ x.pc = "filling" /\ \E part \in Parts(x.text) : data' = [data EXCEPT ![x.fd] = part]
         /\ cut' = (cut \/ x.pc = "filling")
BY DEF Kill, Ends, Torn

-----------------------------------------------------------------------------

LEMMA StepTypes ==
  ASSUME FileTypes, NEW s \in Shells, NEW x, ShellTypes(x), shell' = [shell EXCEPT ![s] = x],
         x.pc \in {"filling", "reading"} => names'.toml # None,
         names' = [toml |-> names'.toml, tmp |-> names'.tmp],
         names'.toml \in Inodes \union {None}, names'.tmp \in Inodes \union {None},
         names.toml # None => names'.toml # None,
         DOMAIN data' = Inodes, data' = [i \in Inodes |-> data'[i]],
         \A i \in Inodes : IsText(data'[i]),
         UNCHANGED <<legacy, commands>>, kills' \in Nat, cut' \in BOOLEAN
  PROVE  FileTypes'
<1>1. /\ shell' = [u \in Shells |-> shell'[u]] /\ shell'[s] = x
      /\ \A u \in Shells \ {s} : shell'[u] = shell[u]
      /\ \A u \in Shells : ShellTypes(shell'[u])
  BY OneMoves
<1>2. \A u \in Shells : shell'[u].pc \in {"filling", "reading"} => names'.toml # None
  BY <1>1 DEF FileTypes
<1> QED
  BY <1>1, <1>2 DEF FileTypes

(* A step that leaves the files as they are.                                 *)
LEMMA StepsAside ==
  ASSUME FileTypes, NEW s \in Shells, NEW x, ShellTypes(x), shell' = [shell EXCEPT ![s] = x],
         x.pc \in {"filling", "reading"} => names.toml # None,
         UNCHANGED <<names, data, legacy, cut, commands, kills>>
  PROVE  FileTypes'
<1>1. /\ names' = [toml |-> names'.toml, tmp |-> names'.tmp]
      /\ names'.toml \in Inodes \union {None} /\ names'.tmp \in Inodes \union {None}
      /\ DOMAIN data' = Inodes /\ data' = [i \in Inodes |-> data'[i]]
      /\ \A i \in Inodes : IsText(data'[i])
      /\ kills' \in Nat /\ cut' \in BOOLEAN
  BY DEF FileTypes
<1> QED
  BY <1>1, StepTypes

LEMMA TypesResolve ==
  ASSUME FileTypes, NEW s \in Shells, Resolve(s)
  PROVE  FileTypes'
<1> DEFINE x == shell[s]
           conf == InitConfig(Nothing, x.cmd.answers, x.token)
<1>1. ShellTypes(x) /\ x.pc = "resolving" /\ UNCHANGED <<names, data, legacy, cut, commands, kills>>
  BY DEF FileTypes, Resolve
<1>2. x.fd \in Inodes \union {None} /\ IsText(x.text) /\ IsCommand(x.cmd) /\ x.token \in Tokens
  BY <1>1 DEF ShellTypes
<1>3. ASSUME NEW text, IsText(text), NEW pc \in {"reading", "opening", "creating"},
             pc = "reading" => names.toml # None,
             shell' = [shell EXCEPT ![s] = Stage(x, pc, text, x.fd)]
      PROVE  FileTypes'
  <2>1. ShellTypes(Stage(x, pc, text, x.fd)) /\ Stage(x, pc, text, x.fd).pc = pc
    BY <1>1, <1>2, <1>3, StageTypes DEF Stages
  <2> HIDE DEF x
  <2> QED
    BY <1>1, <1>3, <2>1, StepsAside
<1>4. CASE shell' = [shell EXCEPT ![s] = Idle]
  BY <1>1, <1>4, IdleTypes, StepsAside
<1>5. ASSUME x.cmd.op = "init"
      PROVE  IsText(Text(RenderOperatorConfig(conf)))
  <2>1. x.cmd.answers \in Answers
    BY <1>2, <1>5, CommandKinds DEF IsCommand
  <2>2. DOMAIN Nothing = {}
    BY DEF Nothing
  <2>3. conf \in [Keys -> Values]
    BY <1>2, <2>1, <2>2, InitMakes
  <2> HIDE DEF conf
  <2> QED
    BY <2>3, TextRendered
<1> HIDE DEF conf
<1>6. \/ names.toml # None /\ shell' = [shell EXCEPT ![s] = Stage(x, "reading", x.text, x.fd)]
      \/ legacy # None /\ shell' = [shell EXCEPT ![s] = Stage(x, "opening", Migrated(legacy), x.fd)]
      \/ shell' = [shell EXCEPT ![s] = Idle]
      \/ /\ x.cmd.op = "init"
         /\ shell' = [shell EXCEPT ![s] = Stage(x, "creating", Text(RenderOperatorConfig(conf)), x.fd)]
  BY ResolveDoes DEF conf
<1>7. legacy # None => IsText(Migrated(legacy))
  BY LegacyIs
<1> HIDE DEF x
<1> QED
  BY <1>2, <1>3, <1>4, <1>5, <1>6, <1>7

LEMMA TypesRead ==
  ASSUME FileTypes, NEW s \in Shells, Read(s)
  PROVE  FileTypes'
<1> DEFINE x == shell[s]
           text == data[names.toml]
           new == Made(x, text)
<1>1. ShellTypes(x) /\ x.pc = "reading" /\ UNCHANGED <<names, data, legacy, cut, commands, kills>>
  BY DEF FileTypes, Read
<1>2. x.fd \in Inodes \union {None} /\ IsCommand(x.cmd) /\ x.token \in Tokens
  BY <1>1 DEF ShellTypes
<1>3. IsText(text)
  BY <1>1 DEF FileTypes
<1>4. IsText(new)
  BY <1>2, <1>3, MadeIsText
<1> HIDE DEF new, text
<1>5. ShellTypes(Stage(x, "creating", new, x.fd)) /\ Stage(x, "creating", new, x.fd).pc = "creating"
  BY <1>1, <1>2, <1>4, StageTypes DEF Stages
<1>6. \/ shell' = [shell EXCEPT ![s] = Stage(x, "creating", new, x.fd)]
      \/ shell' = [shell EXCEPT ![s] = Idle]
  BY ReadDoes DEF new, text
<1> HIDE DEF x
<1> QED
  BY <1>1, <1>5, <1>6, IdleTypes, StepsAside

LEMMA TypesOpens ==
  ASSUME FileTypes, NEW s \in Shells, Open(s) \/ Create(s)
  PROVE  FileTypes'
<1> DEFINE x == shell[s]
           pc == IF Open(s) THEN "filling" ELSE "writing"
           name == IF Open(s) THEN "toml" ELSE "tmp"
<1>1. ShellTypes(x) /\ x.pc # "idle" /\ Opens(s, name, pc)
  BY DEF FileTypes, Open, Create
<1>2. name \in {"toml", "tmp"} /\ pc \in {"filling", "writing"} /\ (pc = "filling" => name = "toml")
  OBVIOUS
<1> HIDE DEF pc, name
<1>3. PICK i \in Inodes :
           /\ names' = IF name = "toml" THEN [toml |-> i, tmp |-> names.tmp]
                       ELSE [toml |-> names.toml, tmp |-> i]
           /\ data' = [data EXCEPT ![i] = Text(Nothing)]
           /\ shell' = [shell EXCEPT ![s] = Stage(x, pc, x.text, i)]
  BY <1>1, <1>2, OpensDoes
<1>4. ShellTypes(Stage(x, pc, x.text, i)) /\ Stage(x, pc, x.text, i).pc = pc
  BY <1>1, <1>2, StageTypes DEF Stages, ShellTypes
<1>5. DOMAIN data' = Inodes /\ data' = [j \in Inodes |-> data'[j]] /\ \A j \in Inodes : IsText(data'[j])
  BY <1>3, EmptyText, OneWritten
<1>6. /\ names' = [toml |-> names'.toml, tmp |-> names'.tmp]
      /\ names'.toml \in Inodes \union {None} /\ names'.tmp \in Inodes \union {None}
      /\ name = "toml" => names'.toml = i
      /\ names.toml # None => names'.toml # None
  BY <1>3, FileAssumption DEF FileTypes
<1>7. UNCHANGED <<legacy, cut, commands, kills>> /\ kills' \in Nat /\ cut' \in BOOLEAN
  BY <1>1 DEF Opens, FileTypes
<1>8. i # None
  BY FileAssumption
<1> HIDE DEF x
<1> QED
  BY <1>2, <1>3, <1>4, <1>5, <1>6, <1>7, <1>8, StepTypes

LEMMA TypesFills ==
  ASSUME FileTypes, NEW s \in Shells, Fill(s) \/ Write(s)
  PROVE  FileTypes'
<1> DEFINE x == shell[s]
           pc == IF Fill(s) THEN "reading" ELSE "renaming"
<1>1. /\ ShellTypes(x) /\ x.pc \in {"filling", "writing"} /\ Fills(s, pc)
      /\ pc = "reading" => names.toml # None
  BY DEF FileTypes, Fill, Write
<1>2. pc \in {"reading", "renaming"}
  OBVIOUS
<1> HIDE DEF pc
<1>3. UNCHANGED <<names, legacy, cut, commands, kills>>
  BY <1>1 DEF Fills
<1>4. data' = [data EXCEPT ![x.fd] = x.text] \/ data' = [data EXCEPT ![x.fd] = Torn(x.text)]
  BY <1>1, FillsDoes
<1>5. shell' = [shell EXCEPT ![s] = Stage(x, pc, x.text, None)]
  BY <1>1, FillsDoes
<1>6. IsText(Torn(x.text)) /\ IsText(x.text) /\ x.fd \in Inodes
  BY <1>1, TextTorn DEF ShellTypes
<1>7. ShellTypes(Stage(x, pc, x.text, None)) /\ Stage(x, pc, x.text, None).pc = pc
  BY <1>1, <1>2, <1>6, StageTypes DEF Stages
<1>8. DOMAIN data' = Inodes /\ data' = [j \in Inodes |-> data'[j]] /\ \A j \in Inodes : IsText(data'[j])
  BY <1>4, <1>6, OneWritten
<1>9. /\ names' = [toml |-> names'.toml, tmp |-> names'.tmp]
      /\ names'.toml \in Inodes \union {None} /\ names'.tmp \in Inodes \union {None}
      /\ kills' \in Nat /\ cut' \in BOOLEAN
  BY <1>3 DEF FileTypes
<1> HIDE DEF x
<1> QED
  BY <1>1, <1>2, <1>3, <1>5, <1>7, <1>8, <1>9, StepTypes

LEMMA TypesRename ==
  ASSUME FileTypes, NEW s \in Shells, Rename(s)
  PROVE  FileTypes'
<1>1. /\ UNCHANGED <<data, legacy, cut, commands, kills>> /\ kills' \in Nat /\ cut' \in BOOLEAN
      /\ shell' = [shell EXCEPT ![s] = Idle]
      /\ names' = IF names.tmp = None THEN names ELSE [toml |-> names.tmp, tmp |-> None]
  BY DEF FileTypes, Rename, Ends
<1>2. /\ names' = [toml |-> names'.toml, tmp |-> names'.tmp]
      /\ names'.toml \in Inodes \union {None} /\ names'.tmp \in Inodes \union {None}
      /\ names.toml # None => names'.toml # None
  BY <1>1 DEF FileTypes
<1> QED
  BY <1>1, <1>2, IdleTypes, StepTypes DEF FileTypes

LEMMA TypesKill ==
  ASSUME FileTypes, NEW s \in Shells, Kill(s)
  PROVE  FileTypes'
<1> DEFINE x == shell[s]
<1>1. ShellTypes(x) /\ UNCHANGED <<names, legacy, commands>> /\ kills' \in Nat
  BY DEF FileTypes, Kill
<1>2. /\ shell' = [shell EXCEPT ![s] = Idle]
      /\ \/ UNCHANGED data
         \/ x.pc = "writing" /\ data' = [data EXCEPT ![x.fd] = Torn(x.text)]
         \/ x.pc = "filling" /\ \E part \in Parts(x.text) : data' = [data EXCEPT ![x.fd] = part]
      /\ cut' = (cut \/ x.pc = "filling")
  BY KillDoes
<1>3. IsText(Torn(x.text)) /\ \A part \in Parts(x.text) : IsText(part)
  BY <1>1, TextTorn, TextPart DEF ShellTypes
<1>4. x.pc \in {"writing", "filling"} => x.fd \in Inodes
  BY <1>1 DEF ShellTypes
<1> HIDE DEF x
<1>5. DOMAIN data' = Inodes /\ data' = [j \in Inodes |-> data'[j]] /\ \A j \in Inodes : IsText(data'[j])
  <2>1. CASE UNCHANGED data
    BY <2>1 DEF FileTypes
  <2>2. CASE ~UNCHANGED data
    <3>1. PICK text : IsText(text) /\ x.fd \in Inodes /\ data' = [data EXCEPT ![x.fd] = text]
      BY <1>2, <1>3, <1>4, <2>2
    <3> QED
      BY <3>1, OneWritten
  <2> QED
    BY <2>1, <2>2
<1>6. /\ names' = [toml |-> names'.toml, tmp |-> names'.tmp]
      /\ names'.toml \in Inodes \union {None} /\ names'.tmp \in Inodes \union {None}
      /\ cut' \in BOOLEAN
  BY <1>1, <1>2 DEF FileTypes
<1> QED
  BY <1>1, <1>2, <1>5, <1>6, IdleTypes, StepTypes

LEMMA TypesNext ==
  ASSUME FileTypes, [Next]_vars
  PROVE  FileTypes'
<1>1. CASE UNCHANGED vars
  BY <1>1 DEF vars, FileTypes
<1>2. ASSUME NEW s \in Shells, NEW cmd \in Commands, Begin(s, cmd)
      PROVE  FileTypes'
  BY <1>2, TypesBegin
<1>3. ASSUME NEW s \in Shells,
             \/ Resolve(s) \/ Open(s) \/ Fill(s) \/ Read(s) \/ Create(s) \/ Write(s) \/ Rename(s)
             \/ Kill(s)
      PROVE  FileTypes'
  BY <1>3, TypesResolve, TypesRead, TypesOpens, TypesFills, TypesRename, TypesKill
<1> QED
  BY <1>1, <1>2, <1>3 DEF Next

LEMMA TypesAlways == Spec => []FileTypes
BY TypesInit, TypesNext, PTL DEF Spec

LEMMA FoundIsText ==
  ASSUME FileTypes
  PROVE  IsText(Found)
BY LegacyIs, EmptyText DEF FileTypes, Found

(* On every file, build_runtime_config_from_file and build_runtime_config     *)
(* come to the same settings, or refuse both; only a token of blanks passes   *)
(* the first and not the second.                                            *)
LEMMA OnEveryFile ==
  ASSUME NEW file
  PROVE  LET start == BuildRuntimeConfigFromFile(file)
             serve == BuildRuntimeConfig(Nothing, Nothing, file, Nothing)
         IN IF start.ok /\ IsBlank(file["auth-token"]) THEN ~serve.ok ELSE serve = start
<1> DEFINE conf == Effective(<<file>>)
<1>1. Effective(<<Nothing, Nothing, file, Nothing>>) = conf
  BY SameEffect
<1>2. IsSound(conf) => conf["auth-token"] = file["auth-token"]
  <2>1. conf["auth-token"] = IF "auth-token" \in DOMAIN file THEN file["auth-token"]
                             ELSE Default("auth-token")
    <3>1. "auth-token" \in RuntimeKeys
      BY DEF RuntimeKeys
    <3> QED
      BY <3>1, OneLayer DEF Effective
  <2>2. Default("auth-token").kind = "empty"
    BY DEF Default, Value, NumberKeys
  <2> HIDE DEF conf
  <2> QED
    BY <2>1, <2>2 DEF IsSound
<1>3. BuildRuntimeConfigFromFile(file) = IF IsSound(conf) THEN Accepted(conf) ELSE Refused
  BY DEF BuildRuntimeConfigFromFile
<1>4. BuildRuntimeConfig(Nothing, Nothing, file, Nothing) =
        IF IsSound(conf) /\ ~IsBlank(conf["auth-token"]) THEN Accepted(conf) ELSE Refused
  BY <1>1 DEF BuildRuntimeConfig
<1> HIDE DEF conf
<1>5. Accepted(conf).ok /\ ~Refused.ok
  BY DEF Accepted, Refused
<1> QED
  BY <1>2, <1>3, <1>4, <1>5

(* Whatever commands run at a time, wherever they are interrupted, and         *)
(* whatever the edits and the files of hand: the server that comes up has the  *)
(* settings that `start` saw, and does not come up just when `start` refused   *)
(* the file, or took it with a token of blanks.                              *)
THEOREM StartMeansServe == Spec => []StartAndServeAgree
<1>1. FileTypes => StartAndServeAgree
  BY OnEveryFile DEF StartAndServeAgree
<1> QED
  BY <1>1, TypesAlways, PTL

-----------------------------------------------------------------------------
(* One command at a time.                                                   *)

LEMMA WholeInit == Init => Whole
<1> SUFFICES ASSUME Init
             PROVE  Whole
  OBVIOUS
<1>1. PICK i \in Inodes, first \in FirstFiles \union {None} :
         /\ names = [toml |-> IF first = None THEN None ELSE i, tmp |-> None]
         /\ data = [j \in Inodes |-> IF j = i /\ first # None THEN first ELSE Text(Nothing)]
  BY DEF Init
<1>2. names.toml # None => names.toml # names.tmp /\ ~data[names.toml].torn
  BY <1>1, InputAssumption
<1>3. \A s \in Shells : shell[s].pc = "idle"
  BY IdleTypes DEF Init
<1>4. ~cut
  BY DEF Init
<1> QED
  BY <1>2, <1>3, <1>4 DEF Whole, OneAtATime, Making

LEMMA WholeMoves ==
  ASSUME FileTypes, OneShell, NEW s \in Shells, NEW x, shell' = [shell EXCEPT ![s] = x],
         names'.toml # None => names'.toml # names'.tmp /\ ~data'[names'.toml].torn,
         cut' => names'.toml # None,
         x.pc \in Making => IsDue(x, Found'),
         x.pc = "writing" => x.fd = names'.tmp /\ data'[x.fd] = Text(Nothing),
         x.pc = "renaming" => names'.tmp # None /\ data'[names'.tmp] = x.text,
         x.pc \in {"opening", "filling"} => legacy' # None /\ x.text = Migrated(legacy') /\ ~cut',
         x.pc = "opening" => names'.toml = None,
         x.pc = "filling" => x.fd = names'.toml /\ data'[x.fd] = Text(Nothing)
  PROVE  Whole'
<1>1. \A u \in Shells : u = s
  BY DEF OneShell
<1>2. shell'[s] = x
  BY OneMoves
<1>3. OneAtATime(shell[s])'
  BY <1>2 DEF OneAtATime
<1> QED
  BY <1>1, <1>3 DEF Whole

(* What is found, by where the one shell is.                                 *)
LEMMA FoundBy ==
  ASSUME OneShell, NEW s \in Shells
  PROVE  Found = IF names.toml # None /\ shell[s].pc # "filling" THEN data[names.toml]
                 ELSE IF legacy # None THEN Migrated(legacy) ELSE Text(Nothing)
<1>1. (\A u \in Shells : shell[u].pc # "filling") <=> shell[s].pc # "filling"
  BY DEF OneShell
<1> QED
  BY <1>1 DEF Found

LEMMA FoundThen ==
  ASSUME FileTypes, OneShell, NEW s \in Shells, NEW x, shell' = [shell EXCEPT ![s] = x]
  PROVE  Found' = IF names'.toml # None /\ x.pc # "filling" THEN data'[names'.toml]
                  ELSE IF legacy' # None THEN Migrated(legacy') ELSE Text(Nothing)
<1>1. shell'[s] = x /\ \A u \in Shells : u = s
  BY OneMoves DEF OneShell
<1> QED
  BY <1>1 DEF Found

LEMMA SameFound ==
  ASSUME FileTypes, OneShell, NEW s \in Shells, NEW x, shell' = [shell EXCEPT ![s] = x],
         shell[s].pc # "filling", x.pc # "filling",
         UNCHANGED legacy, names'.toml = names.toml,
         names.toml # None => data'[names.toml] = data[names.toml]
  PROVE  Found' = Found
<1>1. Found = IF names.toml # None THEN data[names.toml]
              ELSE IF legacy # None THEN Migrated(legacy) ELSE Text(Nothing)
  BY FoundBy
<1>2. Found' = IF names'.toml # None THEN data'[names'.toml]
               ELSE IF legacy' # None THEN Migrated(legacy') ELSE Text(Nothing)
  BY FoundThen
<1> QED
  BY <1>1, <1>2

LEMMA SameDue ==
  ASSUME NEW x, NEW pc, NEW fd, NEW found
  PROVE  /\ IsDue(Stage(x, pc, x.text, fd), found) <=> IsDue(x, found)
         /\ Made(Stage(x, pc, x.text, fd), found) = Made(x, found)
<1> DEFINE y == Stage(x, pc, x.text, fd)
<1>1. y.cmd = x.cmd /\ y.token = x.token /\ y.text = x.text
  BY DEF Stage
<1> HIDE DEF y
<1>2. (IsDue(y, found) <=> IsDue(x, found)) /\ Made(y, found) = Made(x, found)
  BY <1>1 DEF IsDue, Made
<1> QED
  BY <1>2 DEF y

LEMMA DueWhenMade ==
  ASSUME NEW x, NEW pc, NEW fd, NEW found,
         x.cmd.op = "init" => InitAccepts(InitConfig(Loaded(found), x.cmd.answers, x.token))
  PROVE  IsDue(Stage(x, pc, Made(x, found), fd), found)
<1> DEFINE text == Made(x, found)
           y == Stage(x, pc, text, fd)
<1>1. y.cmd = x.cmd /\ y.token = x.token /\ y.text = text
  BY DEF Stage
<1> HIDE DEF y
<1>2. IsDue(y, found)
  BY <1>1 DEF IsDue, Made
<1> QED
  BY <1>2 DEF y

LEMMA WholeBegin ==
  ASSUME FileTypes, OneShell, Whole, NEW s \in Shells, NEW cmd \in Commands, Begin(s, cmd)
  PROVE  Whole' /\ Found' = Found /\ UNCHANGED cut
<1> DEFINE x == [Idle EXCEPT !.pc = "resolving", !.cmd = cmd, !.token = Minted(commands + 1)]
<1>1. UNCHANGED <<names, data, legacy, cut>> /\ shell' = [shell EXCEPT ![s] = x] /\ shell[s].pc = "idle"
  BY DEF Begin
<1>2. x.pc = "resolving"
  BY TypesBegin
<1> HIDE DEF x
<1>3. Found' = Found
  BY <1>1, <1>2, SameFound
<1>4. /\ names'.toml # None => names'.toml # names'.tmp /\ ~data'[names'.toml].torn
      /\ cut' => names'.toml # None
  BY <1>1 DEF Whole
<1> QED
  BY <1>1, <1>2, <1>3, <1>4, WholeMoves DEF Making

LEMMA WholeResolve ==
  ASSUME FileTypes, OneShell, Whole, NEW s \in Shells, Resolve(s)
  PROVE  Whole' /\ Found' = Found /\ UNCHANGED cut
<1> DEFINE x == shell[s]
           conf == InitConfig(Nothing, x.cmd.answers, x.token)
<1>1. UNCHANGED <<names, data, legacy, cut>> /\ x.pc = "resolving"
  BY DEF Resolve
<1>2. /\ names'.toml # None => names'.toml # names'.tmp /\ ~data'[names'.toml].torn
      /\ cut' => names'.toml # None
  BY <1>1 DEF Whole
<1>3. ASSUME shell' = [shell EXCEPT ![s] = Stage(x, "reading", x.text, x.fd)]
      PROVE  Whole' /\ Found' = Found
  <2> DEFINE y == Stage(x, "reading", x.text, x.fd)
  <2>1. y.pc = "reading"
    BY DEF Stage
  <2> HIDE DEF y
  <2>2. shell' = [shell EXCEPT ![s] = y]
    BY <1>3 DEF y
  <2>3. Found' = Found
    BY <1>1, <2>1, <2>2, SameFound
  <2> QED
    BY <1>1, <1>2, <2>1, <2>2, <2>3, WholeMoves DEF Making
<1>4. ASSUME names.toml = None, legacy # None,
             shell' = [shell EXCEPT ![s] = Stage(x, "opening", Migrated(legacy), x.fd)]
      PROVE  Whole' /\ Found' = Found
  <2> DEFINE y == Stage(x, "opening", Migrated(legacy), x.fd)
  <2>1. y.pc = "opening" /\ y.text = Migrated(legacy)
    BY DEF Stage
  <2> HIDE DEF y
  <2>2. shell' = [shell EXCEPT ![s] = y]
    BY <1>4 DEF y
  <2>3. Found' = Found
    BY <1>1, <2>1, <2>2, SameFound
  <2> QED
    BY <1>1, <1>2, <1>4, <2>1, <2>2, <2>3, WholeMoves DEF Making
<1>5. ASSUME shell' = [shell EXCEPT ![s] = Idle]
      PROVE  Whole' /\ Found' = Found
  <2>1. Found' = Found
    BY <1>1, <1>5, IdleTypes, SameFound
  <2> QED
    BY <1>2, <1>5, <2>1, IdleTypes, WholeMoves DEF Making
<1>6. ASSUME names.toml = None, legacy = None, x.cmd.op = "init", InitAccepts(conf),
             shell' = [shell EXCEPT ![s] = Stage(x, "creating", Text(RenderOperatorConfig(conf)), x.fd)]
      PROVE  Whole' /\ Found' = Found
  <2> DEFINE y == Stage(x, "creating", Text(RenderOperatorConfig(conf)), x.fd)
  <2>1. Found = Text(Nothing) /\ Loaded(Found) = Nothing
    BY <1>6, EmptyText DEF Found
  <2>2. Text(RenderOperatorConfig(conf)) = Made(x, Found)
    BY <1>6, <2>1 DEF Made
  <2>3. IsDue(Stage(x, "creating", Made(x, Found), x.fd), Found)
    BY <1>6, <2>1, DueWhenMade
  <2>4. IsDue(y, Found) /\ y.pc = "creating"
    BY <2>2, <2>3 DEF Stage
  <2> HIDE DEF y, x
  <2>5. shell' = [shell EXCEPT ![s] = y]
    BY <1>6 DEF y
  <2>6. Found' = Found
    BY <1>1, <2>4, <2>5, SameFound DEF x
  <2> QED
    BY <1>2, <2>4, <2>5, <2>6, WholeMoves
<1> HIDE DEF conf
<1>7. \/ shell' = [shell EXCEPT ![s] = Stage(x, "reading", x.text, x.fd)]
      \/ /\ names.toml = None /\ legacy # None
         /\ shell' = [shell EXCEPT ![s] = Stage(x, "opening", Migrated(legacy), x.fd)]
      \/ shell' = [shell EXCEPT ![s] = Idle]
      \/ /\ names.toml = None /\ legacy = None /\ x.cmd.op = "init" /\ InitAccepts(conf)
         /\ shell' = [shell EXCEPT ![s] = Stage(x, "creating", Text(RenderOperatorConfig(conf)), x.fd)]
  BY ResolveDoes DEF conf
<1> QED
  BY <1>1, <1>3, <1>4, <1>5, <1>6, <1>7

LEMMA WholeRead ==
  ASSUME FileTypes, OneShell, Whole, NEW s \in Shells, Read(s)
  PROVE  Whole' /\ Found' = Found /\ UNCHANGED cut
<1> DEFINE x == shell[s]
           text == data[names.toml]
           y == Stage(x, "creating", Made(x, text), x.fd)
<1>1. UNCHANGED <<names, data, legacy, cut>> /\ x.pc = "reading" /\ names.toml # None
  BY DEF Read, FileTypes
<1>2. /\ names'.toml # None => names'.toml # names'.tmp /\ ~data'[names'.toml].torn
      /\ cut' => names'.toml # None
  BY <1>1 DEF Whole
<1>3. Found = text
  BY <1>1, FoundBy
<1>4. ASSUME shell' = [shell EXCEPT ![s] = Idle]
      PROVE  Whole' /\ Found' = Found
  <2>1. Found' = Found
    BY <1>1, <1>4, IdleTypes, SameFound
  <2> QED
    BY <1>2, <1>4, <2>1, IdleTypes, WholeMoves DEF Making
<1>5. ASSUME x.cmd.op = "init" => InitAccepts(InitConfig(Loaded(text), x.cmd.answers, x.token)),
             shell' = [shell EXCEPT ![s] = y]
      PROVE  Whole' /\ Found' = Found
  <2>1. IsDue(y, text) /\ y.pc = "creating"
    BY <1>5, DueWhenMade DEF Stage
  <2> HIDE DEF y, text
  <2>2. Found' = Found
    BY <1>1, <1>5, <2>1, SameFound
  <2> HIDE DEF x
  <2> QED
    BY <1>2, <1>3, <1>5, <2>1, <2>2, WholeMoves
<1>6. \/ /\ shell' = [shell EXCEPT ![s] = y]
         /\ x.cmd.op = "init" => InitAccepts(InitConfig(Loaded(text), x.cmd.answers, x.token))
      \/ shell' = [shell EXCEPT ![s] = Idle]
  BY ReadDoes
<1> QED
  BY <1>1, <1>4, <1>5, <1>6

LEMMA WholeOpen ==
  ASSUME FileTypes, OneShell, Whole, NEW s \in Shells, Open(s)
  PROVE  Whole' /\ Found' = Found /\ UNCHANGED cut
<1> DEFINE x == shell[s]
<1>1. x.pc = "opening" /\ Opens(s, "toml", "filling") /\ UNCHANGED <<legacy, cut>>
  BY DEF Open, Opens
<1>2. legacy # None /\ x.text = Migrated(legacy) /\ ~cut /\ names.toml = None
  BY <1>1 DEF Whole, OneAtATime
<1>3. PICK i \in Inodes :
           /\ i \in UnusedInodes
           /\ names' = [toml |-> i, tmp |-> names.tmp]
           /\ data' = [data EXCEPT ![i] = Text(Nothing)]
           /\ shell' = [shell EXCEPT ![s] = Stage(x, "filling", x.text, i)]
  BY <1>1, <1>2, OpensDoes
<1> DEFINE y == Stage(x, "filling", x.text, i)
<1>4. y.pc = "filling" /\ y.fd = i /\ y.text = Migrated(legacy)
  BY <1>2 DEF Stage
<1>5. i # None /\ i # names.tmp /\ data'[i] = Text(Nothing) /\ ~data'[i].torn
  <2>1. i # None /\ i # names.tmp
    BY <1>3, FileAssumption DEF UnusedInodes
  <2>2. data'[i] = Text(Nothing)
    BY <1>3, EmptyText, OneWritten
  <2> QED
    BY <2>1, <2>2, EmptyText
<1>6. names'.toml = i /\ names'.tmp = names.tmp /\ shell' = [shell EXCEPT ![s] = y]
  BY <1>3
<1> HIDE DEF y
<1>7. Found' = Found
  BY <1>1, <1>2, <1>4, <1>6, FoundBy, FoundThen
<1> HIDE DEF x
<1> QED
  BY <1>1, <1>2, <1>4, <1>5, <1>6, <1>7, WholeMoves DEF Making

LEMMA WholeFill ==
  ASSUME FileTypes, OneShell, Whole, NEW s \in Shells, Fill(s)
  PROVE  Whole' /\ Found' = Found /\ UNCHANGED cut
<1> DEFINE x == shell[s]
           y == Stage(x, "reading", x.text, None)
<1>1. x.pc = "filling" /\ Fills(s, "reading") /\ UNCHANGED <<names, legacy, cut>> /\ names.toml # None
  BY DEF Fill, Fills, FileTypes
<1>2. /\ legacy # None /\ x.text = Migrated(legacy) /\ ~cut
      /\ x.fd = names.toml /\ data[x.fd] = Text(Nothing) /\ names.toml # names.tmp
  BY <1>1 DEF Whole, OneAtATime
<1>3. data' = [data EXCEPT ![x.fd] = x.text] /\ shell' = [shell EXCEPT ![s] = y]
  BY <1>1, <1>2, FillsDoes
<1>4. x.fd \in Inodes /\ IsText(x.text) /\ ~x.text.torn
  BY <1>1, <1>2, LegacyIs DEF FileTypes, ShellTypes
<1>5. data'[names.toml] = x.text
  BY <1>2, <1>3, <1>4, OneWritten
<1>6. y.pc = "reading"
  BY DEF Stage
<1> HIDE DEF y
<1>7. Found' = Found
  BY <1>1, <1>2, <1>3, <1>5, <1>6, FoundBy, FoundThen
<1> HIDE DEF x
<1> QED
  BY <1>1, <1>2, <1>3, <1>4, <1>5, <1>6, <1>7, WholeMoves DEF Making

LEMMA WholeCreate ==
  ASSUME FileTypes, OneShell, Whole, NEW s \in Shells, Create(s)
  PROVE  Whole' /\ Found' = Found /\ UNCHANGED cut
<1> DEFINE x == shell[s]
<1>1. x.pc = "creating" /\ Opens(s, "tmp", "writing") /\ UNCHANGED <<legacy, cut>>
  BY DEF Create, Opens
<1>2. /\ names.toml # None => names.toml # names.tmp /\ ~data[names.toml].torn
      /\ cut => names.toml # None
  BY DEF Whole
<1>3. IsDue(x, Found)
  BY <1>1 DEF Whole, OneAtATime, Making
<1>4. PICK i \in Inodes :
           /\ i \in IF names.tmp # None THEN {names.tmp} ELSE UnusedInodes
           /\ names' = [toml |-> names.toml, tmp |-> i]
           /\ data' = [data EXCEPT ![i] = Text(Nothing)]
           /\ shell' = [shell EXCEPT ![s] = Stage(x, "writing", x.text, i)]
  BY <1>1, OpensDoes
<1>5. i # names.toml
  BY <1>2, <1>4, FileAssumption DEF UnusedInodes
<1>6. data'[i] = Text(Nothing) /\ \A j \in Inodes \ {i} : data'[j] = data[j]
  BY <1>4, EmptyText, OneWritten
<1>7. names'.toml = names.toml /\ names'.tmp = i /\ names.toml \in Inodes \union {None}
  BY <1>4 DEF FileTypes
<1> DEFINE y == Stage(x, "writing", x.text, i)
<1>8. y.pc = "writing" /\ y.fd = i
  BY DEF Stage
<1>9. IsDue(y, Found)
  BY <1>3, SameDue
<1>10. shell' = [shell EXCEPT ![s] = y]
  BY <1>4
<1> HIDE DEF y
<1>11. Found' = Found
  BY <1>1, <1>5, <1>6, <1>7, <1>8, <1>10, SameFound
<1> HIDE DEF x
<1> QED
  BY <1>1, <1>2, <1>5, <1>6, <1>7, <1>8, <1>9, <1>10, <1>11, WholeMoves

LEMMA WholeWrite ==
  ASSUME FileTypes, OneShell, Whole, NEW s \in Shells, Write(s)
  PROVE  Whole' /\ Found' = Found /\ UNCHANGED cut
<1> DEFINE x == shell[s]
           y == Stage(x, "renaming", x.text, None)
<1>1. x.pc = "writing" /\ Fills(s, "renaming") /\ UNCHANGED <<names, legacy, cut>>
  BY DEF Write, Fills
<1>2. /\ names.toml # None => names.toml # names.tmp /\ ~data[names.toml].torn
      /\ cut => names.toml # None
  BY DEF Whole
<1>3. IsDue(x, Found) /\ x.fd = names.tmp /\ data[x.fd] = Text(Nothing)
  BY <1>1 DEF Whole, OneAtATime, Making
<1>4. x.fd \in Inodes /\ IsText(x.text) /\ names.toml \in Inodes \union {None}
  BY <1>1 DEF FileTypes, ShellTypes
<1>5. data' = [data EXCEPT ![x.fd] = x.text] /\ shell' = [shell EXCEPT ![s] = y]
  BY <1>1, <1>3, FillsDoes
<1>6. data'[x.fd] = x.text /\ \A j \in Inodes \ {x.fd} : data'[j] = data[j]
  BY <1>4, <1>5, OneWritten
<1>7. y.pc = "renaming" /\ y.text = x.text
  BY DEF Stage
<1>8. IsDue(y, Found)
  BY <1>3, SameDue
<1>9. names'.tmp # None /\ data'[names'.tmp] = y.text
  BY <1>1, <1>3, <1>4, <1>6, <1>7, FileAssumption
<1>10. names.toml # None => data'[names.toml] = data[names.toml]
  BY <1>2, <1>3, <1>4, <1>6
<1> HIDE DEF y
<1>11. Found' = Found
  BY <1>1, <1>5, <1>7, <1>10, SameFound
<1> HIDE DEF x
<1> QED
  BY <1>1, <1>2, <1>5, <1>7, <1>8, <1>9, <1>10, <1>11, WholeMoves

(* What is found becomes what the command made of it.                        *)
LEMMA WholeRename ==
  ASSUME FileTypes, OneShell, Whole, NEW s \in Shells, Rename(s)
  PROVE  /\ Whole' /\ IsDue(shell[s], Found) /\ shell[s].pc = "renaming"
         /\ Found' = shell[s].text /\ names'.toml # None /\ UNCHANGED cut
         /\ ~Found.torn /\ ~Found'.torn
<1> DEFINE x == shell[s]
<1>1. UNCHANGED <<data, legacy, cut>> /\ x.pc = "renaming" /\ shell' = [shell EXCEPT ![s] = Idle]
  BY DEF Rename, Ends
<1>2. IsDue(x, Found) /\ names.tmp # None /\ data[names.tmp] = x.text
  BY <1>1 DEF Whole, OneAtATime, Making
<1>3. names' = [toml |-> names.tmp, tmp |-> None]
  BY <1>2 DEF Rename
<1>4. names'.toml = names.tmp /\ names'.tmp = None
  BY <1>3
<1>5. Found' = x.text
  BY <1>1, <1>2, <1>4, IdleTypes, FoundThen
<1>6. ~Found.torn
  BY <1>1, FoundBy, LegacyIs, EmptyText DEF Whole
<1>7. ~x.text.torn
  <2>1. IsCommand(x.cmd) /\ x.token \in Tokens
    BY <1>1 DEF FileTypes, ShellTypes
  <2> QED
    BY <1>2, <1>6, <2>1, FoundIsText, MadeIsText DEF IsDue
<1> HIDE DEF x
<1>8. Whole'
  BY <1>1, <1>2, <1>4, <1>7, IdleTypes, WholeMoves DEF Making
<1> QED
  BY <1>1, <1>2, <1>4, <1>5, <1>6, <1>7, <1>8 DEF x

(* What is found stays, but for a migration that is cut short.               *)
LEMMA WholeKill ==
  ASSUME FileTypes, OneShell, Whole, NEW s \in Shells, Kill(s)
  PROVE  /\ Whole'
         /\ \/ Found' = Found /\ UNCHANGED cut
            \/ /\ ~cut /\ cut' /\ names'.toml # None /\ ~Found.torn
               /\ Found' \in Parts(Found) \union {Text(Nothing)}
<1> DEFINE x == shell[s]
<1>1. UNCHANGED <<names, legacy>> /\ names.toml \in Inodes \union {None} /\ cut \in BOOLEAN
  BY DEF Kill, FileTypes
<1>2. /\ names.toml # None => names.toml # names.tmp /\ ~data[names.toml].torn
      /\ cut => names.toml # None
  BY DEF Whole
<1>3. /\ shell' = [shell EXCEPT ![s] = Idle]
      /\ \/ UNCHANGED data
         \/ x.pc = "writing" /\ data' = [data EXCEPT ![x.fd] = Torn(x.text)]
         \/ x.pc = "filling" /\ \E part \in Parts(x.text) : data' = [data EXCEPT ![x.fd] = part]
      /\ cut' = (cut \/ x.pc = "filling")
  BY KillDoes
<1>4. /\ x.pc = "writing" => x.fd = names.tmp /\ x.fd \in Inodes
      /\ IsText(x.text) /\ IsText(Torn(x.text))
  BY TextTorn DEF Whole, OneAtATime, FileTypes, ShellTypes
<1>5. CASE x.pc # "filling"
  <2>1. names.toml # None => data'[names.toml] = data[names.toml]
    BY <1>1, <1>2, <1>3, <1>4, <1>5, OneWritten
  <2>2. Found' = Found
    BY <1>1, <1>3, <1>5, <2>1, IdleTypes, SameFound
  <2>3. cut' = cut
    BY <1>1, <1>3, <1>5
  <2>4. /\ names'.toml # None => names'.toml # names'.tmp /\ ~data'[names'.toml].torn
        /\ cut' => names'.toml # None
    BY <1>1, <1>2, <2>1, <2>3
  <2>5. Whole'
    BY <1>3, <2>4, IdleTypes, WholeMoves DEF Making
  <2> QED
    BY <2>2, <2>3, <2>5
<1>6. CASE x.pc = "filling"
  <2>1. /\ legacy # None /\ x.text = Migrated(legacy) /\ ~cut
        /\ x.fd = names.toml /\ data[x.fd] = Text(Nothing) /\ names.toml # None /\ x.fd \in Inodes
    BY <1>6 DEF Whole, OneAtATime, FileTypes, ShellTypes
  <2>2. Found = x.text /\ ~x.text.torn
    BY <1>6, <2>1, FoundBy, LegacyIs
  <2>3. \A part \in Parts(x.text) : IsText(part) /\ ~part.torn
    BY <1>4, TextPart
  <2>4. PICK text \in Parts(x.text) \union {Text(Nothing)} : data'[names.toml] = text /\ ~text.torn
    BY <1>3, <1>6, <2>1, <2>3, EmptyText, OneWritten
  <2>5. Found' = text /\ cut'
    BY <1>1, <1>3, <1>6, <2>1, <2>4, IdleTypes, FoundThen
  <2> HIDE DEF x
  <2>6. Whole'
    BY <1>1, <1>2, <1>3, <2>1, <2>4, <2>5, IdleTypes, WholeMoves DEF Making
  <2> QED
    BY <1>1, <2>1, <2>2, <2>4, <2>5, <2>6
<1> QED
  BY <1>5, <1>6

(* A step leaves what is found as it is, or a command puts its text in place,  *)
(* or a migration is cut short.                                             *)
LEMMA WholeNext ==
  ASSUME FileTypes, OneShell, Whole, [Next]_vars
  PROVE  /\ Whole'
         /\ \/ Found' = Found /\ UNCHANGED cut
            \/ /\ ~cut /\ cut' /\ names'.toml # None /\ ~Found.torn
               /\ Found' \in Parts(Found) \union {Text(Nothing)}
            \/ \E s \in Shells : Rename(s)
<1>1. CASE UNCHANGED vars
  BY <1>1 DEF vars, Whole, OneAtATime, IsDue, Found
<1>2. ASSUME NEW s \in Shells, NEW cmd \in Commands, Begin(s, cmd)
      PROVE  Whole' /\ Found' = Found /\ UNCHANGED cut
  BY <1>2, WholeBegin
<1>3. ASSUME NEW s \in Shells,
             Resolve(s) \/ Open(s) \/ Fill(s) \/ Read(s) \/ Create(s) \/ Write(s)
      PROVE  Whole' /\ Found' = Found /\ UNCHANGED cut
  BY <1>3, WholeResolve, WholeOpen, WholeFill, WholeRead, WholeCreate, WholeWrite
<1>4. ASSUME NEW s \in Shells, Rename(s)
      PROVE  Whole'
  BY <1>4, WholeRename
<1>5. ASSUME NEW s \in Shells, Kill(s)
      PROVE  /\ Whole'
             /\ \/ Found' = Found /\ UNCHANGED cut
                \/ /\ ~cut /\ cut' /\ names'.toml # None /\ ~Found.torn
                   /\ Found' \in Parts(Found) \union {Text(Nothing)}
  BY <1>5, WholeKill
<1> QED
  BY <1>1, <1>2, <1>3, <1>4, <1>5 DEF Next

LEMMA WholeAlways == ASSUME OneShell PROVE Spec => [](FileTypes /\ Whole)
<1>1. Init => FileTypes /\ Whole
  BY TypesInit, WholeInit
<1>2. FileTypes /\ Whole /\ [Next]_vars => (FileTypes /\ Whole)'
  BY TypesNext, WholeNext
<1> QED
  BY <1>1, <1>2, PTL DEF Spec

-----------------------------------------------------------------------------
(* What a command makes of the settings.                                    *)

LEMMA LoadedEdited ==
  ASSUME NEW text, IsText(text), NEW key \in Keys, NEW v \in Values
  PROVE  Loaded(Edited(text, key, v)) =
           [k \in DOMAIN Loaded(text) \union {key} |-> IF k = key THEN v ELSE Loaded(text)[k]]
<1> DEFINE new == Edited(text, key, v)
<1>1. /\ DOMAIN new.lines = DOMAIN text.lines \union {key} /\ DOMAIN Loaded(text) = DOMAIN text.lines
      /\ \A k \in DOMAIN new.lines : new.lines[k].value = IF k = key THEN v ELSE Loaded(text)[k]
  BY TextEdited, TextLoaded
<1> HIDE DEF new
<1>2. Loaded(new) = [k \in DOMAIN new.lines |-> new.lines[k].value]
  BY DEF Loaded
<1>3. Loaded(new) = [k \in DOMAIN Loaded(text) \union {key} |-> IF k = key THEN v ELSE Loaded(text)[k]]
  BY <1>1, <1>2
<1> QED
  BY <1>3 DEF new

LEMMA LoadedRendered ==
  ASSUME NEW conf \in [Keys -> Values]
  PROVE  Loaded(Text(RenderOperatorConfig(conf))) = conf
<1> DEFINE lines == RenderOperatorConfig(conf)
<1>1. Text(lines).lines = lines
  BY DEF Text
<1>2. DOMAIN lines = Keys /\ \A k \in Keys : lines[k].value = conf[k]
  BY DEF RenderOperatorConfig, Line
<1> HIDE DEF lines
<1>3. Loaded(Text(lines)) = [k \in Keys |-> conf[k]]
  BY <1>1, <1>2 DEF Loaded
<1>4. Loaded(Text(lines)) = conf
  BY <1>3
<1> QED
  BY <1>4 DEF lines

LEMMA DueMakes ==
  ASSUME FileTypes, NEW x, ShellTypes(x), x.pc # "idle", IsDue(x, Found)
  PROVE  /\ x.cmd \in Commands /\ x.token \in Tokens
         /\ x.cmd.op = "set" =>
              Loaded(x.text) = [k \in DOMAIN Loaded(Found) \union {x.cmd.edit.key} |->
                IF k = x.cmd.edit.key THEN x.cmd.edit.value ELSE Loaded(Found)[k]]
         /\ x.cmd.op = "rotate" =>
              Loaded(x.text) = [k \in DOMAIN Loaded(Found) \union {"auth-token"} |->
                IF k = "auth-token" THEN x.token ELSE Loaded(Found)[k]]
         /\ x.cmd.op = "init" =>
              /\ Loaded(x.text) = InitConfig(Loaded(Found), x.cmd.answers, x.token)
              /\ x.cmd.answers \in Answers
              /\ InitConfig(Loaded(Found), x.cmd.answers, x.token) \in [Keys -> Values]
<1>1. x.cmd \in Commands /\ x.token \in Tokens /\ x.text = Made(x, Found) /\ IsText(Found)
  BY FoundIsText DEF ShellTypes, IsCommand, IsDue
<1>2. ASSUME x.cmd.op = "set"
      PROVE  Loaded(x.text) = [k \in DOMAIN Loaded(Found) \union {x.cmd.edit.key} |->
                IF k = x.cmd.edit.key THEN x.cmd.edit.value ELSE Loaded(Found)[k]]
  <2> DEFINE key == x.cmd.edit.key
             v == x.cmd.edit.value
  <2>1. x.text = Edited(Found, key, v)
    BY <1>1, <1>2 DEF Made
  <2>2. key \in Keys /\ v \in Values
    BY <1>1, <1>2, CommandKinds
  <2> HIDE DEF key, v
  <2>3. Loaded(Edited(Found, key, v)) =
          [k \in DOMAIN Loaded(Found) \union {key} |-> IF k = key THEN v ELSE Loaded(Found)[k]]
    <3>1. IsText(Found)
      BY FoundIsText
    <3> QED
      BY <2>2, <3>1, LoadedEdited
  <2>4. Loaded(x.text) = [k \in DOMAIN Loaded(Found) \union {key} |-> IF k = key THEN v ELSE Loaded(Found)[k]]
    BY <2>1, <2>3
  <2> QED
    BY <2>4 DEF key, v
<1>3. ASSUME x.cmd.op = "rotate"
      PROVE  Loaded(x.text) = [k \in DOMAIN Loaded(Found) \union {"auth-token"} |->
                IF k = "auth-token" THEN x.token ELSE Loaded(Found)[k]]
  <2> DEFINE t == x.token
  <2>1. x.text = Edited(Found, "auth-token", t)
    BY <1>1, <1>3 DEF Made
  <2>2. t \in Values /\ "auth-token" \in Keys
    BY <1>1, ValueTypes, KeyNames
  <2> HIDE DEF t
  <2>3. Loaded(Edited(Found, "auth-token", t)) =
          [k \in DOMAIN Loaded(Found) \union {"auth-token"} |->
             IF k = "auth-token" THEN t ELSE Loaded(Found)[k]]
    <3>1. IsText(Found)
      BY FoundIsText
    <3> QED
      BY <2>2, <3>1, LoadedEdited
  <2> QED
    BY <2>1, <2>3 DEF t
<1>4. ASSUME x.cmd.op = "init"
      PROVE  /\ Loaded(x.text) = InitConfig(Loaded(Found), x.cmd.answers, x.token)
             /\ x.cmd.answers \in Answers
             /\ InitConfig(Loaded(Found), x.cmd.answers, x.token) \in [Keys -> Values]
  <2> DEFINE conf == InitConfig(Loaded(Found), x.cmd.answers, x.token)
  <2>1. x.text = Text(RenderOperatorConfig(conf))
    BY <1>1, <1>4 DEF Made
  <2>2. x.cmd.answers \in Answers
    BY <1>1, <1>4, CommandKinds
  <2>3. DOMAIN Loaded(Found) \subseteq Keys /\ \A key \in DOMAIN Loaded(Found) : Loaded(Found)[key] \in Values
    BY <1>1, TextLoaded
  <2>4. conf \in [Keys -> Values]
    BY <1>1, <2>2, <2>3, InitMakes
  <2> HIDE DEF conf
  <2>5. Loaded(x.text) = conf
    BY <2>1, <2>4, LoadedRendered
  <2> QED
    BY <2>2, <2>4, <2>5 DEF conf
<1> QED
  BY <1>1, <1>2, <1>3, <1>4

LEMMA DueOfInit ==
  ASSUME FileTypes, NEW x, ShellTypes(x), x.pc # "idle", IsDue(x, Found), x.cmd.op = "init"
  PROVE  /\ Loaded(x.text) = InitConfig(Loaded(Found), x.cmd.answers, x.token)
         /\ x.cmd.answers \in Answers /\ x.token \in Tokens
         /\ Loaded(x.text) \in [Keys -> Values]
<1>1. /\ Loaded(x.text) = InitConfig(Loaded(Found), x.cmd.answers, x.token)
      /\ x.cmd.answers \in Answers /\ x.token \in Tokens
      /\ InitConfig(Loaded(Found), x.cmd.answers, x.token) \in [Keys -> Values]
  BY DueMakes, Zenon
<1> QED
  BY <1>1, Zenon

LEMMA RenamedIsWritten ==
  ASSUME FileTypes, OneShell, Whole, NEW s \in Shells, Rename(s)
  PROVE  Written(Found') = Loaded(shell[s].text) /\ Written(Found) = Loaded(Found)
BY WholeRename DEF Written

(* A command that reports success has put its own value in place, also when   *)
(* the key was missing or spelled otherwise: config set, token rotate and     *)
(* init, one at a time, wherever earlier ones and their migrations were       *)
(* interrupted.                                                             *)
THEOREM ReportedIsInPlace ==
  ASSUME OneShell
  PROVE  Spec => ReportedIsThere
<1> DEFINE P == \A s \in Shells :
        shell[s].pc = "renaming" /\ shell'[s].pc = "idle" /\ names' # names =>
          LET cmd == shell[s].cmd
              now == Written(Found') IN
          CASE cmd.op = "set" -> cmd.edit.key \in DOMAIN now /\ now[cmd.edit.key] = cmd.edit.value
            [] cmd.op = "rotate" -> "auth-token" \in DOMAIN now
                                    /\ now["auth-token"] = shell[s].token
            [] cmd.op = "init" -> \A key \in DOMAIN cmd.answers :
                                    key \in DOMAIN now /\ now[key] = cmd.answers[key]
<1>1. FileTypes /\ Whole /\ [Next]_vars => [P]_vars
  <2> SUFFICES ASSUME FileTypes, Whole, [Next]_vars, NEW s \in Shells,
                      shell[s].pc = "renaming", names' # names
               PROVE  LET cmd == shell[s].cmd
                          now == Written(Found') IN
                      CASE cmd.op = "set" -> cmd.edit.key \in DOMAIN now /\ now[cmd.edit.key] = cmd.edit.value
                        [] cmd.op = "rotate" -> "auth-token" \in DOMAIN now
                                                /\ now["auth-token"] = shell[s].token
                        [] cmd.op = "init" -> \A key \in DOMAIN cmd.answers :
                                                key \in DOMAIN now /\ now[key] = cmd.answers[key]
    OBVIOUS
  <2>1. \A u \in Shells : u = s
    BY DEF OneShell
  <2>2. Rename(s)
    <3>1. \A cmd \in Commands : ~Begin(s, cmd)
      BY DEF Begin
    <3>2. ~Resolve(s) /\ ~Open(s) /\ ~Fill(s) /\ ~Read(s) /\ ~Create(s) /\ ~Write(s)
      BY DEF Resolve, Open, Fill, Read, Create, Write
    <3>3. ~Kill(s) /\ ~UNCHANGED vars
      BY DEF Kill, vars
    <3> QED
      BY <2>1, <3>1, <3>2, <3>3 DEF Next
  <2> DEFINE x == shell[s]
             now == Loaded(x.text)
             was == Loaded(Found)
  <2>3. IsDue(x, Found) /\ ShellTypes(x) /\ Written(Found') = now /\ x.pc # "idle"
    BY <2>2, WholeRename, RenamedIsWritten DEF FileTypes
  <2>4. CASE x.cmd.op = "set"
    <3> DEFINE key == x.cmd.edit.key
               v == x.cmd.edit.value
    <3>1. now = [k \in DOMAIN was \union {key} |-> IF k = key THEN v ELSE was[k]]
      BY <2>3, <2>4, DueMakes
    <3> HIDE DEF now, was, key, v
    <3>2. key \in DOMAIN now /\ now[key] = v
      BY <3>1
    <3> QED
      BY <2>3, <2>4, <3>2 DEF key, v
  <2>5. CASE x.cmd.op = "rotate"
    <3> DEFINE t == x.token
    <3>1. now = [k \in DOMAIN was \union {"auth-token"} |-> IF k = "auth-token" THEN t ELSE was[k]]
      BY <2>3, <2>5, DueMakes
    <3> HIDE DEF now, was, t
    <3>2. "auth-token" \in DOMAIN now /\ now["auth-token"] = t
      BY <3>1
    <3> QED
      BY <2>3, <2>5, <3>2 DEF t
  <2>6. CASE x.cmd.op = "init"
    <3>1. /\ now = InitConfig(was, x.cmd.answers, x.token) /\ x.cmd.answers \in Answers
          /\ now \in [Keys -> Values] /\ x.token \in Tokens
      BY <2>3, <2>6, DueOfInit
    <3>2. DOMAIN was \subseteq Keys /\ \A key \in DOMAIN was : was[key] \in Values
      BY FoundIsText, TextLoaded
    <3> HIDE DEF now, was, x
    <3>3. \A key \in DOMAIN x.cmd.answers : key \in DOMAIN now /\ now[key] = x.cmd.answers[key]
      BY <3>1, <3>2, InitMakes, InputAssumption, KeyNames
    <3> QED
      BY <2>3, <2>6, <3>3 DEF x
  <2>7. x.cmd.op \in {"set", "rotate", "init"}
    BY <2>3, CommandKinds DEF ShellTypes, IsCommand
  <2> HIDE DEF now, was
  <2> QED
    BY <2>4, <2>5, <2>6, <2>7
<1>2. [][P]_vars => ReportedIsThere
  BY DEF ReportedIsThere
<1> HIDE DEF P
<1> QED
  BY <1>1, <1>2, WholeAlways, PTL DEF Spec

-----------------------------------------------------------------------------
(* The refinement.                                                          *)

LEMMA RenameIsAStep ==
  ASSUME FileTypes, OneShell, Whole, NEW s \in Shells, Rename(s)
  PROVE  Store!Edit
<1> DEFINE x == shell[s]
           was == Loaded(Found)
           now == Loaded(x.text)
<1>1. Written(Found) = was /\ Written(Found') = now
  BY RenamedIsWritten
<1>2. /\ Current = [key \in Keys |-> IF key \in DOMAIN was THEN was[key] ELSE Unset]
      /\ Current' = [key \in Keys |-> IF key \in DOMAIN now THEN now[key] ELSE Unset]
  BY <1>1 DEF Current
<1>3. DOMAIN was \subseteq Keys /\ \A key \in DOMAIN was : was[key] \in Values
  BY FoundIsText, TextLoaded
<1>4. IsDue(x, Found) /\ ShellTypes(x) /\ x.pc = "renaming"
  BY WholeRename DEF FileTypes
<1>5. IsCommand(x.cmd) /\ x.token \in Tokens /\ x.cmd \in Commands
  BY <1>4 DEF ShellTypes, IsCommand
<1>6. CASE x.cmd.op = "set"
  <2> DEFINE key == x.cmd.edit.key
             v == x.cmd.edit.value
  <2>1. x.cmd.edit \in Edits /\ key \in Keys /\ key # "auth-token"
    BY <1>5, <1>6, CommandKinds, KeyNames DEF IsCommand
  <2>2. now = [k \in DOMAIN was \union {key} |-> IF k = key THEN v ELSE was[k]]
    BY <1>4, <1>6, DueMakes
  <2> HIDE DEF key, v, now, was
  <2>3. Current' = [Current EXCEPT ![key] = v]
    BY <1>2, <1>3, <2>1, <2>2
  <2> QED
    BY <2>1, <2>3 DEF Store!Edit, Store!Put, Store!Token, key, v
<1>7. CASE x.cmd.op = "rotate"
  <2>1. now = [k \in DOMAIN was \union {"auth-token"} |-> IF k = "auth-token" THEN x.token ELSE was[k]]
    BY <1>4, <1>7, DueMakes
  <2> HIDE DEF now, was
  <2>2. Current' = [Current EXCEPT !["auth-token"] = x.token]
    BY <1>2, <1>3, <2>1, KeyNames
  <2> QED
    BY <1>5, <2>2 DEF Store!Edit, Store!Rotate, Store!Put, Store!Token, Tokens
<1>8. CASE x.cmd.op = "init"
  <2>1. now = InitConfig(was, x.cmd.answers, x.token) /\ x.cmd.answers \in Answers /\ now \in [Keys -> Values]
    BY <1>4, <1>8, DueOfInit
  <2> HIDE DEF was
  <2>2. /\ \A key \in KeptByInit \intersect DOMAIN was :
              (key = "auth-token" => ~IsBlank(was[key])) => now[key] = was[key]
        /\ ("auth-token" \in DOMAIN was => IsBlank(was["auth-token"])) => now["auth-token"] = x.token
    BY <1>3, <1>5, <2>1, InitMakes
  <2> HIDE DEF now
  <2>3. Current' = now
    BY <1>2, <2>1
  <2>4. \A key \in Keys : Current'[key] # Unset
    BY <2>1, <2>3, ValueTypes
  <2>5. \A key \in KeptByInit \ {"auth-token"} : Current[key] # Unset => Current'[key] = Current[key]
    BY <1>2, <1>3, <2>2, <2>3, KeyNames
  <2>6. IF Store!HasToken THEN Current'["auth-token"] = Current["auth-token"]
        ELSE Current'["auth-token"] \in Tokens
    <3>1. Store!HasToken <=> "auth-token" \in DOMAIN was /\ ~IsBlank(was["auth-token"])
      BY <1>2, <1>3, KeyNames, ValueTypes DEF Store!HasToken, Store!Token
    <3>2. "auth-token" \in KeptByInit
      BY DEF KeptByInit
    <3> QED
      BY <1>2, <1>5, <2>2, <2>3, <3>1, <3>2, KeyNames
  <2>7. DOMAIN Current' = Keys
    BY <1>2
  <2> QED
    BY <2>4, <2>5, <2>6, <2>7 DEF Store!Edit, Store!Reset, Store!Token, KeptByInit, Tokens
<1> QED
  BY <1>5, <1>6, <1>7, <1>8, CommandKinds

LEMMA CutIsAStep ==
  ASSUME FileTypes, ~cut, cut', ~Found.torn, Found' \in Parts(Found) \union {Text(Nothing)}
  PROVE  Store!Lose
<1>1. IsText(Found)
  BY FoundIsText
<1>2. /\ ~Found'.torn /\ IsText(Found') /\ DOMAIN Found'.lines \subseteq DOMAIN Found.lines
      /\ \A key \in DOMAIN Found'.lines : Found'.lines[key].value = Found.lines[key].value
  <2>1. CASE Found' \in Parts(Found)
    BY <1>1, <2>1, TextPart
  <2>2. CASE Found' = Text(Nothing)
    <3>1. Text(Nothing).lines = Nothing /\ ~Text(Nothing).torn /\ DOMAIN Nothing = {}
      BY EmptyText DEF Nothing
    <3> QED
      BY <2>2, <3>1, EmptyText
  <2> QED
    BY <2>1, <2>2
<1>3. Written(Found) = Loaded(Found) /\ Written(Found') = Loaded(Found')
  BY <1>2 DEF Written
<1> DEFINE was == Loaded(Found)
           now == Loaded(Found')
<1>4. DOMAIN now \subseteq DOMAIN was /\ \A key \in DOMAIN now : now[key] = was[key]
  BY <1>1, <1>2, TextLoaded
<1>5. /\ Current = [key \in Keys |-> IF key \in DOMAIN was THEN was[key] ELSE Unset]
      /\ Current' = [key \in Keys |-> IF key \in DOMAIN now THEN now[key] ELSE Unset]
  BY <1>3 DEF Current
<1> HIDE DEF was, now
<1>6. DOMAIN Current' = Keys /\ \A key \in Keys : Current'[key] \in {Current[key], Unset}
  BY <1>4, <1>5
<1> QED
  BY <1>6 DEF Store!Lose

(* The commands that edit the file, one at a time, implement a set of         *)
(* settings: config set and token rotate change one of them each, init keeps  *)
(* the token and what it found out before, and an interrupted command        *)
(* changes none, wherever it is interrupted, with one exception: while it     *)
(* writes what it makes of the legacy file, settings are lost, and only once. *)
THEOREM FileImplementsSettings ==
  ASSUME OneShell
  PROVE  Spec => EditsAreSettings
<1>1. Init => Store!Start
  BY DEF Init, Store!Start, Current
<1>2. FileTypes /\ Whole /\ [Next]_vars => [Store!Step]_<<Current, cut>>
  <2> SUFFICES ASSUME FileTypes, Whole, [Next]_vars
               PROVE  Store!Step \/ UNCHANGED <<Current, cut>>
    OBVIOUS
  <2>1. CASE Found' = Found /\ UNCHANGED cut
    BY <2>1 DEF Current
  <2>2. ASSUME NEW s \in Shells, Rename(s)
        PROVE  Store!Step
    BY <2>2, RenameIsAStep, WholeRename DEF Store!Step
  <2>3. CASE ~cut /\ cut' /\ ~Found.torn /\ Found' \in Parts(Found) \union {Text(Nothing)}
    BY <2>3, CutIsAStep DEF Store!Step
  <2> QED
    BY <2>1, <2>2, <2>3, WholeNext
<1> QED
  BY <1>1, <1>2, WholeAlways, PTL DEF Spec, EditsAreSettings, Store!Store

-----------------------------------------------------------------------------
(* What is found is something `start` takes.                                 *)

LEMMA ValidIsTaken ==
  ASSUME NEW key \in ConfigSetKeys, NEW v \in Values, IsValidAssignment(key, v)
  PROVE  IsTaken(key, v)
<1>1. CASE key \in NumberKeys
  BY <1>1 DEF IsValidAssignment, IsTaken, NumberKeys, MustBePositive, IsNumberFor
<1>2. CASE key \notin NumberKeys
  BY <1>2, KeyNames DEF IsValidAssignment, IsTaken, NumberKeys
<1> QED
  BY <1>1, <1>2

LEMMA EditedIsGood ==
  ASSUME NEW text, IsText(text), IsGood(text), NEW key \in Keys, NEW v \in Values, IsTaken(key, v),
         key = "auth-token" => v.kind # "empty"
  PROVE  /\ IsGood(Edited(text, key, v))
         /\ key = "auth-token" \/ HasToken(text) => HasToken(Edited(text, key, v))
<1> DEFINE new == Edited(text, key, v)
<1>1. /\ DOMAIN new.lines = DOMAIN text.lines \union {key}
      /\ \A k \in DOMAIN new.lines : new.lines[k].value = IF k = key THEN v ELSE text.lines[k].value
  BY TextEdited
<1> HIDE DEF new
<1>2. IsGood(new) /\ (key = "auth-token" \/ HasToken(text) => HasToken(new))
  BY <1>1 DEF IsGood, HasToken
<1> QED
  BY <1>2 DEF new

LEMMA RenderedIsGood ==
  ASSUME NEW conf \in [Keys -> Values], InitAccepts(conf), ~IsBlank(conf["auth-token"]),
         \A key \in NumberKeys \ {"port"} : conf[key] = Default(key)
  PROVE  IsGood(Text(RenderOperatorConfig(conf))) /\ HasToken(Text(RenderOperatorConfig(conf)))
<1> DEFINE new == Text(RenderOperatorConfig(conf))
<1>1. DOMAIN new.lines = Keys /\ \A k \in Keys : new.lines[k].value = conf[k]
  <2>1. /\ DOMAIN RenderOperatorConfig(conf) = Keys
        /\ \A k \in Keys : RenderOperatorConfig(conf)[k].value = conf[k]
    BY DEF RenderOperatorConfig, Line
  <2> QED
    BY <2>1, TextRendered
<1>2. \A key \in NumberKeys \ {"port"} : IsNumberFor(key, Default(key)) /\ Default(key).n > 0
  BY WidthAssumption DEF Default, Number, Value, IsNumberFor, Numerals, NumberKeys, Limit
<1>3. \A key \in {"host", "port", "expired-before"} : IsTaken(key, conf[key])
  <2>1. \A key \in {"host", "port", "expired-before"} : key \in ConfigSetKeys /\ key \in Keys
    BY DEF ConfigSetKeys, Keys, RuntimeKeys, NumberKeys
  <2> QED
    BY <2>1, ValidIsTaken DEF InitAccepts
<1>4. \A key \in Keys : IsTaken(key, conf[key])
  <2>1. ASSUME NEW key \in NumberKeys \ {"port"}
        PROVE  IsTaken(key, conf[key])
    BY <1>2 DEF IsTaken, NumberKeys
  <2>2. ASSUME NEW key \in Keys, key \notin NumberKeys, key # "host", key # "expired-before"
        PROVE  IsTaken(key, conf[key])
    BY <2>2 DEF IsTaken, NumberKeys
  <2> QED
    BY <1>3, <2>1, <2>2
<1>5. "auth-token" \in Keys /\ conf["auth-token"].kind # "empty"
  BY KeyNames DEF IsBlank
<1> HIDE DEF new
<1>6. IsGood(new) /\ HasToken(new)
  BY <1>1, <1>4, <1>5 DEF IsGood, HasToken
<1> QED
  BY <1>6 DEF new

LEMMA MadeIsGood ==
  ASSUME NEW x, IsCommand(x.cmd), x.token \in Tokens, NEW text, IsText(text), IsGood(text),
         x.cmd.op = "init" => InitAccepts(InitConfig(Loaded(text), x.cmd.answers, x.token))
  PROVE  /\ IsGood(Made(x, text))
         /\ HasToken(text) \/ x.cmd.op = "init" => HasToken(Made(x, text))
<1>1. x.cmd \in Commands
  BY DEF IsCommand
<1>2. CASE x.cmd.op = "set"
  <2> DEFINE key == x.cmd.edit.key
             v == x.cmd.edit.value
  <2>1. key \in ConfigSetKeys /\ v \in Values /\ IsValidAssignment(key, v)
    BY <1>1, <1>2, CommandKinds DEF IsCommand
  <2>2. Made(x, text) = Edited(text, key, v)
    BY <1>2 DEF Made
  <2> HIDE DEF key, v
  <2>3. IsTaken(key, v) /\ key \in Keys /\ key # "auth-token"
    BY <2>1, ValidIsTaken, KeyNames
  <2> QED
    BY <1>2, <2>1, <2>2, <2>3, EditedIsGood
<1>3. CASE x.cmd.op = "rotate"
  <2> DEFINE t == x.token
  <2>1. IsTaken("auth-token", t) /\ "auth-token" \in Keys /\ t \in Values /\ t.kind # "empty"
    BY ValueTypes, KeyNames DEF IsTaken, NumberKeys, IsBlank
  <2>2. Made(x, text) = Edited(text, "auth-token", t)
    BY <1>3 DEF Made
  <2> HIDE DEF t
  <2> QED
    BY <1>3, <2>1, <2>2, EditedIsGood
<1>4. CASE x.cmd.op = "init"
  <2> DEFINE conf == InitConfig(Loaded(text), x.cmd.answers, x.token)
  <2>1. DOMAIN Loaded(text) \subseteq Keys /\ \A key \in DOMAIN Loaded(text) : Loaded(text)[key] \in Values
    BY TextLoaded
  <2>2. x.cmd.answers \in Answers
    BY <1>1, <1>4, CommandKinds
  <2>3. conf \in [Keys -> Values] /\ ~IsBlank(conf["auth-token"])
        /\ \A key \in NumberKeys \ {"port"} : conf[key] = Default(key)
    BY <2>1, <2>2, InitMakes
  <2>4. Made(x, text) = Text(RenderOperatorConfig(conf)) /\ InitAccepts(conf)
    BY <1>4 DEF Made
  <2> HIDE DEF conf
  <2> QED
    BY <2>3, <2>4, RenderedIsGood
<1> QED
  BY <1>1, <1>2, <1>3, <1>4, CommandKinds

LEMMA EmptyIsGood == IsGood(Text(Nothing))
BY EmptyText DEF IsGood, Nothing

LEMMA MigratedIsGood ==
  ASSUME NEW text, IsText(text), IsGood(text)
  PROVE  IsGood(Migrated(text)) /\ (HasToken(text) => HasToken(Migrated(text)))
BY TextMigrated DEF IsGood, HasToken

LEMMA GoodInit == FilesAreGood /\ Init => Good
<1> SUFFICES ASSUME FilesAreGood, Init
             PROVE  Good
  OBVIOUS
<1>1. PICK i \in Inodes, first \in FirstFiles \union {None}, old \in FirstLegacy \union {None} :
         /\ names = [toml |-> IF first = None THEN None ELSE i, tmp |-> None]
         /\ data = [j \in Inodes |-> IF j = i /\ first # None THEN first ELSE Text(Nothing)]
         /\ legacy = old
  BY DEF Init
<1>2. \A s \in Shells : shell[s].pc = "idle"
  BY IdleTypes DEF Init
<1>3. names.toml # None => IsFit(Found)
  BY <1>1, <1>2 DEF Found, FilesAreGood, IsFit
<1>4. names.toml = None /\ legacy # None => IsFit(Found)
  BY <1>1, InputAssumption, MigratedIsGood DEF Found, FilesAreGood, IsFit
<1> QED
  BY <1>2, <1>3, <1>4 DEF Good, Making

LEMMA GoodMoves ==
  ASSUME FileTypes, OneShell, NEW s \in Shells, NEW x, shell' = [shell EXCEPT ![s] = x],
         x.pc \in Making => IsGood(x.text) /\ (HasToken(x.text) \/ cut'),
         names'.toml # None \/ legacy' # None => IsGood(Found') /\ (HasToken(Found') \/ cut')
  PROVE  Good'
<1>1. shell'[s] = x /\ \A u \in Shells : u = s
  BY OneMoves DEF OneShell
<1> QED
  BY <1>1 DEF Good, IsFit

LEMMA GoodBegin ==
  ASSUME FileTypes, OneShell, Whole, Good, NEW s \in Shells, NEW cmd \in Commands, Begin(s, cmd)
  PROVE  Good'
<1> DEFINE x == [Idle EXCEPT !.pc = "resolving", !.cmd = cmd, !.token = Minted(commands + 1)]
<1>1. shell' = [shell EXCEPT ![s] = x] /\ UNCHANGED <<names, data, legacy, cut>>
  BY DEF Begin
<1>2. x.pc = "resolving"
  BY TypesBegin
<1>3. names'.toml # None \/ legacy' # None => IsGood(Found') /\ (HasToken(Found') \/ cut')
  BY <1>1, WholeBegin DEF Good, IsFit
<1> HIDE DEF x
<1> QED
  BY <1>1, <1>2, <1>3, GoodMoves DEF Making

LEMMA GoodResolve ==
  ASSUME FileTypes, OneShell, Whole, Good, NEW s \in Shells, Resolve(s)
  PROVE  Good'
<1> DEFINE x == shell[s]
           conf == InitConfig(Nothing, x.cmd.answers, x.token)
<1>1. Found' = Found /\ UNCHANGED <<names, legacy, cut>> /\ x.pc = "resolving"
  BY WholeResolve DEF Resolve
<1>2. IsCommand(x.cmd) /\ x.token \in Tokens
  BY <1>1 DEF FileTypes, ShellTypes
<1>3. names'.toml # None \/ legacy' # None => IsGood(Found') /\ (HasToken(Found') \/ cut')
  BY <1>1 DEF Good, IsFit
<1>4. ASSUME NEW pc \in {"reading", "opening"}, NEW text,
             shell' = [shell EXCEPT ![s] = Stage(x, pc, text, x.fd)]
      PROVE  Good'
  <2>1. Stage(x, pc, text, x.fd).pc = pc
    BY DEF Stage
  <2> HIDE DEF x
  <2> QED
    BY <1>3, <1>4, <2>1, GoodMoves DEF Making
<1>5. CASE shell' = [shell EXCEPT ![s] = Idle]
  BY <1>3, <1>5, IdleTypes, GoodMoves DEF Making
<1>6. ASSUME x.cmd.op = "init", InitAccepts(conf),
             shell' = [shell EXCEPT ![s] = Stage(x, "creating", Text(RenderOperatorConfig(conf)), x.fd)]
      PROVE  Good'
  <2> DEFINE text == Text(RenderOperatorConfig(conf))
             y == Stage(x, "creating", text, x.fd)
  <2>1. text = Made(x, Text(Nothing))
    BY <1>6, EmptyText DEF Made
  <2>2. InitAccepts(InitConfig(Loaded(Text(Nothing)), x.cmd.answers, x.token))
    BY <1>6, EmptyText
  <2>3. IsGood(text) /\ HasToken(text)
    BY <1>2, <1>6, <2>1, <2>2, EmptyText, EmptyIsGood, MadeIsGood
  <2>4. y.text = text /\ y.pc = "creating"
    BY DEF Stage
  <2> HIDE DEF y, text
  <2>5. shell' = [shell EXCEPT ![s] = y]
    BY <1>6 DEF y, text
  <2> QED
    BY <1>3, <2>3, <2>4, <2>5, GoodMoves
<1> HIDE DEF conf
<1>7. \/ shell' = [shell EXCEPT ![s] = Stage(x, "reading", x.text, x.fd)]
      \/ shell' = [shell EXCEPT ![s] = Stage(x, "opening", Migrated(legacy), x.fd)]
      \/ shell' = [shell EXCEPT ![s] = Idle]
      \/ /\ x.cmd.op = "init" /\ InitAccepts(conf)
         /\ shell' = [shell EXCEPT ![s] = Stage(x, "creating", Text(RenderOperatorConfig(conf)), x.fd)]
  BY ResolveDoes DEF conf
<1> QED
  BY <1>4, <1>5, <1>6, <1>7

LEMMA GoodRead ==
  ASSUME FileTypes, OneShell, Whole, Good, NEW s \in Shells, Read(s)
  PROVE  Good'
<1> DEFINE x == shell[s]
           text == data[names.toml]
           y == Stage(x, "creating", Made(x, text), x.fd)
<1>1. UNCHANGED <<names, legacy, cut>> /\ x.pc = "reading" /\ names.toml # None /\ Found' = Found
  BY WholeRead, Zenon DEF Read, FileTypes
<1>2. Found = text /\ IsGood(text) /\ (HasToken(text) \/ cut) /\ IsText(text)
  <2>1. Found = text
    BY <1>1, FoundBy
  <2> QED
    BY <1>1, <2>1, FoundIsText DEF Good, IsFit
<1>3. IsCommand(x.cmd) /\ x.token \in Tokens
  BY <1>1 DEF FileTypes, ShellTypes
<1>4. CASE shell' = [shell EXCEPT ![s] = Idle]
  BY <1>1, <1>2, <1>4, IdleTypes, GoodMoves DEF Making
<1>5. ASSUME x.cmd.op = "init" => InitAccepts(InitConfig(Loaded(text), x.cmd.answers, x.token)),
             shell' = [shell EXCEPT ![s] = y]
      PROVE  Good'
  <2>1. IsGood(Made(x, text)) /\ (HasToken(text) => HasToken(Made(x, text)))
    BY <1>2, <1>3, <1>5, MadeIsGood
  <2>2. y.text = Made(x, text)
    BY DEF Stage
  <2> HIDE DEF y, x, text
  <2> QED
    BY <1>1, <1>2, <1>5, <2>1, <2>2, GoodMoves
<1>6. \/ /\ shell' = [shell EXCEPT ![s] = y]
         /\ x.cmd.op = "init" => InitAccepts(InitConfig(Loaded(text), x.cmd.answers, x.token))
      \/ shell' = [shell EXCEPT ![s] = Idle]
  BY ReadDoes
<1> QED
  BY <1>4, <1>5, <1>6

(* The halves of a write.                                                   *)
LEMMA GoodWrites ==
  ASSUME FileTypes, OneShell, Whole, Good, NEW s \in Shells,
         Open(s) \/ Fill(s) \/ Create(s) \/ Write(s)
  PROVE  Good'
<1> DEFINE x == shell[s]
<1>1. Found' = Found /\ UNCHANGED <<legacy, cut>>
  BY WholeOpen, WholeFill, WholeCreate, WholeWrite, Zenon DEF Open, Opens, Fill, Fills, Create, Write
<1>2. names'.toml # None \/ legacy' # None => IsGood(Found') /\ (HasToken(Found') \/ cut')
  <2>1. names.toml = None /\ legacy = None => names'.toml = None
    <3>1. CASE Open(s)
      BY <3>1 DEF Whole, OneAtATime, Open
    <3>2. CASE Create(s)
      <4>1. Opens(s, "tmp", "writing")
        BY <3>2 DEF Create
      <4>2. names'.toml = names.toml
        BY <4>1, OpensDoes
      <4> QED
        BY <4>2
    <3>3. CASE Fill(s) \/ Write(s)
      BY <3>3, Zenon DEF Fill, Write, Fills
    <3> QED
      BY <3>1, <3>2, <3>3
  <2> QED
    BY <1>1, <2>1 DEF Good, IsFit
<1>3. PICK pc \in {"filling", "reading", "writing", "renaming"}, fd \in Inodes \union {None} :
        /\ shell' = [shell EXCEPT ![s] = Stage(x, pc, x.text, fd)]
        /\ pc \in Making => x.pc \in Making
  <2>1. CASE Open(s)
    <3>1. Opens(s, "toml", "filling")
      BY <2>1 DEF Open
    <3>2. PICK i \in Inodes : shell' = [shell EXCEPT ![s] = Stage(x, "filling", x.text, i)]
      BY <3>1, OpensDoes
    <3> QED
      BY <3>2 DEF Making
  <2>2. CASE Create(s)
    <3>1. Opens(s, "tmp", "writing") /\ x.pc = "creating"
      BY <2>2 DEF Create
    <3>2. PICK i \in Inodes : shell' = [shell EXCEPT ![s] = Stage(x, "writing", x.text, i)]
      BY <3>1, OpensDoes
    <3> QED
      BY <3>1, <3>2 DEF Making
  <2>3. CASE Fill(s)
    <3>1. Fills(s, "reading")
      BY <2>3 DEF Fill
    <3> QED
      BY <3>1, FillsDoes DEF Making
  <2>4. CASE Write(s)
    <3>1. Fills(s, "renaming") /\ x.pc = "writing"
      BY <2>4 DEF Write
    <3> QED
      BY <3>1, FillsDoes DEF Making
  <2> QED
    BY <2>1, <2>2, <2>3, <2>4
<1> DEFINE y == Stage(x, pc, x.text, fd)
<1>4. y.pc = pc /\ y.text = x.text
  BY DEF Stage
<1>5. y.pc \in Making => IsGood(y.text) /\ (HasToken(y.text) \/ cut')
  BY <1>1, <1>3, <1>4 DEF Good, IsFit
<1>6. shell' = [shell EXCEPT ![s] = y]
  BY <1>3
<1> HIDE DEF y
<1> QED
  BY <1>2, <1>5, <1>6, GoodMoves

LEMMA GoodEnds ==
  ASSUME FileTypes, OneShell, Whole, Good, NEW s \in Shells, Rename(s) \/ Kill(s)
  PROVE  Good'
<1>1. shell' = [shell EXCEPT ![s] = Idle] /\ UNCHANGED legacy
  BY DEF Rename, Kill, Ends
<1>2. ASSUME Rename(s)
      PROVE  IsGood(Found') /\ (HasToken(Found') \/ cut')
  <2>1. shell[s].pc = "renaming" /\ Found' = shell[s].text /\ UNCHANGED cut
    BY <1>2, WholeRename
  <2> QED
    BY <2>1 DEF Good, IsFit, Making
<1>3. ASSUME Kill(s), names'.toml # None \/ legacy' # None
      PROVE  IsGood(Found') /\ (HasToken(Found') \/ cut')
  <2>1. UNCHANGED names
    BY <1>3 DEF Kill
  <2>2. IsText(Found) /\ IsFit(Found)
    BY <1>1, <1>3, <2>1, FoundIsText DEF Good
  <2>3. \A part \in Parts(Found) : IsGood(part)
    BY <2>2, TextPart DEF IsFit, IsGood
  <2> QED
    BY <1>3, <2>2, <2>3, EmptyIsGood, WholeKill DEF IsFit
<1> QED
  BY <1>1, <1>2, <1>3, IdleTypes, GoodMoves DEF Making

LEMMA GoodNext ==
  ASSUME FileTypes, OneShell, Whole, Good, [Next]_vars
  PROVE  Good'
<1>1. CASE UNCHANGED vars
  BY <1>1 DEF vars, Good, Found, IsFit
<1>2. ASSUME NEW s \in Shells, NEW cmd \in Commands, Begin(s, cmd)
      PROVE  Good'
  BY <1>2, GoodBegin
<1>3. ASSUME NEW s \in Shells,
             \/ Resolve(s) \/ Open(s) \/ Fill(s) \/ Read(s) \/ Create(s) \/ Write(s) \/ Rename(s)
             \/ Kill(s)
      PROVE  Good'
  BY <1>3, GoodResolve, GoodRead, GoodWrites, GoodEnds
<1> QED
  BY <1>1, <1>2, <1>3 DEF Next

(* `gc` takes a good file, and `start` does if it has a token.               *)
LEMMA GoodLoads ==
  ASSUME NEW text, IsText(text), IsGood(text)
  PROVE  /\ BuildRuntimeConfigFromFile(Loaded(text)).ok <=> HasToken(text)
         /\ GcAccepts(Nothing, Nothing, Loaded(text))
<1> DEFINE file == Loaded(text)
           conf == Effective(<<file>>)
<1>1. DOMAIN file = DOMAIN text.lines /\ \A key \in DOMAIN file : IsTaken(key, file[key])
  BY TextLoaded DEF IsGood
<1>2. HasToken(text) <=> "auth-token" \in DOMAIN file /\ file["auth-token"].kind # "empty"
  BY TextLoaded DEF HasToken
<1> HIDE DEF file
<1>3. \A key \in RuntimeKeys : conf[key] = IF key \in DOMAIN file THEN file[key] ELSE Default(key)
  BY OneLayer DEF Effective
<1>4. \A key \in NumberKeys : IsNumberFor(key, Default(key)) /\ Default(key).n > 0
  BY WidthAssumption DEF Default, Number, Value, IsNumberFor, Numerals, NumberKeys, Limit
<1>5. /\ ~IsBlank(Default("host")) /\ Default("auth-token").kind = "empty"
      /\ "host" \in RuntimeKeys /\ "auth-token" \in RuntimeKeys
  BY DEF IsBlank, Default, Value, NumberKeys, RuntimeKeys
<1> HIDE DEF conf
<1>6. ~IsBlank(conf["host"])
  BY <1>1, <1>3, <1>5 DEF IsTaken
<1>7. \A key \in NumberKeys : IsNumberFor(key, conf[key])
  BY <1>1, <1>3, <1>4, KeyNames DEF IsTaken
<1>8. conf["max-build-concurrency"].n > 0
  <2>1. "max-build-concurrency" \in NumberKeys /\ "max-build-concurrency" \in RuntimeKeys
    BY DEF NumberKeys, RuntimeKeys
  <2> QED
    BY <1>1, <1>3, <1>4, <2>1 DEF IsTaken
<1>9. conf["auth-token"].kind # "empty" <=> HasToken(text)
  BY <1>2, <1>3, <1>5
<1>10. BuildRuntimeConfigFromFile(file).ok <=> HasToken(text)
  <2>1. IsSound(conf) <=> HasToken(text)
    BY <1>6, <1>7, <1>8, <1>9 DEF IsSound
  <2> QED
    BY <2>1 DEF BuildRuntimeConfigFromFile, Accepted, Refused, conf
<1>11. GcAccepts(Nothing, Nothing, file)
  BY <1>1, FileLayer DEF GcAccepts, IsTaken
<1> QED
  BY <1>10, <1>11 DEF file

(* From files that have a token and values for their keys, whether or not     *)
(* TOML takes them; commands one at a time, whatever config set accepts, and  *)
(* wherever a command or a migration is interrupted: the file is never torn;  *)
(* if it parses, `gc` takes it, and `start` if and only if it has a token;    *)
(* and it has one unless a migration was cut short.                          *)
THEOREM FileStaysStartable ==
  ASSUME OneShell, FilesAreGood
  PROVE  Spec => []AlwaysStartable
<1>1. FileTypes /\ Whole /\ Good => AlwaysStartable
  <2> SUFFICES ASSUME FileTypes, Whole, Good, names.toml # None \/ legacy # None
               PROVE  /\ Parses(Found) => GcAccepts(Nothing, Nothing, Loaded(Found))
                      /\ StartAccepts(Found) <=> Parses(Found) /\ HasToken(Found)
                      /\ ~Found.torn /\ (HasToken(Found) \/ cut)
    BY DEF AlwaysStartable
  <2>1. IsText(Found) /\ IsGood(Found) /\ (HasToken(Found) \/ cut)
    BY FoundIsText DEF Good, IsFit
  <2>2. ~Found.torn
    BY LegacyIs, EmptyText DEF Found, Whole
  <2> QED
    BY <2>1, <2>2, GoodLoads DEF StartAccepts
<1>2. FilesAreGood /\ Init => Good
  BY GoodInit
<1>3. FileTypes /\ Whole /\ Good /\ [Next]_vars => Good'
  BY GoodNext
<1> QED
  BY <1>1, <1>2, <1>3, WholeAlways, PTL DEF Spec
=============================================================================
