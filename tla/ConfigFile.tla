------------------------------- MODULE ConfigFile -------------------------------
(***************************************************************************)
(* The configuration file under the commands that edit it: `config set`,     *)
(* `token rotate` and `init`.  Each reads the file, makes a new text of it,   *)
(* writes that to the one temporary name and renames it; none takes a lock.   *)
(*                                                                         *)
(* A file is its lines that assign a value; comments and blank lines are      *)
(* layout.  A URL is one that names its port, which normalize_public_base_url *)
(* leaves as it is (Urls has the others).                                    *)
(***************************************************************************)
EXTENDS Settings

CONSTANTS
  Shells,       \* terminals: each runs one command at a time
  Inodes,       \* files on disk
  None,         \* no file
  Edits,        \* what `config set` is asked: records of a key and a value
  Answers,      \* the host, port, URL and storage that `init` is given
  FirstFiles,   \* texts shortcut-forge.toml may have at first, by hand or by init
  FirstLegacy,  \* texts of a shortcut-forge.conf
  MaxCommands,  \* bound: commands begun
  MaxKills      \* bound: commands interrupted

ASSUME FileAssumption ==
  /\ MaxCommands \in Nat /\ MaxKills \in Nat
  /\ None \notin Inodes

VARIABLES
  shell,     \* the command of each terminal, where it is, and the text it made
  names,     \* the inodes of shortcut-forge.toml and of its temporary file
  data,      \* the text in each inode
  legacy,    \* shortcut-forge.conf
  cut,       \* history: a migration was interrupted while it wrote
  commands,  \* commands begun
  kills      \* commands interrupted

vars == <<shell, names, data, legacy, cut, commands, kills>>

-----------------------------------------------------------------------------
Nothing == [n \in {} |-> None]

(* The lines of a key: spelled with dashes, with underscores, in one line of   *)
(* each (the underscored one counts), or in two that are spelled alike.       *)
Spellings == {"dashed", "underscored", "both", "twice"}

(* A value without quotes, in quotes, or in quotes that TOML does not take: an *)
(* escape it does not know, or no quote at the end.                          *)
Forms == {"bare", "quoted", "raw"}

Lines == [spelling : Spellings, value : Values, form : Forms]

Line(key, v) == [spelling |-> "underscored", value |-> v,
                 form |-> IF key \in NumberKeys THEN "bare" ELSE "quoted"]

(* A text is torn if two writers mixed theirs or one did not finish; stray if   *)
(* it has lines that assign nothing, as a value with a line break leaves one.  *)
Text(lines) == [lines |-> lines, torn |-> FALSE,
                stray |-> \E key \in DOMAIN lines : lines[key].value.kind = "broken"]

IsText(text) ==
  /\ text = [lines |-> text.lines, torn |-> text.torn, stray |-> text.stray]
  /\ DOMAIN text.lines \subseteq Keys
  /\ text.lines \in [DOMAIN text.lines -> Lines]
  /\ text.torn \in BOOLEAN /\ text.stray \in BOOLEAN

(* What `init` asks for, or takes from its flags.                            *)
AnswerKeys == {"host", "port", "public-base-url", "storage"}

ASSUME InputAssumption ==
  /\ Edits \subseteq [key : Keys, value : Values]
  /\ \A answers \in Answers :
       DOMAIN answers \subseteq AnswerKeys /\ answers \in [DOMAIN answers -> Values]
  /\ \A text \in FirstFiles \union FirstLegacy : IsText(text) /\ ~text.torn

(* TOML takes integers of 64 bits, with no zero before them.                 *)
IsTomlInteger(v) == v.kind = "number" /\ v.n <= MaxInteger

(* Lines of a key that the parser does not take.                             *)
UnreadKeys(text) ==
  {key \in DOMAIN text.lines :
     LET line == text.lines[key] IN
     \/ line.spelling = "twice" \/ line.form = "raw"
     \/ line.form = "bare" /\ ~IsTomlInteger(line.value)}

Parses(text) == ~text.torn /\ ~text.stray /\ UnreadKeys(text) = {}

(* load_config_file.                                                        *)
Loaded(text) == [key \in DOMAIN text.lines |-> text.lines[key].value]

(* What is written, whether or not the parser takes all of it.               *)
Written(text) == IF text.torn THEN Nothing ELSE Loaded(text)

(* migrate_legacy_config: keys with underscores, what i64 can be parsed from  *)
(* as it is, other values in quotes, backslashes as they are.                *)
MigratedLine(line) ==
  [value |-> line.value,
   spelling |-> IF line.spelling \in {"both", "twice"} THEN "twice" ELSE "underscored",
   form |-> IF line.form # "bare" THEN line.form
            ELSE IF line.value.kind \in Numerals /\ line.value.n <= MaxInteger THEN "bare"
            ELSE IF line.value.kind = "slashed" THEN "raw" ELSE "quoted"]

Migrated(text) == [text EXCEPT !.lines = [key \in DOMAIN @ |-> MigratedLine(@[key])]]

(* What a write that does not reach its end may leave: some of the lines, the  *)
(* last of them without the end of its value, or a piece that assigns nothing. *)
Parts(text) ==
  {[lines |-> [key \in kept |-> IF key = last THEN [text.lines[key] EXCEPT !.form = "raw"]
                                ELSE text.lines[key]],
    torn |-> FALSE, stray |-> stray] :
     kept \in SUBSET DOMAIN text.lines, last \in Keys, stray \in {FALSE, TRUE}}

\* Fault: a key the file does not have is not added.
EditedIfFound(text, key, v) ==
  [text EXCEPT !.lines = [k \in DOMAIN @ |-> IF k = key THEN Line(key, v) ELSE @[k]]]

(* update_config_file_value: each line with the key, however it is spelled, is *)
(* replaced, or one is added; the second line of a broken value stays.       *)
Edited(text, key, v) ==
  LET lines == text.lines
      new == IF key \in DOMAIN lines /\ lines[key].spelling \in {"both", "twice"}
               THEN [Line(key, v) EXCEPT !.spelling = "twice"] ELSE Line(key, v)
  IN [lines |-> [k \in DOMAIN lines \union {key} |-> IF k = key THEN new ELSE lines[k]],
      torn |-> text.torn, stray |-> text.stray \/ v.kind = "broken"]

-----------------------------------------------------------------------------
(* init.                                                                    *)

\* Fault: the age for gc goes back to its default.
KeptByInitAlone == {"auth-token", "cherri-bin", "shortcuts-bin"}

KeptByInit == {"auth-token", "cherri-bin", "shortcuts-bin", "expired-before"}

(* generate_service_auth_token: the token of the command that begins as n-th. *)
Minted(n) == Value("text", 100 + n)

(* What init finds of a file that exists; a token of blanks counts for none. *)
KeptFrom(existing) ==
  [key \in {k \in KeptByInit \intersect DOMAIN existing :
              k = "auth-token" => ~IsBlank(existing[k])} |-> existing[key]]

InitDefault(key, token) ==
  CASE key = "auth-token" -> token
    [] key = "expired-before" -> Value("age", 1)
    [] OTHER -> Default(key)

InitConfig(existing, answers, token) ==
  [key \in Keys |->
     IF key \in DOMAIN KeptFrom(existing) THEN KeptFrom(existing)[key]
     ELSE IF key \in DOMAIN answers THEN answers[key]
     ELSE InitDefault(key, token)]

(* What init validates: what it asked for, and what it keeps.                *)
InitAccepts(conf) ==
  \A key \in {"host", "port", "public-base-url", "storage", "cherri-bin", "shortcuts-bin",
              "expired-before"} : IsValidAssignment(key, conf[key])

RenderOperatorConfig(conf) == [key \in Keys |-> Line(key, conf[key])]

-----------------------------------------------------------------------------

Commands ==
  [op : {"set"}, edit : Edits] \union [op : {"rotate"}] \union [op : {"init"}, answers : Answers]

Idle == [pc |-> "idle", cmd |-> None, token |-> None, text |-> Text(Nothing), fd |-> None]

Init ==
  /\ shell = [s \in Shells |-> Idle]
  /\ \E i \in Inodes :
       \E first \in FirstFiles \union {None}, old \in FirstLegacy \union {None} :
         /\ names = [toml |-> IF first = None THEN None ELSE i, tmp |-> None]
         /\ data = [j \in Inodes |-> IF j = i /\ first # None THEN first ELSE Text(Nothing)]
         /\ legacy = old
  /\ cut = FALSE /\ commands = 0 /\ kills = 0

Goto(s, pc) == shell' = [shell EXCEPT ![s].pc = pc]

Ends(s) == shell' = [shell EXCEPT ![s] = Idle]

UnusedInodes ==
  Inodes \ ({names["toml"], names["tmp"]} \union {shell[s].fd : s \in Shells})

(* A command that is not refused at once.                                    *)
Begin(s, cmd) ==
  /\ shell[s].pc = "idle" /\ commands < MaxCommands
  /\ cmd.op = "set" => /\ cmd.edit.key \in ConfigSetKeys
                       /\ IsValidAssignment(cmd.edit.key, cmd.edit.value)
  /\ shell' = [shell EXCEPT ![s] = [Idle EXCEPT !.pc = "resolving", !.cmd = cmd,
                                               !.token = Minted(commands + 1)]]
  /\ commands' = commands + 1
  /\ UNCHANGED <<names, data, legacy, cut, kills>>

(* resolve_config_path; without any file init makes one, the others fail.     *)
Resolve(s) ==
  /\ shell[s].pc = "resolving"
  /\ \/ names["toml"] # None /\ Goto(s, "reading")
     \/ /\ names["toml"] = None /\ legacy # None
        /\ shell' = [shell EXCEPT ![s].pc = "opening", ![s].text = Migrated(legacy)]
     \/ /\ names["toml"] = None /\ legacy = None
        /\ IF shell[s].cmd.op # "init" THEN Ends(s)
           ELSE LET conf == InitConfig(Nothing, shell[s].cmd.answers, shell[s].token) IN
                IF InitAccepts(conf)
                  THEN shell' = [shell EXCEPT ![s].pc = "creating",
                                              ![s].text = Text(RenderOperatorConfig(conf))]
                  ELSE Ends(s)
  /\ UNCHANGED <<names, data, legacy, cut, commands, kills>>

(* The file is read and the new text made; init wants a file that parses, and *)
(* the operator's leave to write over it.                                    *)
Read(s) ==
  /\ shell[s].pc = "reading"
  /\ LET text == data[names["toml"]]
         cmd == shell[s].cmd
         config == InitConfig(Loaded(text), cmd.answers, shell[s].token)
         makes(new) == shell' = [shell EXCEPT ![s].pc = "creating", ![s].text = new]
     IN \/ cmd.op = "set" /\ makes(Edited(text, cmd.edit.key, cmd.edit.value))
        \/ cmd.op = "rotate" /\ makes(Edited(text, "auth-token", shell[s].token))
        \/ /\ cmd.op = "init" /\ Parses(text)
           /\ InitAccepts(config)
           /\ makes(Text(RenderOperatorConfig(config)))
        \/ cmd.op = "init" /\ Ends(s)
  /\ UNCHANGED <<names, data, legacy, cut, commands, kills>>

-----------------------------------------------------------------------------
(* The two halves of a write to a file by its name.                          *)

\* Fault: a file that is there is not emptied.
TruncatedNot(text) == [text EXCEPT !.torn = text # Text(Nothing)]

Truncated(text) == Text(Nothing)

(* File::create makes the file, or empties the one that has the name.         *)
Opens(s, name, pc) ==
  /\ \E i \in IF names[name] # None THEN {names[name]} ELSE UnusedInodes :
       /\ names' = [names EXCEPT ![name] = i]
       /\ data' = [data EXCEPT ![i] = Truncated(@)]
       /\ shell' = [shell EXCEPT ![s].pc = pc, ![s].fd = i]
  /\ UNCHANGED <<legacy, cut, commands, kills>>

(* write_all: from the start of the file, over a text that somebody has put    *)
(* there since.                                                             *)
Fills(s, pc) ==
  /\ LET i == shell[s].fd
         mixed == [shell[s].text EXCEPT !.torn = TRUE] IN
     /\ data' \in {[data EXCEPT ![i] = t] :
                     t \in IF data[i] = Text(Nothing) THEN {shell[s].text}
                           ELSE IF data[i].torn THEN {mixed} ELSE {shell[s].text, mixed}}
     /\ shell' = [shell EXCEPT ![s].pc = pc, ![s].fd = None]
  /\ UNCHANGED <<names, legacy, cut, commands, kills>>

(* migrate_legacy_config: std::fs::write of the file itself.                 *)
Open(s) == shell[s].pc = "opening" /\ Opens(s, "toml", "filling")

Fill(s) == shell[s].pc = "filling" /\ Fills(s, "reading")

(* atomic_write_restricted_file: a temporary file first.                     *)
Create(s) == shell[s].pc = "creating" /\ Opens(s, "tmp", "writing")

Write(s) == shell[s].pc = "writing" /\ Fills(s, "renaming")

(* chmod and rename go by name: what has the temporary name becomes the file. *)
Rename(s) ==
  /\ shell[s].pc = "renaming"
  /\ names' = IF names["tmp"] = None THEN names ELSE [toml |-> names["tmp"], tmp |-> None]
  /\ Ends(s)
  /\ UNCHANGED <<data, legacy, cut, commands, kills>>

(* The command is interrupted, or one of its operations fails.               *)
Kill(s) ==
  /\ shell[s].pc # "idle" /\ kills < MaxKills
  /\ kills' = kills + 1
  /\ Ends(s)
  /\ LET leaves(t) == data' = [data EXCEPT ![shell[s].fd] = t] IN
     \/ UNCHANGED data
     \/ shell[s].pc = "writing" /\ leaves([shell[s].text EXCEPT !.torn = TRUE])
     \/ shell[s].pc = "filling" /\ \E part \in Parts(shell[s].text) : leaves(part)
  /\ cut' = (cut \/ shell[s].pc = "filling")
  /\ UNCHANGED <<names, legacy, commands>>

Next ==
  \E s \in Shells :
    \/ \E cmd \in Commands : Begin(s, cmd)
    \/ Resolve(s) \/ Open(s) \/ Fill(s) \/ Read(s) \/ Create(s) \/ Write(s) \/ Rename(s)
    \/ Kill(s)

Spec == Init /\ [][Next]_vars

-----------------------------------------------------------------------------

(* What there is to find: the file, or what the migration makes of the legacy *)
(* one, also while it is at that.                                            *)
Found ==
  IF names["toml"] # None /\ \A s \in Shells : shell[s].pc # "filling" THEN data[names["toml"]]
  ELSE IF legacy # None THEN Migrated(legacy) ELSE Text(Nothing)

HasToken(text) == "auth-token" \in DOMAIN text.lines /\ text.lines["auth-token"].value.kind # "empty"

StartAccepts(text) == Parses(text) /\ BuildRuntimeConfigFromFile(Loaded(text)).ok

(* Whatever `config set` accepts, and wherever a command is interrupted: a    *)
(* file that parses is one that `gc` takes, and `start` as well if it has a   *)
(* token; it is never torn, and only a migration that was cut short takes the *)
(* token away.  (What the commands write and TOML does not parse is what      *)
(* UnreadKeys and stray name: numbers beyond i64 or with zeros before them, a *)
(* key twice, a legacy backslash, a line break.)                             *)
AlwaysStartable ==
  names["toml"] # None \/ legacy # None =>
    /\ Parses(Found) => GcAccepts(Nothing, Nothing, Loaded(Found))
    /\ StartAccepts(Found) <=> Parses(Found) /\ HasToken(Found)
    /\ ~Found.torn /\ (HasToken(Found) \/ cut)

(* A file that `start` takes makes the server come up with the settings that  *)
(* `start` saw, with one exception: a token of blanks, which can only have    *)
(* been written by hand, `start` takes and `serve` refuses.                  *)
StartAndServeAgree ==
  Parses(Found) =>
    LET start == BuildRuntimeConfigFromFile(Loaded(Found))
        serve == BuildRuntimeConfig(Nothing, Nothing, Loaded(Found), Nothing)
        token == Loaded(Found)["auth-token"]
    IN IF start.ok /\ IsBlank(token) THEN ~serve.ok ELSE serve = start

(* A command that reports success has put its own value in place, also when   *)
(* the key was missing or spelled otherwise.                                 *)
ReportedIsThere ==
  [][\A s \in Shells : shell[s].pc = "renaming" /\ shell'[s].pc = "idle" /\ names' # names =>
       LET cmd == shell[s].cmd
           now == Written(Found') IN
       CASE cmd.op = "set" -> cmd.edit.key \in DOMAIN now /\ now[cmd.edit.key] = cmd.edit.value
         [] cmd.op = "rotate" -> "auth-token" \in DOMAIN now
                                 /\ now["auth-token"] = shell[s].token
         [] cmd.op = "init" -> \A key \in DOMAIN cmd.answers :
                                 key \in DOMAIN now /\ now[key] = cmd.answers[key]]_vars

-----------------------------------------------------------------------------
(* Refinement: the commands edit a set of settings.                          *)

Unset == Value("unset", 0)

Current ==
  [key \in Keys |-> IF key \in DOMAIN Written(Found) THEN Written(Found)[key] ELSE Unset]

Store == INSTANCE SettingsStore WITH
  settings <- Current, cut <- cut, SettingKeys <- Keys, Unset <- Unset, Requests <- Edits,
  Kept <- {"auth-token", "cherri-bin", "shortcuts-bin", "expired-before"},
  Tokens <- {Minted(n) : n \in 1..MaxCommands}, Blanks <- {v \in Values : IsBlank(v)}

(* Each change of the settings is the whole effect of one command: no command *)
(* changes what it is not about, loses an earlier edit, or drops the token.   *)
(* Only a migration that is cut short takes settings away, and at most once.  *)
EditsAreSettings == Store!Store
=============================================================================
