# Shortcut Forge in TLA+

Shortcut Forge is a Rust service that compiles Cherri source into a signed iOS
shortcut, keeps the result under a build id and hands out download links that
expire. This directory holds TLA+ models of it, the TLC configurations that
check them, and theorems that TLAPS proves. Paths below are those of the
repository (`src/build_lifecycle.rs` is its Rust file).

## 1. The system

### Components

| Component | State it keeps | Operations | Talks to |
|---|---|---|---|
| Build lifecycle, `build_lifecycle.rs` | lock table (one async mutex per build id), semaphore of build slots | `submit`: `decide`, `run_renewal`, `run_rebuild`, `complete_*` | storage, pipeline, the clock, the toolchain probe; called by the API |
| Build pipeline, `build.rs` | a private directory per attempt, a running child process | `run_build_pipeline`, `run_command_with_timeout`, `probe_toolchain`, `TempDirCleanup` | `cherri`, `shortcuts sign`, the file system |
| Storage, `store.rs` | `builds/<xx>/<id>/{metadata.json, artifact.shortcut}`, `tmp/` | `save_metadata`, `load_metadata`, `persist_artifact`, `scan_metadata`, `resolve_download`, `prune_tokens`, `run_gc` | the file system only |
| HTTP API, `api.rs`, `http.rs`, `error.rs` | none of its own | health, POST build, GET metadata, GET download, authentication, request parsing | lifecycle, storage, health cache |
| Server state, `state.rs` | `flock` on `<storage>/.lock`, cached toolchain | `StorageLock::acquire`, `get_cached_toolchain` | other server processes, the probe |
| Data model, `model.rs` | none | metadata JSON, statuses, RFC 3339, `now_unix` | used by all |
| Configuration, `config.rs` | the TOML file and its legacy `.conf` | precedence, validation, migration, ages | read at the start of every command; `serve` and `start` each have their own way to build it |
| Operator CLI, `operator.rs` | the configuration file, the LaunchAgent plist and job | init, doctor, start, stop, restart, config set, token rotate; status, logs, smoke, build and `config show` only read and print | launchd, the file system, the server over HTTP |
| Entry, `main.rs`, `cli.rs` | none | argument parsing, dispatch, `serve`, `gc` | all of the above |

### How they interact

A POST is authenticated, parsed and given to `BuildLifecycle::submit`. It waits
for the mutex of its build id, reads the build's metadata and the clock, probes
the tools, and then either *renews* (adds a token to a ready build) or
*rebuilds* (takes a slot or is refused, runs the two tools, replaces the
artifact, saves the metadata). The metadata is computed from what was read
before the tools ran. A GET of a link scans the metadata of every build and
then reads the artifact; it takes no lock. The `gc` command is another process
and takes no lock either. The operator commands change the configuration file
and restart the server through launchd.

### What is hard, and what makes each component correct

* **Lifecycle.** Tasks interleave at every `.await`; a client that disconnects
  drops the future there; the process can die between two file operations;
  every file operation can fail, before or after its effect. Correct: no update
  of the metadata is lost, no revoked link comes back, a 200 is only given for
  something that can be downloaded, slots and private directories are always
  returned, every waiting submission ends.
* **Ids.** An id is a truncated digest: two sources may share one. Correct:
  neither overwrites, or is served as, the other.
* **Downloads.** The scan, the check that the file exists and the read of the
  file are separate. Correct: a link yields its own source's file, never after
  its expiry, and always while it stays valid.
* **gc.** It decides on an old scan. Correct: it removes expired builds only.
* **Files.** Power may fail between any two operations. Correct: a file is the
  old one or the new one, and what was reported done stays done.
* **Service control.** A job that launchd restarts, a server by hand beside it,
  a migration that is not atomic, a port and a lock. Correct: one server per
  storage, a restart applies the configuration, the token is not lost but in a migration
  that is cut short, and when `doctor` says that all is well, it is, or no server takes
  the file.
* **Configuration.** Several commands read, change and write one file without a
  lock and through one temporary name; two functions build a configuration from
  it. Correct: a command changes what it is about and nothing else, and a file
  that TOML reads can be started with, whatever `config set` has accepted.
* **Tools and probes.** A timeout races the exit of a child whose number may be
  used again; a probe blocks its thread, and the health cache is locked meanwhile.
  Correct: a tool that timed out is gone with what it started, no signal goes
  astray, probes are rationed, every run and every health request ends.
* **Numbers and texts.** Widths of ages and timestamps, boundaries of `<` and
  `<=`, the calendar; quoting in JSON, TOML and XML; URLs with and without ports.
  Correct: what is written is read back, a link leads to the service, `gc` takes what
  is older than it is told, a request is judged by its limits. Where the code falls
  short of this, the properties say exactly where.

`PROJECT.json` lists each hazard at its line with the properties that cover it.

## 2. Modules

| Module | What it is |
|---|---|
| `BuildLifecycle` | the submissions: locks, slots, files, failures, disconnects, crashes |
| `BuildRegistry` | what they promise: builds that change atomically |
| `ForgeService` | `BuildLifecycle` with downloads and `gc` |
| `DurableFile` | one file replaced by write, flush and rename, with losses of power |
| `DurableCell` | what that promises: an atomic value |
| `ServiceControl` | commands, launchd, server processes, the configuration file, the storage lock |
| `ToolProcesses` | runs of tools under a timeout, process groups, probes, the health cache |
| `Settings` | layers, validation and the two ways to build a configuration |
| `ConfigFile` | `Settings` in a file that `init`, `config set` and `token rotate` edit |
| `SettingsStore` | what those commands promise: settings that change one command at a time |
| `Timestamps`, `StoredMetadata`, `Texts`, `Urls`, `Ages`, `ApiFront` | the pure parts: RFC 3339, metadata as JSON, quoting and escaping, URLs, ages, and what a request must pass before a handler acts |
| `Conversions` | those six, each compared with a reference |
| `BuildLifecycle_proofs`, `BuildRecords_proofs` | theorems about `BuildLifecycle`: control and data |
| `ForgeService_proofs`, `DurableFile_proofs`, `ServiceControl_proofs`, `ToolProcesses_proofs`, `ConfigFile_proofs`, `Conversions_proofs` | theorems about the module named first |
| `MC...` | instances for TLC of the module named after `MC` |

`ForgeService` extends `BuildLifecycle`, `ConfigFile` extends `Settings`, and
`Conversions` the six modules it compares; `BuildLifecycle`, `DurableFile` and
`ConfigFile` each have an `INSTANCE` of their abstract specification.

### BuildLifecycle

One task is one handler of POST /api/builds. Its `pc` says between which two
points at which others can act it is:

| `pc` | in the code | leaves by |
|---|---|---|
| `waiting` | `per_id_lock(id).lock().await` (`submit`) | `Lock`, `LeaveQueue` |
| `loading` | start of `decide` | `Load`: clock, metadata, collision |
| `probing` | `probe_toolchain` | `Probe`: renewal, rebuild or TOOL_UNAVAILABLE |
| `renewing` | `run_renewal` | `SaveReady` |
| `acquiring` | `try_acquire_slot` | `Refuse`, `StartBuild` |
| `compiling`, `signing` | the two `child.wait()` of the pipeline | `CompileEnds`, `SignEnds`, `BuildFails`, `LeaveBuild` |
| `persisting` | `persist_artifact` | `PersistArtifact` |
| `publishing` | `save_metadata` of a ready build | `SaveReady` |
| `failing`, `recording` | removal of the artifact, `save_metadata` of a failed build | `RemoveArtifact`, `SaveFailed` |

`ctx` is `BuildLifecycleDecisionContext`: it is filled in `Load` and `Probe` and
everything saved later is computed from it. `holder` and `free` are the lock
table and the semaphore; `meta`, `artifact` and `tmp` the storage directory;
`children` the running tools, those nobody waits for included. `Crash` clears
what is in memory and keeps the disk and the running tools. A write of a file
has three outcomes: done, failed without effect, failed after its effect (the
flush of the directory failed). `issued` is what clients hold.

Abstractions: a source, an id and a fingerprint are model values and `IdOf`
maps sources to ids in any way, so that collisions are possible; a token is the
number of its request (tokens are random and never repeat); `name`,
`updated_at`, `error` and `size` are left out of the metadata, because nothing reads
them to decide; the error codes of a failed pipeline are one `BUILD_ERROR`; the
clock does not go back; removals in `tmp/` do not fail; a file is replaced in
one step, which is what `DurableFile` is there to justify; a metadata file that
cannot be read or parsed is the first alternative of `Load`.

### ForgeService

`ServerNext` is a step of `BuildLifecycle`, `GetNext` one of a download,
`GcNext` one of the `gc` process. A download reads the clock, visits the builds
in any order (`GetVisit` is `exists()`, `GetOpen` is `read()` and the match),
then looks for the file of the build it found (`GetResolve`) and reads it
(`GetRead`). `gc` scans all builds, then for each victim lists the directory
and unlinks its files one at a time in any order, as `remove_dir_all` does.
`steady` is a history variable that records whether a link was valid in every
state of its download. `GcWhileServing` says whether submissions are handled
while `gc` runs. `MetadataView` is what GET /api/builds/<id> says of a build at a
given time: `StatusForApi` and the number of active links. `Works` is what
`resolve_download` makes of a link at that time, the look for the file included.
`ViewAgreesWithLinks` compares the two. The code counts links by the metadata alone, so
that the count is right as long as the file is there; when a failed rebuild or a `gc` that
did not finish has removed it, the build is still called ready, with active links, and
serves none.

### DurableFile

An inode is a few chunks, each of some replacement or missing; `safe` is what of
it was flushed; `kept` is the set of states of the directory a loss of power can
leave, in the order the changes were made. `HomeIsKept` says whether the
directory itself is on stable storage. The same protocol is in
`store.rs::atomic_write`, `store.rs::persist_artifact` and
`operator.rs::atomic_write_restricted_file`.

### ServiceControl

A process is a command in a terminal (`Shells`) or a server (`Pids`), which is
the instance of the job or was started by hand. Its `pc` is the next thing it
does that others can see:

| `pc` | in the code | action |
|---|---|---|
| `resolve` | `resolve_config_path`, or the migration in `run_init` | `Resolve` |
| `create`, `fill` | the two halves of `std::fs::write` in `migrate_legacy_config` | `Create`, `Fill` |
| `read` | `load_config_file` and what the process makes of it | `Read` |
| `write` | `update_config_file_value`, or the end of `run_init` | `Update`, `Initialize` |
| `status` | `launch_agent_status` and the `launchctl` command that follows | `Bootstrap`, `RestartStarts`, `Kickstart`, `Stop` |
| `look` | the checks of `run_doctor` on the configuration, the machine and the job | `Look` |
| `try`, `listening` | `TcpListener::bind` of `doctor`, and the time it has the port | `TryPort` |
| `report` | `probe_local_health`, and the report | `Report` |
| `lock` | `StorageLock::acquire` | `AcquireLock` |
| `bind`, `serving` | `TcpListener::bind`, `axum::serve` | `Bind` |

`Respawn` is launchd under `KeepAlive`, `Kill` the end of a process at any point;
either releases the flock, which goes with its descriptor. Settings are a token,
a number that stands for everything else, the change that wrote them, and `sound`:
whether `build_runtime_config_from_file` takes what they hold (a file made by hand may
have a port that is too large; `init` validates all it writes, `config set` only the
value it is given, `token rotate` none). `start` and `serve` end at a file that is not
sound. `run_doctor` does not: it drops the error (`.ok()`), makes none of the checks that need a
configuration, and reports on the rest. `applied` is the number that the last start or
restart found. `fine` says whether `doctor` has found nothing wrong so far; the
checks of things that are not modelled (the operating system, the tools, the storage
directory) come out either way.

A migration creates the new file empty (`Create`) and then writes what it had read
of the legacy file (`Fill`), to the file that it opened, which may have been replaced
meanwhile. Processes can die and others can read, write or migrate in between. `whole`
is a history variable: it becomes false when a migration is *torn* (`Tears`), that is, its
process dies before it has written, a command takes the empty file over, or a migration
empties a file that another process has put there. `TokenIsKept` says what is kept
before that and what may be lost after it.

Abstractions: the status of the job and the command chosen from it are one
step, because nothing else loads or unloads the job while there is one terminal;
a `launchctl` command that fails ends the command, as `Kill` does; the
temporary file of a replacement is not modelled, so `write` is one step
(`DurableFile` and `ConfigFile` are the models of it); all servers use one storage
directory, one port and one configuration file. The migration is written as a whole
or not at all here; `ConfigFile` has a migration that stops within the text.

### ToolProcesses

One run is one call of `run_command_with_timeout` by a submission, after the
probe that `decide` makes:

| `pc` of a run | in the code | leaves by |
|---|---|---|
| `probing` | `probe_toolchain`, which blocks its thread | `ProbeEnds` |
| `spawning` | the output files and `spawn` | `Spawn` |
| `waiting` | `timeout(build_timeout, child.wait())` | `Ended`, `TimesOut`, `Drop` |
| `killing` | `kill(-pid, SIGKILL)` | `KillGroup` |
| `reaping` | `child.kill()`, `child.wait()` | `KillAndReap`, `Drop` |

`os` is the process table by group: a leader that runs, is a zombie or has been
reaped, and a helper the tool has started. A number is free again when its
leader is reaped and its group is empty. A poll of the timeout looks at the child
first and at the clock second, so a child that has exited in time or late counts as
ended; between that look and the kill the operating system goes on, which is
what the separate `killing` is for. A probe keeps the thread it is made on
(`Blocked`), and nothing is polled when all `Workers` are kept.

A health request waits for the mutex of the cache (`locking`), finds a fresh
answer or probes with the mutex held (`probing`), and stores the time at which the
probe was over. A request that waits may leave; one that probes cannot, since it does
not yield. The two tools of a submission are one run: they are run one after the
other in the same way. What the tools write, and the choice of the output that
follows, is the pipeline of `BuildLifecycle`.

### Settings, ConfigFile, SettingsStore

A value is a kind and a number that is its value or its name. The kinds are what the
parsers of the code, and that of TOML, tell apart: `number`, `padded` (with zeros
before it), `age`, `url`, `text`, `slashed` (with a backslash), `broken` (with a line
break), `blank` and `empty`.
`ConfigValue` is the first layer that has a key (flags, environment, file, and for
the token `SERVER_AUTH_TOKEN`); `BuildRuntimeConfig` is what `serve` does with the layers,
`BuildRuntimeConfigFromFile` what `start` and the other commands do with the file.

`ConfigFile` is the file as an inode with a text; a text has for each key its value,
how it is spelled (with dashes, with underscores, in a line of each, or in two lines
that are spelled alike) and its form (without quotes, in quotes, in quotes that TOML
does not take). A command does these steps, between which others act and it can die:

| `pc` | in the code | action |
|---|---|---|
| `resolving` | `resolve_config_path`, and what `migrate_legacy_config` reads and makes of the legacy file | `Resolve` |
| `opening`, `filling` | the two halves of `std::fs::write` in `migrate_legacy_config` | `Open`, `Fill` |
| `reading` | the file is read and the new text made of it | `Read` |
| `creating`, `writing` | `File::create` and `write_all` of the temporary file | `Create`, `Write` |
| `renaming` | `rename` of whatever has the temporary name then | `Rename` |

`Migrated` is the text of a migration: what an i64 can be parsed from stays bare, other
values get quotes, with backslashes as they are, and of both spellings of a key there
are two lines of one. `Parses` is what TOML takes, and `UnreadKeys` and `stray` name what it
does not: a bare value that is no integer of TOML, a key in two lines spelled alike, a
value in bad quotes, a line that a line break has left. `torn` is a text that two
writers mixed, or one in the temporary file that was not written to its end. A migration that
dies while it writes leaves some of the lines, one of them possibly without the end of
its value (`Parts`). `cut` is a history variable that says that this has happened; it is
part of `SettingsStore` as well, where settings may be lost at most once, in the step
that sets it. The effect of a rename goes to the current names, so one command can
rename the file of another.

The files there are at first have, by hand, a token of blanks, a key with dashes, one
spelled both ways and a number in quotes; in the legacy file, values without
quotes, one with a backslash, and a key with dashes. `StartAndServeAgree` includes the token of
blanks: `start` takes it, `serve` does not, and this is the only difference.

Abstractions: comments and the order of lines are layout; a file has at most two lines
per key; a line that a migration cut short ends in its value is one TOML refuses, so that
a number cut between two digits, which would be another number, is left out; a URL names
its port, the others are in `Urls`.

### The pure parts

`Timestamps` has the date arithmetic of `format_rfc3339` and `parse_rfc3339` with
a time as a day and a second of it. The text of a time has the numbers that stand in its six
slices (a slice that is no number has none), the slices that begin or end inside a character of several
bytes (`cut`), and a layout: as RFC 3339, with signs before the numbers, with other
separators, or in another length. The slices are read in their order and before the
separators are looked at, as in the code, so that a cut slice behind numbers is a `Panic`.
`StoredMetadata` is `to_storage_json` and `from_json` on JSON as records
with a type, missing fields and fields of a wrong type; `ReadingPanics` follows the order
in which `from_json` reads. `Texts` has texts as
sequences of the characters that quoting tells apart: `json_escape`,
`format_config_value`, the comment strippers, the quoting of a migrated value,
`xml_escape` (without `>`, which stands for itself when read) and `safe_filename`. It goes
character by character, because the order of the replacements and the counting of
quotes and backslashes by hand are what can be wrong there. `Urls` has URLs as
sequences of pieces: normalization, the host, the public and the local link. `Ages` has `parse_age`
and `run_gc`'s threshold, with wrap-around and saturation at a width of which `I64` is the half. `ApiFront`
is what happens to a request before its handler acts: authentication, the body
limit, the checks of the body in their order, the forms of ids and tokens.

`Conversions` has one state per case, and two walks: day by day through the
calendar and second by second through a day, both defined as everybody knows
them. The parts are compared with references written independently: the
calendar, the reading of a JSON or XML text, the product of an age without any
width, the rules a request must keep.

## 3. What TLC checks

| Run | Module | Shows | Result |
|---|---|---|---|
| `Submissions` | `MCBuildLifecycle` | `MutualExclusion`, `ContextIsCurrent`, `ArtifactIsOwn`, `LinksSurvive`, `RevokedStaysRevoked`, `OkIsHonest`, `IdentityIsStable`, `RefinesRegistry`: two sources with one id, two toolchains, disconnects | pass |
| `Answered` | `MCBuildLifecycle` | `TypeOK`, `SlotsConserved`, `SourceIsCleanedUp`, `EverySubmissionEnds`: two builds, one slot, disconnects, a crash | pass |
| `Downloads` | `MCForgeService` | `ServiceTypeOK`, `ViewAgreesWithLinks`, `DownloadsAreOwn`, `ExpiredIsNotServed`, `SteadyLinkIsServed`, `GcRemovesOnlyExpired`: downloads race submissions and `gc`, which runs while no submission is handled | pass |
| `DurableFile` | `MCDurableFile` | `AckedIsKept`, `ImplementsCell`: one writer, failures, two losses of power | pass |
| `ServiceControl` | `MCServiceControl` | `OneServer`, `RestartApplies`, `TokenIsKept`, `DoctorIsRight`, `JobServes`: three commands, a death, the job, a server by hand, a file that is taken or refused, a legacy one or none | pass |
| `Tools` | `MCToolProcesses` | `TimedOutIsGone`, `KillsOnlyItsOwn`, `ProbesAreRationed`, `EveryRunEnds`, `HealthIsAnswered`: two runs and two health requests on two threads | pass |
| `ConfigFile` | `MCConfigFile` | `AlwaysStartable`, `StartAndServeAgree`, `ReportedIsThere`, `EditsAreSettings`: three commands in one terminal, one interrupted, in a migration or elsewhere; files by `init`, by hand, legacy or none | pass |
| `Conversions` | `MCConversions` | `CalendarIsRight`, `MetadataSurvives`, `TextSurvives`, `LinksReachTheService`, `AgeSaysWhatGoes`, `RequestsAreJudged` | pass |
| `ShorterRenewal` | `MCBuildLifecycle` | `OldLinksWork` | violation |
| `OrphanedWork` | `MCBuildLifecycle` | `WorkIsBounded` | violation |
| `GcDuringRenewal` | `MCForgeService` | `GcRemovesOnlyExpired` | violation |
| `ConcurrentEdits` | `MCConfigFile` | `EditsAreSettings` | violation |

Every property of a passing run has a *fault*: a variant of one definition,
written just before it and marked `\* Fault:`, under which the same run finds the
property violated. `TypeOK` and `ServiceTypeOK` are checked; `DurableTypeOK`,
`ControlTypeOK` and `ToolTypeOK` say what the variables of their modules hold,
which is proved (section 4).

### Bounds

`MaxRequests` is the number of submissions in a behaviour. With 3, a build is
made, changed by a second submission and used by a third, while two of them overlap;
a fourth would repeat one of these, because a submission depends on earlier
ones only through the metadata and the file. `MaxTime` is 3 with downloads and
`gc`, and lifetimes are 1 and 2, so that one link expires before, at and after
another. Two toolchains let a ready
build be rebuilt, fail and lose its links (`Submissions`). One crash suffices
(`Answered`), since a crash empties the memory and a second finds the same kind
of state; what it leaves on disk is also left by the failing writes of
`Submissions`. `MaxConcurrency = 1` is the default and the only value with which the
limit is met by two tasks; the theorems hold for any. Tasks are symmetric where no
liveness is checked. In `Downloads` two submissions of two sources, or two of
one, meet a download and a `gc` with age 0 or 2: the second changes what the
download or the `gc` has seen.

In `DurableFile` three writes and two losses let a write
find what is left of one that was lost and of one that failed. In `ServiceControl` three
commands are enough to initialise and start (`init` can go on to start the service),
change and restart, or to initialise and start, rotate and run `doctor`, with a process
that dies at any point, a migration included; two server processes are the job and one beside it, or
an instance and the one before it. Its commands run out, hence
`CHECK_DEADLOCK FALSE` there, as in `DurableFile` and `ConfigFile`.

In `Tools` two process numbers and two runs let the second run get the number
of the first as soon as it is free; two health requests let one wait behind
the other, and two threads let probes block everything or leave one thread. `Ttl = 1` and
`MaxTime = 2` let a cached answer be fresh, expire, and be renewed. In `ConfigFile`
three commands are an `init`, an edit and another, or an interrupted one and two
after it; the interrupted one's temporary file, or what it left of a migration, is found
by the next. `MaxPort = 3`,
`MaxInteger = 5` and `MaxNumber = 7` keep the order of the widths of the code (u16, i64,
u64), and the numbers tried lie on both sides of `MaxPort` and of `MaxInteger`, at zero, and have
zeros before them.

In `Conversions` the calendar goes from 1970 to the end of 2101, so that it
contains a century that is a leap year and one that is not, and the start of an era of 400 years; texts
have up to four of ten characters; damaged metadata differ from saved
ones in one field, and damaged times have each number on both sides of its limits, days
that the calendar has and has not, each layout, and slices that are no numbers or are cut, with
numbers before them or not; `I64` is 2^23, so that 24 bits stand for the 64 of a u64, with ages on both sides of half and all of
them; `MaxSourceBytes = 4` and names and lifetimes lie at each limit and just past it.
Cases have no successor, hence `CHECK_DEADLOCK FALSE`.

### Fairness

`Answered` assumes weak fairness of each task's steps: the runtime polls a task
that can go on, and every wait for a tool is ended by `build_timeout`, which is what
`EveryRunEnds` of `Tools` shows. It
assumes strong fairness of `Lock`: a tokio mutex is handed over in the order of
arrival, so a waiting task is not overtaken for ever. Nothing is assumed of
clients, crashes, the clock or the tools.

`ServiceControl` assumes weak fairness
of each server's own steps, of `doctor`, which never waits while it has the port, and of
`Respawn`, which is what `KeepAlive` in the plist
asks launchd for; nothing of the operator. `JobServes` holds with a finite number
of deaths only.

`Tools` assumes strong fairness of the steps of a run and of a health request:
threads are blocked from time to time, so that a poll is possible again and again and not
all the time; the queue of the runtime and that of the mutex are in the order of
arrival. The end of a probe is among these steps, that is, `cherri --version` and the like are
assumed to end; the code gives them no timeout. Time passes (`Elapse`). Nothing is assumed of the
tools that are run: they may never exit.

### Findings

* **A shorter renewal breaks longer links** (`ShorterRenewal`). A renewal sets
  the build's `expires_at` to its own, and `resolve_download` looks at that
  before it looks at the tokens. `README.md` and `SPEC.md` promise that old links
  keep working until they expire.
* **A disconnect frees a slot whose tool still runs** (`OrphanedWork`). The
  child is not killed when the future is dropped. `SPEC.md` bounds the total of
  concurrent work.
* **`gc` can remove a build that was just renewed** (`GcDuringRenewal`).
* **Two commands at a time lose an edit, or leave a torn file**
  (`ConcurrentEdits`): each writes what it made of the file it had read, and the
  temporary name is shared.

Met while modelling, and not among the runs:

* Lifecycle: tools that change during a build leave an artifact with the fingerprint
  probed before it, which a later submission renews as current; a
  failed rebuild also moves `expires_at` (`build_metadata`), where `SPEC.md` speaks of
  the latest successful POST; a link can be expired when it is returned, as its expiry is
  fixed before the build; `TempDirCleanup` ignores an error of `remove_dir_all` (`build.rs`,
  line 134), and the private directory, with the source, then stays: `SourceIsCleanedUp` holds where
  that removal does not fail.
* Downloads and `gc`: a download of any link answers 500 when `gc` removes some
  build between `exists()` and `read()` of the scan (this is why `steady` asks that
  no `gc` runs, so that no property covers it); a build whose file is gone is called ready and
  counts its links until its metadata are written again; with a shared id and a `gc` during submissions a link can lead to
  the file of another source; an age from 2^63 seconds to where the
  product saturates wraps to a threshold in the future, and `gc` removes the valid builds that
  expire before it, all of them for the shorter of these ages; where the product saturates
  the threshold is the next second, and more is removed than with an age of 0
  (`AgeSaysWhatGoes`); `gc` with a `--config` it cannot
  read falls back to the default storage.
* Files: `sync_parent_dir` flushes the directory of the file, never the parent in
  which that directory was created (with `HomeIsKept = FALSE`, `AckedIsKept` fails).
* Configuration: a migration that is interrupted between the creation of the new file and
  its end loses settings and the token for good, since the file is there from then on and the
  legacy one is not looked at again; so does one that another command reads half way: `config set`
  writes the empty file back with its own value, `init` makes another token. `TokenIsKept` and
  `EditsAreSettings` say that this is the only way to lose them, `AlwaysStartable` that
  `start` takes what is left if TOML reads it and the token is there.
* Configuration, files that TOML refuses: `config set` accepts numbers with leading zeros and
  numbers above the integers of TOML, and writes them without quotes
  (`format_config_value_for_key`); it accepts values with line breaks and control
  characters, which it writes as they are; with both spellings of a key present it replaces both lines, and
  the migration makes one spelling of them, which duplicates the key; the migration leaves a number with zeros before it bare, as an i64 is
  parsed from it, and backslashes as they are, which TOML takes for escapes. No command that loads the file can do so
  from then on.
* Configuration, others: `start` takes a token of blanks and `serve` does
  not (`StartAndServeAgree`); `start` does not know of `SERVER_AUTH_TOKEN`.
* `doctor`: of a file that TOML reads and `build_runtime_config_from_file` refuses, a port of
  70000 for one, it says nothing: the checks of the token, the port, the job and the health of
  the service are left out, and all that is left can be well with no server up (`DoctorIsRight`).
* URLs: after a change of the port `public_base_url` keeps the old one; a URL with a path
  gets the port behind the path each time it is loaded; the host `::` gives a
  local URL without brackets; of a URL with a user, `extract_url_host` returns the user.
* API: the limit of a body, four times that of a source and 64 KiB, can refuse a source
  within its limit if it is all control characters, with a plain 413;
  `parse_rfc3339` accepts the 31st of February, second 60 and signs before numbers, and reads them as
  another time than they say or would be written as; of a text of 20 bytes that ends in Z, with a
  character of several bytes across one of its indices, it panics (`value[0..4]` and the like), and
  so does every scan that comes to a metadata file with such a time (`MetadataSurvives`).
* Tools: what a tool started stays when the tool itself exits in time; probes have no timeout.
* Operator: `status` fails with an error while the server is starting.

## 4. What TLAPS proves

The theorems hold for every value of the constants, under the assumptions the
modules state (`None` is no value of anything else, bounds are numbers, there is at
least one slot, and so on) and the hypotheses of the third column. Each states the
property of that name that a run checks on a small instance.

| Theorem | Property | Hypotheses |
|---|---|---|
| *`BuildLifecycle_proofs`* | | |
| `TypeCorrect` | `TypeOK` | |
| `NoSlotLeaks` | `SlotsConserved` | |
| `OneTaskPerBuild` | `MutualExclusion` | |
| `SourcesAreCleanedUp` | `SourceIsCleanedUp` | |
| *`BuildRecords_proofs`* | | |
| `ReadsAreCurrent` | `ContextIsCurrent` | |
| `IdentityNeverChanges` | `IdentityIsStable` | |
| `LinksAreKept` | `LinksSurvive` | |
| `RevocationIsFinal` | `RevokedStaysRevoked` | |
| `FilesAreOwn` | `ArtifactIsOwn` | |
| `OkIsKept` | `OkIsHonest` | |
| `LifecycleRefinesRegistry` | `RefinesRegistry` | |
| *`ForgeService_proofs`* | | |
| `ServiceTypeCorrect` | `ServiceTypeOK` | |
| `StatusAndLinksAgree` | `ViewAgreesWithLinks` | |
| `ExpiredStaysClosed` | `ExpiredIsNotServed` | |
| `ServableIsServed` | `SteadyLinkIsServed` | |
| `ServiceKeepsLocksAndSlots` | `MutualExclusion`, `SlotsConserved` of the whole service | |
| `GcSparesTheLiving` | `GcRemovesOnlyExpired` | `GcIsApart` |
| `GcDisturbsNobody` | `ContextIsCurrent`, `ArtifactIsOwn` of the whole service | `GcIsApart` |
| `LinksServeTheirSource` | `DownloadsAreOwn` | `NoMixUp` |
| `FilesOutliveGc` | `ArtifactIsOwn` of the whole service, with `gc` at any time | |
| `IdentityOutlivesGc` | `IdentityIsStable` of builds that are not removed (`IdentityWhileThere`), with `gc` at any time | |
| `LinksOutliveGc` | `LinksSurvive` but for builds that are removed (`LinksSurviveSubmissions`), with `gc` at any time | |
| `RevocationOutlivesGc` | `RevokedStaysRevoked` of the whole service | `GcIsApart` |
| `OkOutlivesGc` | `OkIsHonest` of the whole service | `GcIsApart` |
| `ServiceRefinesRegistry` | `RefinesRegistryWithRemovals`: `BuildRegistry` with the removal of expired builds | `GcIsApart` |
| *`DurableFile_proofs`* | | |
| `DurableTypeCorrect` | `DurableTypeOK` (in no run) | |
| `ReportedIsKept` | `AckedIsKept` | `OneWriter`, `HomeIsKept` |
| `FileImplementsCell` | `ImplementsCell` | `OneWriter`, `HomeIsKept` |
| *`ServiceControl_proofs`* | | |
| `ControlTypeCorrect` | `ControlTypeOK` (in no run) | |
| `StorageHasOneServer` | `OneServer` | |
| `RestartTakesEffect` | `RestartApplies` | |
| `TokenSurvivesEdits` | `TokenIsKept` | `OneShell` |
| `DoctorTellsTheTruth` | `DoctorIsRight` | |
| *`ToolProcesses_proofs`* | | |
| `ToolTypeCorrect` | `ToolTypeOK` (in no run) | |
| `TimedOutGroupIsGone` | `TimedOutIsGone` | |
| `SignalsStayInTheGroup` | `KillsOnlyItsOwn` | |
| `ProbesAreSpaced` | `ProbesAreRationed` | |
| *`ConfigFile_proofs`* | | |
| `StartMeansServe` | `StartAndServeAgree` | |
| `ReportedIsInPlace` | `ReportedIsThere` | `OneShell` |
| `FileImplementsSettings` | `EditsAreSettings` | `OneShell` |
| `FileStaysStartable` | `AlwaysStartable` | `OneShell`, `FilesAreGood` |
| *`Conversions_proofs`* | | |
| `DatesAreRight` | `CalendarIsRight` | |
| `GcTakesTheAge` | `AgeSaysWhatGoes` | `AgesAreTyped` |
| `EveryRequestIsJudged` | `RequestsAreJudged` | `RequestsAreTyped` |
| `SavedMetadataIsLoaded` | `MetadataSurvives` | `MetadataIsTyped` |
| `LinksLeadToTheServer` | `LinksReachTheService` | `UrlsAreTyped` |
| `TextsComeBack` | `TextSurvives` | `TextsAreTyped` |

### The hypotheses

* `GcIsApart`: `gc` runs only while no submission is handled, or never. The code
  does not see to it; an operator who runs `gc` on a busy server gets what
  `GcDuringRenewal` shows.
* `NoMixUp`: no two sources share an id, or builds are never removed. With shared ids
  and a `gc` the property is false: the build is removed, the other
  source takes its id, and the first one's download, which is between its
  scan and its read, gets the other file. An id is 128 bits of a digest, so that
  the first half is what the code counts on.
* `OneWriter`: of one file; submissions to one build are one at a time
  (`OneTaskPerBuild`), and for the configuration file it is `OneShell`. `HomeIsKept`: the
  directory of the file is on stable storage, which the code does not see to for the
  first file of a build.
* `OneShell`: one command at a time, since no command takes a lock (`ConcurrentEdits`
  shows what happens without). In `ServiceControl` servers run beside it and migrate, too.
* `FilesAreGood`: the files there are at first, legacy ones included, have a token, be it of
  blanks, and hold values that the configuration takes; what TOML makes of them is open. A
  file with a port of 70000 stays one that nothing but `config set` of the port repairs,
  and `start` says so each time.
* `AgesAreTyped`, `RequestsAreTyped`, `MetadataIsTyped` say of the cases what Rust's
  types say of the code: amounts and sizes are naturals, tokens are sequences of bytes,
  the time is one an i64 holds, a saved time is one of a year of four characters, -999 to 9999. The
  damage to a field is a JSON value of any type, with any of the members the code looks for, each of any
  type; a text that stands for a time has any integers in any of its slices, any cuts in the others and any
  layout, but a year of four characters where it is laid out as RFC 3339. `TextsAreTyped`: a text is a sequence, of
  any length, over any set of characters. `UrlsAreTyped`: a URL that `validate_httpish_url` takes,
  one with a scheme, is that of a host, a name or an address in brackets, with or without a port and
  with any number of slashes behind, and its parts are none of the separators; URLs with a path, a
  user or a bare `::` behave otherwise (see the findings), and of the ones without a scheme, which
  `init` and `config set` refuse and only a flag, the environment or a file by hand can bring in, the
  property says nothing.
  All hold of the cases that TLC tries.

### The arguments

**Lifecycle.** `TypeOK` alone is not inductive:
a task past `loading` could lack a context and one past `StartBuild` an output,
and `free` could leave `0..MaxConcurrency`. `Types` adds which records a task has
at which `pc`. `SlotsConserved` is inductive with it by counting the
tasks in a slot before and after each step (`FiniteSetTheorems`); it also bounds
`free`. `Locked` says that a task at a control point between `loading` and
`publishing` is the holder of its build's lock; mutual exclusion follows, as a
function has one value. `Tidy` is `SourceIsCleanedUp` for the numbers still to be drawn as
well, without which a new attempt could adopt an old directory.

`BuildRecords_proofs` has the data part, each on top of the one before.
`Current`: what a task read is on disk, because only the holder of the lock
writes. From it, saved metadata are a function of the metadata on disk, which
gives the action properties. `Fresh`: tokens on disk and links with clients have
numbers of past requests, and the number of a request in progress is in neither;
without it a new token could revive a revoked link. `Owned`: a file is of the
source of the metadata beside it whenever these are ready, and the `out` of a task
is of its own source. The refinement maps `builds` to `meta`, `files` to `artifact` and
`clock` to `now`: each step is a step of `BuildRegistry` or a stutter.

**Service.** The lemmas of the lifecycle are used again, and `gc` and the downloads
are added step by step. `Traced` follows a token from its number to the link that was handed out:
tokens of a build have different hashes, a link with a token's hash has its expiry and its
source, and a ready build lives as long as one of its tokens. `ViewAgreesWithLinks` is a count over it
(a bijection between active tokens and links that match). `Visits`: what a download
has found is the build of its link, which had not expired when it began; that the
expiry is that of the *link* and not of the build comes from `Traced`. `Steady`: while a link is
steady its build is among those still to visit or is the one found, and `gc` is idle.
`Apart`: while `gc` runs, every victim has expired by its threshold, and as nobody
submits, still has at the removal. `LinkedFiles`: where a link was
handed out, the file in its build is of its source.

With `gc` at any time `Current` fails, as the metadata a task has read may be
gone. What is left of it is `Seen`: *while they are there* they are what the task has read, since
the lock still keeps other tasks out and `gc` writes nothing. Every save is then still
computed from the build it replaces, if there is one, which is all that identity and links
need. `Matching` is what is left of `Owned`: a task about to call a build
ready finds no file of another source there, and as `gc` may have taken the metadata of a
ready build and left its file, this has to be known from the moment the metadata were read, not
only when the file is looked for. No id needs to be unshared for it.
`RevokedStaysRevoked` and `OkIsHonest` are false with such a `gc`: a renewal
writes back the tokens of a build removed under it, and may answer 200 for a build whose
file is gone. `LinksSurvive` is false even for a `gc` that is apart: after a shorter
renewal a link outlives its build (`ShorterRenewal`), and goes with it. TLC finds each of
these with the constants of `GcDuringRenewal`, two tasks and three submissions (for the last
`GcWhileServing = FALSE` and lifetimes of 1 and 3).

**Durable file.** `Durable` says of *every* state of the directory that a loss may bring
back, not of the present one, that its file is whole and flushed, with a number between the last
one reported and the last one written (`Recoverable`), and that none of them has the
inode of the temporary name for its file, so that the next write, which truncates
that inode, hurts none. The refinement maps the cell to the number in the file and its candidates to
the numbers in `kept`.

**Service control.** `Held`: a process at `bind` or `serving` is the one that has the lock.
For the other three the knowledge of each process has to be tracked through the migration. `Known` says
what a process knows as long as no migration was torn: that a
file has the number of the last change, that a command that writes or judges has
read the current token, and that the instance of the job has read the file after
it was started (`InstanceIsFresh`), wherever `restart` stands; and after one was torn, which tokens
a file, a process and a migration may still have: none, the first one or the current one.

**Tools.** `Supervised`: a run that waits, kills or reaps holds the leader of its own group, running or zombie, so
that its number cannot be given again; that is why the signal of `kill(-pid)` meets only this
group, and why `late` counts only a child that did not exit in time. `Rationed`: only the
holder of the mutex probes, and only while the cache has nothing fresh.

**Configuration file.** `FileTypes` (any number of shells) is the types of the texts, also of torn
ones and of those a migration has left half done; for every one of them `build_runtime_config` and
`build_runtime_config_from_file` agree, but for a token of blanks (`OnEveryFile`).
`Whole` (one shell): the temporary file is never the file, what the command is about to
rename is what it would make of the file as it is *now*, and what it is about to write in a
migration is what the legacy file comes to; the refinement of `SettingsStore` follows, with
two visible steps: the rename, and the death of a migration that writes.
`Good`: the file, and the text about to replace it, hold values that the configuration
takes; here it is shown that whatever `validate_config_assignment` lets pass, at any
width, is accepted when it is read, and that the parts of a good text are good.

**Conversions.** The walk keeps the day and the date together: `IsCivil` says that a
day has an era, a year of it that begins in March, a month and a day in them, from
which both `civil_from_days` and `days_from_civil` are computed; that they are
inverse, and that the next day of the calendar is the next number, is arithmetic
on eras, years and months done lemma by lemma. Every day has a date and every date a day, also
those of years before 1970 that a damaged time may have. `GcTakesTheAge` is a case split on
where the product lies. `EveryRequestIsJudged` rests on the fact that
`constant_time_eq` compares the lengths as well, by which it is equality.
`SavedMetadataIsLoaded` reads a document field by field: the fields that are not damaged are
readable and do not panic, so that the damaged one alone decides whether the document is read, is
refused or panics; and a time that is read is written as it stands just when the calendar has
it, because dates and days are inverse and two dates of one day are the same.

`TextsComeBack` and `LinksLeadToTheServer` are about functions that go through a
sequence of any length. `LeastNumber` follows from the well-foundedness of the
naturals, `Induction` from it for the *set* of the numbers for which something holds, and
with that the folds of the community modules are unfolded once and for all:
a conversion is a machine that takes one character after the other (`After`, `Takes`),
a fold is the state in which its machine ends (`FoldIs`), a text put together of
pieces is taken piece by piece (`TakesPieces`), and a machine does not do two things on
one text (`TakesToOne`). What is left is one character at a time: the escape of a character, read
from inside the quotes, leaves the reader inside with this character (`EscapeIsRead`);
the scan for comments stays inside the value until the closing quote (`ValueStaysOpen`)
and past the cut nothing counts; each of the four replacements of
`xml_escape` turns what the ones before left of a character and no ampersand of theirs
(`MarkedTurns`). Replacing backslashes before quotes is what makes
`format_config_value_for_key` the escape of each character (`ConfigValueIs`). That a text does *not*
come back is shown at the first character that stops the reader: what stands before it is read
(`ReadsOn`), it ends the reading or spoils it, and no later character mends that
(`UnreadSteps`, `StopsShort`).
For URLs the slashes behind are stripped (`OnlyLastSlashes`) and the first separator is found
(`FirstPart`), after which a URL has one of a few forms (`Server`).

### Only model-checked

* `EverySubmissionEnds`, `JobServes`, `EveryRunEnds`, `HealthIsAnswered`: liveness under
  fairness, which is out of this prover's reach.

Every other property of a passing run is stated by a theorem.

## 5. Plan and what is left

Modelled first, because it is the heart of the service: the lifecycle, then what
shares its files, then the files themselves, then what starts the servers; after
these the tools and probes, the configuration file, and the pure parts. The
theorems came in the same order. Every property of a passing run but liveness has its
theorem; those of the records hold of the lifecycle and, as far as they are true, of
the whole service. Left are

1. which links a `gc` beside submissions can bring back, and for how long: a statement
   weaker than `RevokedStaysRevoked`, with the threshold of the `gc` in it;
2. downloads under a `gc` at any time: `SteadyLinkIsServed` speaks of times without one.

### Not modelled

Argument parsing (`cli.rs`) beyond the layers it fills; the text that commands
print, which is all that `status`, `logs`, `smoke`, `build` and `config show` make of
what they read; log files; the search for the output of `cherri` by name, which only
reads a private directory; the removal of escape sequences from messages; the
paths of the system's directories; JSON and TOML syntax (library code), HTTP
itself (axum); the tests and build files. They keep no state and decide nothing
the properties are about. The randomness of tokens and the strength of the
digest are assumptions of the models.
