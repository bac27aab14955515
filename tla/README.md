# CPSL: a verification development

CPSL runs scripts of untrusted origin in *capsules*: sandboxes with a Luau
virtual machine, a virtual file system of mounts, and modules for HTTP,
documents, calendars, browsers and data. Scripts are written in Luau, or in a
subset of Python or bash that is transpiled to Luau. A capsule is embedded
through a C library (`cpsl-ffi`), run from a command line (`cpsl`), or built for
the browser.

This directory holds TLA+ models of the parts of CPSL that keep state, wait, run
concurrently, fail half way, or translate one language into another; the TLC
configurations that check them; and proofs, checked by TLAPS, of what they
promise for every size of the system. Paths below are relative to `src/`.

    tlc -workers 2 -config HttpPolicy.cfg MCGateways.tla      # one run
    tlapm GatewayProofs.tla                                   # one proof module

## 1. Inventory

### Parts of the system and how they interact

```
 host program --C ABI--> ffi/src/lib.rs --owns--> core: Sandbox (one Luau VM)
    ^  callbacks (vision, file activity,              |  globals fs, doc, http, ...
    |  calendar, location, web browser)               |
    +-------------------------------------------------+
 user --> cli/src/main.rs --spawns--> ~/.cpsl/bin/<name> --> core: Sandbox
 Python text --> core/src/transpile.rs ----> Luau + runtime/pyrt.luau
 bash text   --> core/src/sh_transpile.rs -> Luau + runtime/shrt.luau
 scripts: http.request --> modules/native-http: policy, credentials, backend
 scripts: fs.*         --> core/src/mount.rs: mount table --> host file system
 scripts: doc.read*    --> core/src/doc.rs: worker threads --> vision callback, cache
```

| Component | State | Operations | What is hard | What makes it correct | Module |
|---|---|---|---|---|---|
| HTTP gateway, policy, credentials (`modules/native-http/src/{policy,gateway}.rs`) | allow list, deny list, credential map, each under its own lock | request; allow, deny, remove a domain; set, remove credentials | checks that read two lists under two locks while the host edits them; a user prompt of any length in the middle | a denial holds; a decided domain is not asked about; an admission rests on a state the policy had; credentials are those after the verdict | HttpPolicy |
| Document reads (`core/src/doc.rs`, `doc/vision.rs`) | queue of pending reads, a result slot per future, a semaphore, cache files | `doc.read`, `doc.readAsync`, `await` | a batch of worker threads, lost wake-ups, panicking callbacks, cache files cut by a crash or read while written | an await returns, with every read of the batch answered once, by at most N threads at a time; cached text is whole | DocFutures, AsyncReads |
| Mounts and `fs` (`core/src/mount.rs`, `sandbox.rs`) | mount table, host tree, own /tmp | add mount, build, drop, read, list, write, mkdir, rename, remove, copy | mounts nested, shadowing, over the root; virtual and synthetic directories; paths with `..`, which are compared as text and followed by the host; operations that fail half way | nothing outside of a read-write mount changes; mounts stay; what is listed exists | MountFs |
| C ABI (`ffi/src/lib.rs`, `ffi/src/vision.rs`) | sessions, callback contexts, LAST_ERROR | the constructors, evaluate, free | ownership through every failing path of a constructor and every build variant; callbacks from several threads; a global error | each context is freed once, after its last use; handlers are serialized; an error can be read | FfiSession |
| Evaluation and shell runtime (`core/src/sandbox.rs`, `runtime/shrt.luau`) | print buffer, newline still due, exit code, suppression depth | commands, pipelines, substitutions, redirections, exit, errors, one evaluation after another | errors out of nested contexts; state that outlives an evaluation | the next evaluation prints; output is what a process would have written; `$?` is what was reported | ShellEval |
| Python transpiler (`core/src/transpile.rs`) | scopes, flags of loops | one visit per kind of statement | exceptions, loop else-clauses and function-wide names in a language that has none of them | the translation does what the script does | PyTranspile |
| Image store (`cli/src/main.rs`, `config.rs`) | two files per sandbox, cargo's output, the manifest, scratch directories | `build`, `run`, `rm`, direct execution | processes without locks; kills; edits; files truncated, then written | the binary and the manifest of a name belong together; "ready" and "removed" are true | ImageStore |
| Byte-range reads (`core/src/sandbox/fs_read.rs`) | the length of one call, taken from the metadata | `fs.read` in eight forms and three modes | a file that another process grows or cuts while it is read; lines from one, bytes from zero, fractions, negatives | the range that was asked for, of one content the file had, or an error | FileWindow |
| Archives (`core/src/compress.rs`) | files being written | zip, tar, targz and their opposites, un7z, bzip2, xz | an archive emptied before its sources are read, sources missing or twice, the archive among its sources, half an extraction | what was packed is what is unpacked | Archive |
| Calendar (`core/src/calendar.rs`, `modules/apple-calendar`) | a worker thread and its queue, attachments on disk and in notes | ten functions on calendars and events | attachments copied for an event that is then refused; a worker held by a permission dialog, or gone | files are those the notes list; callers are served | Calendar |
| SFAE and OAuth (`core/src/sfae.rs`, experimental build only) | a keychain that all sandboxes share, the provider's grants | requests with refresh and retry, prompt, credentials, consent | the store is unlocked during refresh and consent; answers lost after the provider rotated the token | a 401 is healed; the refresh token stays good | Sfae |
| WebView PDF (`modules/native-webview-pdf`) | a pipeline, window or print operation per call | `html_to_pdf` on three systems | callers that give up while callbacks go on; one temporary file per process | a call returns, with its own document, and frees what it made | WebViewPdf |
| Shell transpiler (`core/src/sh_transpile.rs`) | none | one visit per kind of command and word | values, scopes and exit codes in a language that has other ones | the translation does what the script does in a shell | ShScripts, ShTranspile |
| Calls of module functions (`core/src/sandbox/doc.rs`, `lua_util.rs`, `shrt.luau`, the documentation tables of every module) | none | flags of a command, `sh.run`, `validate_args`, the function | four representations of one call, each dropping or converting | what is written for a parameter arrives in it | ModuleDocs, ModuleCalls |
| Read-eval-print loops and the browser build (`cli/src/main.rs`, `web/`) | modes, buffers of open chunks, prompts, messages of page and worker | lines, clicks on a mode | chunks recognised by the text of an error; messages that cross | no line is lost or runs twice; prompts are true; page and command line agree | Terminal |
| Data modules, `grep`, readers of formats, Python's runtime library, web browser and location gateways, HTTP backends, CI tools, vendored parser | none beyond a call | | | | not modelled, see 6 |

`PROJECT.json` lists each of these with its files, and the hazards: what in
this code a test would hardly reach, each at its line, with the properties that
would catch it.

## 2. Plan

Done, in this order: HttpPolicy, DocFutures (with its abstract specification
AsyncReads), MountFs, FfiSession, ShellEval, ImageStore, each followed by its
proofs, and PyTranspile; then FileWindow, Archive, Calendar, Sfae, ShTranspile,
ModuleCalls, Terminal and WebViewPdf, each composed with the module of the same
part of the system; then the proofs about Sfae, WebViewPdf, Terminal, Calendar, the rest of
MountFs, FileWindow (`ReadsAsAsked`) and Archive (`RoundTrip`).

Left, most important first:

1. Abstract specifications that are still to be stated: an atomic store for
   ImageStore (two files changed in one step) and an atomic policy for
   HttpPolicy (a check in one step), each with the condition under which the
   detailed module implements it.
2. **PyTranspile, expressions**: `and`/`or` joined without parentheses
   (`transpile.rs:486`), types inferred through branches (`transpile.rs:1041`).
3. The slices and ranges of Python's runtime library against a reference
   definition; here-documents and `while read` in ShTranspile.

## 3. Modules

Each module models one component; `MC*.tla` modules hold the finite sets TLC is
given, `*Proofs.tla` modules the theorems (GatewayProofs those of HttpPolicy and Sfae,
FfiSessionProofs also those of Calendar, ShellEvalProofs of Terminal,
MountFsProofs of FileWindow). Components
of one part of the system that share no state are checked in one run
(MCGateways: HttpPolicy and Sfae; MCDocuments: DocFutures and WebViewPdf;
MCFiles: MountFs, FileWindow and Archive; MCBridges: FfiSession and Calendar;
MCCommandLine: ShellEval, Terminal and ImageStore; MCTranslations: PyTranspile,
ShTranspile and ModuleCalls): the first state chooses a `way`, and the others rest, so these
runs show nothing of several components at once. The module of a run extends its
components, so that all but the first one's `Init`, `Next` and tuple of variables
have names of their own (`CalendarInit`, `ArchiveNext`, `views`); only the
translations are instantiated. `Over` stutters where one of them has done
all of the calls its bound allows, so that any other stop is a deadlock.
Definitions carry the names of the code, and `PROJECT.json` maps each to its
lines. A definition with an underscore and a capital (`Wakes_None`) is a
*mutant*: a plausible bug that a property must catch; nothing else refers to it.

Operations that fail before they change anything are stuttering steps. History
variables (`seen`, `spoiled`, `meddled`, `twice`, `owed`, `alone`, `shown`,
`indirect`) record what properties compare the state with; no guard reads them,
but for the bound of edits in FileWindow.

### HttpPolicy

The lists of the policy are two `RwLock`s and the credentials a third, and no
method holds two. So `HttpGateway::request` is a program counter per client
with one action per locked section (`ReadDenied`, `ReadAllowed`,
`RememberAllow`, `RememberDeny`, `Inject`), one for the user's answer and one
for sending. The host is one thread that allows, denies, sets and revokes;
`DomainPolicy::remove` is two actions, in the order of the code. A domain is
the sequence of its labels, so the suffix match at a dot is `IsSuffix`.
`seen` is the history of a check: whether the domain was denied, and allowed,
at every instant so far, whether it was admissible at one, and which
credentials were in the store since the verdict.

### DocFutures and AsyncReads

A session is one sandbox with one script thread. `ReadAsync` queues a read or
answers it at once; `Await` drains the queue into worker threads, which go
through the semaphore (`Acquire`, `SpuriousWake`, `Release`: `notify_one` moves
one sleeper), the cache (`Lookup`, `Create`, `Write`), the callback (`CallOk`,
`CallErr`, `CallPanic`) and fill a slot. `std::fs::write` is two steps,
truncation and contents, between which a crash, a failing disk or another
reader can come. `Crash` restarts the process of one sandbox; the cache stays.
The cut file that a later read finds is not UTF-8, or it is text: both are
possible.

**AsyncReads** is what a script is promised, without threads, permits and
files: it asks, waits for exactly the reads of its queue, each gets one answer
or is lost to a panic, and it goes on when none is awaited. `Outcome` in
DocFutures is the refinement mapping (a read whose slot is full has its answer;
one that is somewhere between the queue and its slot is awaited).

### MountFs

A virtual path is resolved by the mount with the longest matching prefix;
`/dev` and its like are synthetic directories above the mounts; every ancestor
of a mount is a virtual directory. The mount table compares paths as text, in
which `..` and `.` (`Up`, `Here`) are names like any other; the host follows
them. So a path has two readings: `Under`, `InSynthetic`, `NotMountRoot` look at
its names, `HostPath` is the place (`Place`) where the joined path leads, if it
exists (`CanGo`), and `Resolves` compares that place with the mount, as `resolve`
does. The host is a finite tree of directories and
of files that are empty or not. Every `fs` operation is one action with its
guards in the order of the code (synthetic, virtual, resolved, writable), its
effect on the tree and its report to the file-activity callback; `WriteFails`,
`MkdirFails` and `RemoveFails` are the operations that stop half way. `indirect`
remembers whether the last operation wrote through a path with `..` or `.`:
`MountsStay` lets such a step take away a read-write mount, and
`UnwritableUntouched` lets it change what is under a synthetic directory, and
these are findings 5 and 6. `Build` mounts or
makes `/tmp`, `Drop` removes its own.

### FfiSession

`phase` follows a constructor through the five callback groups in the order of
its validation. A group becomes a bridge that owns its context (`Validate`), is
released because the build lacks the feature (`Ignore`), or refuses the
constructor (`Refuse`), which releases by hand what is not yet in a bridge and,
when it returns, drops the bridges it has (`Unwind`). Evaluations call handlers
from the script's thread or from document workers through a lock per bridge.
`LAST_ERROR` is one global; `owed` and `alone` remember a failure no other call
has followed or overlapped.

### ShellEval

Commands are told apart by what they do to output and exit code: `Echo` (prints
and succeeds), `Show` (prints and leaves the code alone), `Fail`, `Warn` and
`Tell` (print even when suppressed), `Decide` (true, false, test), `Exit`,
`Crash`. Pipelines, substitutions and redirections are contexts on a stack,
each a call of `with_output_suppressed`. `print` owes its newline until the next
output. `Finish` and `FinishRaised` are the answers of the FFI. `shown` is what
a process that writes its newlines at once would have written.

### PyTranspile

Scripts are trees of statements. `transpile` is the transpiler (`visit_*`,
scopes, flags for loop else-clauses, hoisting for try), `exec` runs its output
by Luau's rules (block scopes, closures, `xpcall`), `PyRun` runs the script by
Python's. `Supported` is the conjunction of what a script must avoid for both to
agree; every conjunct is there because TLC finds a difference without it, and
section 7 lists them as limits of the transpiler. The module is recursive, and
checked only by TLC.

### ShScripts and ShTranspile

ShScripts are the words, commands and lists of a script, as trees. `transpile_sh`
is the transpiler: what text it writes for each, as a statement or as an
expression. `ExecAll` runs that text with the commands of `shrt.luau`: values
returned, exit codes recorded, texts printed or captured. `RunBody` and what it calls is what POSIX has a
shell do. `odd` collects, on the way, whatever a script relies on that the
translation does not keep; `SameInShell` is about scripts that rely on none of
it, and section 7 lists them. Both are recursive, and checked only by TLC.

### ModuleDocs and ModuleCalls

ModuleDocs are the documentation tables of the modules, name by name and type by
type, as they are in the code: they are what arguments are validated by and
flags are bound by. In ModuleCalls a call is a choice of parameters and fields
and a style (long flags, letters, positions; values, names in a script). `Parse`
makes the table of flags, `Run` is `sh.run` with its special case for `fs read`,
`Script` is a call from Luau, `Call` is `validate_args`. A value is known by the
parameter it was written for, so a value in the wrong place shows.

### FileWindow

`Parse` turns one of the eight forms of a call into a `ReadRequest` or an error,
`Open` takes the length from the metadata and computes what to copy, `CopyByte`
copies a byte, `Probe` looks for growth; between any two, `HostEdits` appends to
the file or truncates it. `seen` are the contents the file had since it was
opened. Offsets are in halves, so that fractions can be asked for.

### Archive

The host's directory tree is a function from paths to nodes, one call of
`compress.*` an action: what it writes, what it leaves behind when a source is
missing or an entry stops it, and what a reader of the archive then finds
(`whole`). `packs` remembers what the sources held. Files are opaque, archives
sequences of entries; what is packed and extracted again is compared with the
sources as functions from names (`Held`, `Unpacked`), where the code's walk of a
directory and its order (`Walk`) do not occur. The mount itself is never a source:
it has no name to be packed under.

### Calendar

EventKit is external: a store of events whose notes list their attachments. A
call sends commands to the one worker (`queue`), which a dialog may hold
(`UserAnswers`) and which may stop (`WorkerStops`). An attach copies one file
per step, and takes its copies back when it is refused; an `edit` is an update
that leaves the notes out. Notes and copies are sets of files, as their order is
never looked at. `mixed` are events that overlapping calls changed, or whose
change was saved and reported as failed.

### Sfae

The provider is external: it expires access tokens, rotates refresh tokens and
lets the user take a grant back (`TakenBack`). A request that is refused looks
up the refresh token, asks the provider and stores the answer, in three steps
between which the store is unlocked; `sfae.oauth` revokes, waits for the user,
stores each token on its own. `disturbed` and `spoiled` say what came between.

### Terminal

Page and worker are two processes with a queue of messages each way: `setMode`,
`sendEval`, `onMessage`; `createSession`, `evalLine`, `Traps`. A session
collects lines into a chunk by what the error text of a trial says. `loop` are
the loops of the command line on the same lines. A line is known by what the
programs tell apart (blank, whole, opens or closes a block, fails with a text
that looks unfinished).

### WebViewPdf

`os` chooses the system. On Apple's a call makes a pipeline and hands it from
block to block of the main queue (`pipeline_setup`, `pipeline_poll`,
`pipeline_create_pdf`, `signal_result`), while its caller waits on a semaphore
and may give up (`GivesUp`); from the main thread it runs the same steps and
spins the run loop. On Windows and Linux the caller spins: `create_environment`,
`create_controller`, `spin_load`, `spin_print`, with the system's answers as
actions of their own. `file` is the one temporary file of Linux.

### ImageStore

Every command is an operating system process, every call to the file system or
to cargo a step. `bin` and `image` are the two files of a name; opening a file
for writing truncates it (`Broken`), and `fd` tells whether another process
opened it too or unlinked it. `Abort` is a failing call or a kill at any step.
`meddled` marks commands whose sandbox or manifest another process changed
while they ran, `spoiled` names left behind by a command that was disturbed or
did not end. `ExitWithError` is `process::exit(1)`, which runs no destructor.

## 4. Runs

All runs check deadlock, except where the system may rightly stop: all sessions
freed (`bridges`), the sandbox dropped (`mount_fs`), the script translated and
executed (`translations`), and in runs that show a violation. Where a cap on the
number of steps or commands is reached, `Over` stutters.

| Run | Module and instance | States | Shows |
|---|---|---|---|
| `http_policy` | MCGateways: 2 clients, 1 domain, entries for it, its parent and `*`; an exact and a wildcard credential; every initial list, with and without prompt. Or 2 SFAE threads, 3 calls, 2 grants, 2 rotations | 1 107 111 | `DenialHolds`, `AdmissionLinearizable`, `CredentialsReadAfterVerdict`; `GrantKept`, `RefreshHeals` |
| `http_policy_race` | MCHttpPolicy, without credentials | violation | `DenyOverridesAllow` fails: finding 1 |
| `doc_futures` | MCDocuments: 2 sandboxes, 3 reads (two of one document, two of one sandbox), 1 permit, crashes. Or 2 calls for a PDF from 3 threads, on each system | 65 090 | `TornOnlyIfSpoiled`, `AwaitReturns` (liveness), `KeepsPromise` (refinement of AsyncReads); `RendersItsOwn`, `ViewsAccounted`, `RendersReturn` (liveness) |
| `doc_torn_cache` | MCDocFutures: 1 sandbox, 3 reads, 2 permits | violation | `WholeText` fails: finding 2 |
| `mount_fs` | MCFiles: 2 volumes, 2 host trees, every table of up to 2 mounts at `/`, `/a`, `/a/a`, read-only or not, on the volumes or on a part of one, `/tmp` besides; one synthetic directory; 14 virtual paths, 5 of them with `..` or `.`. Or a read of one of 6 contents with up to 2 edits and a limit of 3 bytes. Or 2 calls of `compress.*` on 2 trees | 170 084 | `OnlyWritableHostChanges`, `UnwritableUntouched`, `MountsStay`, `AnswersAgree`; `ReadsAsAsked`; `RoundTrip` |
| `mount_roots` | MCMountFs, with the same mounts and paths | violation | `SystemDirectoriesStay` fails: finding 5 |
| `mount_synthetic` | MCMountFs, with the same mounts and paths | violation | `SyntheticReadOnly` fails: finding 6 |
| `bridges` | MCBridges: every combination of absent, whole and broken groups, all 8 builds, 1 session, 1 thread, 2 workers. Or 2 threads, 2 workers, 2 sessions, 2 offers, 4 builds. Or 2 callers, 3 calls of the calendar, 1 event, 1 file | 392 266 | `FreedAtMostOnce`, `EverythingHandedBack`, `NoCallAfterFree`, `ErrorShownWithoutOverlap`, `WaitingCallersServed` (liveness); `AttachmentsAccounted`, `CallsReturn` (liveness) |
| `command_line` | MCCommandLine: up to 3 commands per evaluation, any number of evaluations, contexts 2 deep, texts with, without, and of only a newline, and none. Or 4 lines and 2 clicks in the terminal. Or 3 commands, 2 names, 3 manifests (one invalid, one that covers `/`), 1 edit | 408 168 | `NextEvalPrints`, `StdoutAsWritten`, `QuestionMarkIsReported`; `PromptTruthful`, `LinesAccounted`, `SameAsCommandLine`; `ReadyMeansInstalled`, `InstalledPair`, `SessionMatchesManifest`, `RemovedCompletely` |
| `shell_exit` | MCShellEval: 2 commands, 1 context | violation | `ExitKeepsOutput` fails: finding 3 |
| `translations` | MCTranslations: 18 887 Python scripts (3 950 of loops, jumps, try and raise two statements deep, 153 with statements behind a jump, 14 784 of names in blocks); 17 679 shell scripts; 35 382 calls, of every documented function | 241 170 | `SameBehaviour`, `CompilesUnlessLeavingTry`, `FinallyRuns`; `SameInShell`; `ReachedMeansBound`, `DocumentedCallsArrive` |
| `image_exit` | MCImageStore: 2 commands, 1 name | violation | `EphemeralRemovedAtExit` fails: finding 4 |

The type invariants of the six modules with a `TypeCorrect` theorem, and
`DecidedNeverPrompts`, `PermitsAccounted`, `BatchResolved`, `ResolvedOnce` and
`HandlersSerialized`, hold for every size by their theorems (section 5), and no
run checks them again.

**Bounds and why they are enough.**
Two clients and a host already give every pair of locked sections an
interleaving, and a check touches two lists once each; the theorems cover more.
Three reads are the least with both a shared cache key across sandboxes and a
semaphore that somebody waits on; one permit makes all others wait.
Two mounts and three mount points give every relation two mounts can have
(disjoint, nested, shadowing, overlapping on the host), and the automatic
`/tmp` is a third. The paths with `..` and `.` end in one, and so denote a mount
root under another name, go out of their mount, or reach a synthetic directory
past its name. `mount_fs` identifies states by the `VIEW Standing`, which leaves
out `event` and `indirect`: both only tell what the last step did, no action
reads them, and TLC checks action properties at each step, also at one to a state
it has seen. Every family of callbacks occurs in every state of the first way of `bridges`,
which needs one session as contexts are not shared; what
threads can do to each other needs two of each (the second way), for which two
offers suffice that make scripts, workers and a failing constructor meet; a
calendar is in neither, so builds with and without it are the same there.
`MaxSteps` and `MaxNest` of ShellEval bound one evaluation, not their number:
state that outlives an evaluation goes through any sequence of them. In
ImageStore a third command is the least that can come between two others, and
one edit falls between any two steps. Symmetry is used on clients, commands and names, which nothing distinguishes, and
only in runs without liveness. Where a run has liveness, `FirstCalls` and
`FirstBegins` name the first of several like callers, threads and sessions
instead.

Two SFAE threads and three calls are the least in which a third call finds what
two overlapping ones left; two grants let a new consent replace an old one. A
calendar's callers only meet at the worker and at one event, for which two and
three calls suffice; events do not interact. A read is disturbed by growth, by
truncation or by both in either order, which are two edits; the limit of three
bytes is below, at and above the lengths of the contents. An archive needs a
call that makes it and one that reads it; sources are a directory, a file, a
missing one, and each twice. Four lines are the least to open a chunk, leave it
by a click, come back and end it. Two calls for a PDF meet in every way two can;
nothing of a third is not already between the first two.

In PyTranspile 1 389 of the 4 103 control scripts and 708 of the 14 784 name
scripts satisfy `Supported`, so `SameBehaviour` is not about empty cases; the
scripts of names are mostly ones that read a name out of its block. 511 of the
control scripts it excludes behave the same all the same: the conditions are
sufficient, and not meant to be necessary. 136 scripts have a
statement behind a jump, and none of these compiles. `FinallyRuns` applies to 1 059
scripts with a finally clause, 462 of which are not `Supported`.
The shell scripts are every command, list, pipeline and guard of a set, alone,
in blocks two deep and in functions, between assignments of `x` and what shows
`x` and the exit code; 9 102 of them rely on nothing that `SameInShell` exempts.
Calls are made with none, one, all but one and all of the optional arguments, in
every style, with plain values, with text that spells a number, with numbers below
zero, and with text that begins with a dash (`-x`, `--xx`, `-` and `-+`, which the
translation tells apart); 11 389 are not exempt from `ReachedMeansBound`, and
`DocumentedCallsArrive` is an equivalence: its exceptions are all there are.

**Fairness.** `DocFutures!FairSpec` has weak fairness for each worker's next
step and for the return of `await`: workers are operating system threads joined
by `std::thread::scope`, and callbacks return. Nothing makes scripts go on, the
disk work or processes crash or stop crashing. That a permit goes to a waiting
worker is not assumed, only that one which finds it free takes it; so
`AwaitReturns` is about `notify_one` and the guard that gives permits back.
`FfiSession!FairSpec` has weak fairness for entering a handler whose lock is
free and for its return; a handler that evaluates in its own session would
deadlock, and is left out (hazard at `ffi/src/lib.rs:167`). Weak fairness alone
serves waiting workers because an evaluation starts a bounded number of them
and none queues twice before it ends. `CalendarFairness` has weak fairness for
the worker, the callers' next steps and the user's answer to the dialog: nothing
times out there, and a user who never answers does hold every caller.
`WebViewFairness` has weak fairness for the threads that wait, whose waits
end by their clocks, and for WebView2's answer to the creation of a view, which
the code waits for without a timeout (`windows.rs`). Nothing is asked of the main
queue, of pages and of print operations; a wait of 35 s that spurious wake-ups
start again is taken to end. All other runs check safety under no fairness at
all.

## 5. Proofs

Each theorem holds for every value of the constants that satisfies the named
assumptions of its module: `PolicyAssumption` (entries include the domains),
`ReadsAssumption` (finitely many reads, each with an owner and a key, at least
one permit), `PathsAssumption` and `HostsAssumption` (paths are sequences of
names; mount points, synthetic directories, `/tmp` and the host's own paths have
no `..` and `.` in them, paths of scripts may; the host's paths are closed under
parents, and its initial contents a tree), `NamesAssumption` and `OffersAssumption` (threads are not workers),
`TextsAssumption` and `CodesAssumption`, `ManifestsAssumption` and
`MarksAssumption`, `ContentsAssumption` and `NumbersAssumption` (files are texts
below the length that stands for no limit), `EventsAssumption` and
`ThreadsAssumption` (the value "none" of the model is no event and no thread),
`TreesAssumption` and Archive's `NamesAssumption` (the mount is a tree at first,
archives made elsewhere are made of files, paths are sequences of names).
TLC evaluates them in every run of the module. Sfae and Terminal assume nothing.

| Module | Theorems | Inductive invariant, and why it is needed |
|---|---|---|
| GatewayProofs, HttpPolicy | types; `DenialHolds`, `DecidedNeverPrompts`, `AdmissionLinearizable`, `CredentialsReadAfterVerdict` | `ClientInv` ties the history of a check to the lists *now*: denied at every instant so far implies denied now, admissible now implies recorded, and each program point keeps what the check has read. `RememberAllow` by another client and the first half of a remove are why the properties alone are not inductive. |
| DocFuturesProofs | types; `PermitsAccounted`, `BatchResolved`, `TornOnlyIfSpoiled`, `ResolvedOnce`; `KeepsPromise`, that DocFutures implements AsyncReads | `Idle` (a running script has no worker), `SlotFilled` (a slot is full exactly from the step that fills it on), `CutFileExplained` (a cut file has a writer at work or is recorded), `SharedKeysSpoiled`. The permits are counted with the cardinality lemmas of `FiniteSetTheorems`. The refinement has one lemma per abstract step; the steps of workers between queue and slot are shown to be invisible (`Hidden`). |
| MountFsProofs | types; `OnlyWritableHostChanges`, `UnwritableUntouched`, `MountsStay`, `AnswersAgree` | `AncestorsKept`: what is missing on the way to a mount is below a read-write mount. Needs that the longest matching mount exists (`MountOfCovers`, from well-founded induction on lengths) and that the host path of a path is below its mount, which `resolve` checks at the end and which for the deep resolution follows from names that only lead down (`WalkDown`); that a path without `..` and `.` leads where its names say (`DirectPlace`), so that the place of one that is not a mount root is not the root (`DirectlyStays`). For the types, that every operation leaves the host a tree; `AnswersAgree` and `UnwritableUntouched` need no more than these types, case by case over what a path is (synthetic, virtual, below a mount). |
| MountFsProofs, FileWindow | `WindowOfAVersion`, `ReadsAsAsked` | `ReadInv`. What has been copied is a window of the file as it is, unless it was cut (`Window`), and of the file as it was when it was opened, unless it grew (`Opened`: the file is still a prefix of that). A window as long as asked for, or one that ends where the file ends, is the range (`Whole`, `SliceIs`). `RangeInv` adds that the request is what the call asks for (`Exactly`), which every form of a call parses to (`ParseExact`). That the code's slices are the range as `WantedRange` says it, without the code, is `SliceLinesIs` and `SliceBytesIs`: the k-th element of a set of positions is the one of rank k (`NthIs`), lines end where newlines are (`LinesIs`), and joining a run of them gives back the text between two newlines (`JoinLines`). |
| ArchiveProofs | `RoundTrip` | `ArchivesHold`: the mount is a tree of files that are made of files, and each archive that a call made describes what its sources held (`Describes`). A walk visits each place below a directory once, as the order of paths is total and ranks are different (`WalkVisits`, by cardinality), so the entries of a source are what it held (`AppendedIs`, `EntriesOfIs`), and they are read when the archive is there already (`HeldSame`). Extracting entries one by one leaves under each name the last one (`FilledNext`, `ExtractionGives`), which is what `Unpacked` says without any order (`UnpackedIs`). |
| FfiSessionProofs | types; `FreedAtMostOnce`, `EverythingHandedBack`, `NoCallAfterFree`, `HandlersSerialized`, `ErrorShownWithoutOverlap` | `Owned` and `NoneForgotten` follow the order of validation: groups before the current one are in a bridge or released and never both, none after it is. `CallersAccounted` keeps a session alive while anybody calls back; `FailureUndisturbed` says who may be in a call while an error is owed. |
| FfiSessionProofs, Calendar | `AttachmentsAccounted` | `CInv`. `Queued`: a command in the queue is the one its caller waits for, and no caller has two. `Standing`: how the files of an event differ from what its notes list, at each stage of the one call that changes it (`Alone`; the others are `mixed`): the copies made so far, and nothing else. Names of copies are fresh because among finitely many files some suffix is unused (`FreshPath`, by cardinality). |
| ShellEvalProofs | types; `NextEvalPrints`, `StdoutAsWritten`, `QuestionMarkIsReported` | `Balanced`: the suppression depth is the number of open contexts. `Buffered`: what was written is the buffer and the newline it owes. `CodeKept`: the code an exit raises is in `$?` until the host has it. |
| ShellEvalProofs, Terminal | `PromptTruthful`, `SameAsCommandLine`, `LinesAccounted` | `TermInv`. Page and worker are quiet, making a session, or one of them has sent the other its message; in each the worker's session is that of the command line. `Fits`: chunks hold lines of their mode in the order they were entered; `Whole`: a line is in a chunk, is blank, or its mode was left after it. |
| GatewayProofs, Sfae | `GrantKept`, `RefreshHeals` | A call nobody has disturbed holds what is in the store (`LookedUp`), or what the provider gave it, which is still good (`RefreshAnswers`, `Granted`): this ties the tokens in its hands to the store while the store is unlocked. |
| WebViewPdfProofs | `RendersItsOwn`, `ViewsAccounted` | `Chains`: a call has one block in the main queue until its caller is told, and its pipeline lives exactly while that block is the poll or the completion. `Printing`: the document in the one file of Linux is one its call will read, or has given up. `Freed` and `Apart` say what each system holds at each stage. |
| ImageStoreProofs | types; `InstalledPair`, `SessionMatchesManifest`, `ReadyMeansInstalled`, `RemovedCompletely` | `Clean`: what a command nobody has disturbed may rely on at its next step (a build that nobody disturbed has the binary of its manifest in its hands, and so on). `Validated`: a build works from a manifest that passed validation. |

`DecidedNeverPrompts`, `PermitsAccounted`, `BatchResolved`, `ResolvedOnce`,
`HandlersSerialized` and the types are theorems that no run repeats.

**Only model-checked.** Liveness (`AwaitReturns`, `WaitingCallersServed`,
`CallsReturn`, `RendersReturn`): the provers here do not handle fairness. The
translations (`SameBehaviour`, `CompilesUnlessLeavingTry`, `FinallyRuns`,
`SameInShell`, `ReachedMeansBound`, `DocumentedCallsArrive`): their definitions
are recursive over scripts and calls.

Induction over data is done by least counterexamples (`Least`, from the
well-founded order of the naturals), as the induction theorems of the library
take an operator that the provers cannot instantiate; what the recursive function
inside `FlattenSeq` computes follows from a function that satisfies its equation
(`FlattenIs`).

## 6. Not modelled, and why

* Data modules, readers of document formats, `grep`, `csv`, Python's runtime
  library: functions of their arguments, over libraries, with nothing that could
  come between two steps. The choice of a format and the options of `doc.render`
  (`render.rs`, `doc_reader.rs`), and the geometry of pages.
* HTTP backends, the location gateway, the web browser gateway: one call of the
  platform or of the host. To HttpPolicy a backend is one call; what the host
  lends for the others is in FfiSession.
* EventKit, WebKit, WebView2, GTK, the keychain and the provider of OAuth tokens
  are external: modelled as far as the code waits for them or reacts to them.
  Left out of Calendar: access changed in the system's settings while a call is
  under way, and what EventKit keeps of a change it refused and did not reset.
* Symbolic links, repeated and trailing slashes, names of files that are not
  UTF-8, `fs.size`, `fs.grep` and `fs.tree`: MountFs is about the table of mounts;
  links are a question of the host.
* Time: `timeout_ms` of an evaluation is read and never used
  (`ffi/src/lib.rs:1195`), so there is no timeout to model.
* Re-entrant host callbacks (`ffi/src/lib.rs:167`: a browser handler whose script
  calls the browser again waits for itself; `:551`: a `user_data_free` that calls
  back), and two threads in one session (`sandbox.rs:84`: each clears the other's
  print buffer): `docs/` has hosts use a session from one thread.
* The temporary directory that a crashed sandbox leaves behind, and a later
  process with the same id finds (`sandbox.rs:614`); on Linux the failure to
  remove the temporary PDF.
* An archive that is copied into itself grows until the disk is full; Archive
  has it as a call that does not return (`endless`).
* Terminal: line editing, history, Ctrl-C and Ctrl-D, completion; the message
  `reset`, which the worker handles and the page never posts.
* The parsing of configurations, PDFium discovery, source maps; CI tools and the
  vendored parser.

## 7. Findings

Each is shown by a run whose counterexample TLC prints.

1. `http_policy_race` / `DenyOverridesAllow` (`policy.rs:90`): a check that has
   read the deny list is admitted by an entry that is allowed after the domain
   was denied. At no instant was the domain allowed and not denied.
   `policy.rs:79` says that "explicit deny entries override allow entries".
   `AdmissionLinearizable` says when it does hold: if nothing joined the deny
   list during the check.
2. `doc_torn_cache` / `WholeText` (`doc/vision.rs:84`): the cache file is
   truncated, then written, and errors are ignored. After a crash or a full disk,
   or next to a second read of the same document, a read succeeds with a cut
   text, and after a crash every later one does. `TornOnlyIfSpoiled` says that
   there is no other way.
3. `shell_exit` / `ExitKeepsOutput` (`ffi/src/lib.rs:1217`): `echo hi; exit 3`
   answers with an empty stdout.
4. `image_exit` / `EphemeralRemovedAtExit` (`cli/src/main.rs:1123`): a session
   whose script raises an error leaves its scratch directory behind.
5. `mount_roots` / `SystemDirectoriesStay` (`core/src/sandbox.rs:1492`, and `:1455`
   for `fs.rename`): `is_mount_root` compares the text of a path, and `resolve`
   follows it (`mount.rs:339`). `fs.remove("/a/..")` under a read-write mount at `/`
   removes the mount's host directory and all that is in it; `/a/.` does so for a
   mount at `/a`. `mount.rs:35` says of a mount that it "is a system directory and
   cannot be removed or renamed". `MountsStay` says when it does hold: for
   read-only mounts always, for others if the path has neither `..` nor `.`.
6. `mount_synthetic` / `SyntheticReadOnly` (`mount.rs:298`): `synthetic_dir_for`
   compares text as well. With `/` mounted read-write, `fs.mkdir("/./etc/x")`
   makes a directory that `fs.exists("/etc/x")` then sees. `mount.rs:294` says that
   it is there "to keep pseudo filesystems such as `/proc`, `/etc`, and `/dev`
   read-only even when `/` is backed by a writable root mount".
   `UnwritableUntouched` says when it does hold.

Seen while modelling, and not the subject of a run:

* `doc`: a vision callback that panics leaves its future empty, and a later await
  of it is the case that `doc.rs:671` says "shouldn't happen".
* `fs`: copying a file onto itself empties it (`sandbox.rs:1621`);
  `fs.writable` holds for a directory that is only there because a mount is
  below it, which `fs.write` calls read-only (`sandbox.rs:1406`).
* C ABI: a constructor refused for a missing file-activity handler does not
  release the web browser context (`ffi/src/lib.rs:546`; `cpsl.h:94` says that
  contexts are handed back); the end of an overlapping call clears the error
  another thread has yet to read (`ffi/src/lib.rs:723`). Both are excluded by
  name in `EverythingHandedBack` and `ErrorShownWithoutOverlap`.
* Shell: `pwd`, `printf`, `sort` and assignments leave the exit code of an
  earlier command; a redirection sets it to 0 after a command that failed; a
  pipeline that ends in `true`, `false` or `test` raises an error
  (`shrt.luau:1274`); `cd`, `which`, `help`, the stubs and `base64` print into
  what captures them (`shrt.luau:447`); a lone `print("")` prints nothing;
  `cat missing existing` reports the code of the last file; a substitution of
  several commands returns nothing (`sh_transpile.rs:1298`).
* Shell transpiler: a guard is the truth of a Luau value, so `if grep -q` is
  always taken and `if mkdir d` never (`sh_transpile.rs:1077`), and `&&` and `||`
  mixed in a guard are grouped by Luau; names first assigned in a block or a
  function are local to it (`:188`); `!` before a command is dropped where the
  exit code is asked for (`:114`); an unset variable inside a longer text raises an
  error, and `[ $? = 0 ]` compares a number with a text (`:1259`); `$(a; b)` is
  empty, compound commands in substitutions and pipes are left out, a subshell
  keeps neither its variables nor its exit to itself (`:1288`); division and
  remainder round to minus infinity, and of comma-separated arithmetic only the
  last is evaluated (`:1359`).
* Calls: the usage text shows one-letter flags for every function, and only `fs
  read` binds them (`sandbox/doc.rs:273`); it says JSON for parameters that are tables,
  which nothing parses (`sandbox/doc.rs:35`); a flag that is a word of Luau (`edgar search
  --end`) does not compile (`sh_transpile.rs:831`); a word that begins with a dash is
  a flag even in quotes, as quotes are removed before (`:847`, `:856`, `:1428`), so
  `--n -5` and `http post --url U --body "-x"` are two flags each, the text is lost,
  and `regex match --pattern "-+" --text t` does not compile; text that spells a
  number becomes one and is refused (`shrt.luau:1577`); an
  optional argument that is left out shifts the later ones (`shrt.luau:1700`).
  `DocumentedCallsArrive` names exactly these, for values of the kinds that its
  calls have (section 4).
* `fs.read` of a dynamic file with an offset above zero is empty in buffer and
  base64 mode; base64 and text have no check for a file that changed.
* Calendar: an attach and another change of the same event at once lose
  attachments (`calendar.rs:337`).
* Archives: an archive among its own sources may never end, or holds a part of
  itself (`compress.rs:537`).
* SFAE: `sfae.oauth` revokes the old grant before the user has consented to a new
  one (`sfae.rs:557`).
* WebView PDF: on the error paths of Windows the hidden window is not destroyed
  (`windows.rs:36`); on Linux all prints of a process share one file, so a print
  that fails can answer with one that came too late (`linux.rs:38`).
* Terminal: a Lua chunk whose run-time error reads like that of an unfinished
  chunk is kept and run again with the next line (`cli/src/main.rs:1477`); a click
  back to a mode with an open chunk shows the prompt of a fresh one
  (`web/public/main.js`).
* Python: a finally clause does not run after a handler or an else-clause that
  raises or jumps, although `core/tests/compat/python/errors/try_except.py:33`
  says "finally always runs"; errors that no handler matches are lost, also
  those that `except Exception` should match; `return` in the body of try leaves
  only that body, and `break` and `continue` there do not compile; a `break` in
  an inner loop without an else-clause cancels the else-clause of an outer loop
  (`transpile.rs:968`); names first assigned in a block are not visible after it,
  and later assignments go to a global; a statement behind `return`, `break` or
  `continue` in its block, which Python allows, is emitted as it is and does not
  compile (`transpile.rs:968-978`; `CompilesUnlessLeavingTry` says so); a function that assigns a name of its
  module overwrites it; `raise` without operand after an inner try raises the
  error of the inner one; `and` and `or` are joined without parentheses
  (`transpile.rs:486`).
* CLI: `docs/feature-flags.md` calls `[modules]` required, and `config.rs:160`
  gives it a default.
