---------------------------- MODULE ImageStore ----------------------------
(***************************************************************************)
(* The sandboxes a user builds with `cpsl build`, starts with `cpsl run`   *)
(* and removes with `cpsl rm`: cli/src/main.rs and cli/src/config.rs.      *)
(*                                                                         *)
(* A sandbox is two files, the binary ~/.cpsl/bin/<name> and the manifest  *)
(* ~/.cpsl/images/<name>.toml.  Every command is an operating system       *)
(* process of its own; nothing locks the two files, and all builds share   *)
(* the output file of cargo, target/release/cpsl-cli.  A step of a command *)
(* is one call to the file system, between two of which any other command  *)
(* may take a step, the user may edit the manifest, and the command may    *)
(* fail or be killed.                                                      *)
(***************************************************************************)
EXTENDS Naturals

CONSTANTS
  Cmds,             \* the commands the user starts, each a process
  Names,            \* names of sandboxes
  Registry,         \* MODULE_REGISTRY: the modules a manifest can enable
  Manifests,        \* texts of cpsl.toml that parse, valid or not
  MaxEdits,         \* bound of the times the user edits cpsl.toml
  Absent, Broken    \* no such file; a file that is empty or half written

Providers == {"fff", "ripgrep"}
Entries   == {"on", "off", "external"} \cup Providers
Binaries  == [features : SUBSET (Registry \cup Entries)]   \* what cargo compiled

ASSUME ManifestsAssumption ==
  /\ \A m \in Manifests :
       /\ m.root \in BOOLEAN   \* a volume of the manifest covers "/"
       /\ \A k \in DOMAIN m.modules : m.modules[k] \in Entries
  /\ "grep" \notin Registry /\ MaxEdits \in Nat

ASSUME MarksAssumption ==
  /\ Absent \notin Manifests \cup Binaries \cup Names
  /\ Broken \notin Manifests \cup Binaries \cup {Absent}

VARIABLES
  manifest, edits,  \* cpsl.toml in the user's directory
  target,           \* target/release/cpsl-cli
  bin, image,       \* the binary and the saved manifest of each name
  pc, name,         \* where each command is, and the sandbox it is about
  config,           \* the manifest a command read
  copy,             \* build: the bytes being copied; run: what was started
  saved,            \* build: the text cpsl.toml had when it was read again
  fd,               \* build: the file it is writing
  ephemeral,        \* sessions whose scratch directory exists
  meddled, spoiled  \* history: commands disturbed by others, and names
                    \* whose files a disturbed or unfinished command left

store == <<bin, image>>
locals == <<name, config, copy, saved, fd>>
commands == <<manifest, edits, target, store, pc, locals, ephemeral, meddled, spoiled>>

---------------------------------------------------------------------------
(* Manifests: cli/src/config.rs *)

\* SandboxConfig::validate; as a table, an entry of any module but grep is refused
Valid(m) ==
  \A k \in DOMAIN m.modules :
    IF k = "grep"
    THEN m.modules[k] \in Providers /\ "fs" \in DOMAIN m.modules /\ m.modules["fs"] = "on"
    ELSE k \in Registry /\ m.modules[k] \in {"on", "off"}

\* SandboxConfig::to_cargo_features
Features(m) ==
  {k \in DOMAIN m.modules \ {"grep"} : m.modules[k] = "on"}
    \cup (IF "grep" \in DOMAIN m.modules THEN {m.modules["grep"]} ELSE {})

\* what `cargo build --features` makes of a manifest
Compiled(m) == [features |-> Features(m)]

---------------------------------------------------------------------------
(* Commands *)

\* between its first change of a sandbox and its last
Changing == {"fill", "reread", "save", "write", "rmImage", "unlinkImage"}
\* a change another command makes to the sandbox is to its disadvantage
Exposed  == Changing \cup {"config", "spawn", "rmBin", "unlinkBin"}
Working  == Exposed \cup {"compile", "compileLib", "open", "session"}
Ended    == {"ok", "error", "killed"}

Touched(p) == {q \in Cmds \ {p} : name[q] = name[p] /\ pc[q] \in Exposed}
Busy(n)    == {q \in Cmds : name[q] = n /\ pc[q] \in Changing}

Goto(p, to) == pc' = [pc EXCEPT ![p] = to]

\* The process is gone, and its locals with it; others saw its last step.
EndWith(p, how, others, open) ==
  /\ Goto(p, how)
  /\ name'   = [name   EXCEPT ![p] = Absent]
  /\ config' = [config EXCEPT ![p] = Absent]
  /\ copy'   = [copy   EXCEPT ![p] = Absent]
  /\ saved'  = [saved  EXCEPT ![p] = Absent]
  /\ fd'     = [open   EXCEPT ![p] = "none"]
  /\ meddled' = (meddled \cup others) \ {p}

End(p, how, others) == EndWith(p, how, others, fd)

Meddle(cmds) == meddled' = meddled \cup cmds

\* How a command leaves its sandbox.
Settle(p) == spoiled' = IF p \in meddled THEN spoiled \cup {name[p]} ELSE spoiled \ {name[p]}

\* Others in the middle of writing the file p opens or writes; the file is
\* the binary at "fill" and the saved manifest at "write".
Writers(p, stage) ==
  {q \in Cmds \ {p} : pc[q] = stage /\ name[q] = name[p] /\ fd[q] # "unlinked"}

\* File::create: the file is truncated, whoever else has it open
Create(p, stage) ==
  fd' = [q \in Cmds |-> IF q = p THEN IF Writers(p, stage) = {} THEN "own" ELSE "shared"
                        ELSE IF q \in Writers(p, stage) THEN "shared" ELSE fd[q]]

\* What is under the name when p has written its bytes: nothing of it if the
\* file was removed meanwhile, maybe a mixture if others wrote to it too.
Written(p, stage, old, bytes) ==
  CASE fd[p] = "unlinked" -> {old}
    [] fd[p] = "own"      -> {bytes}
    [] OTHER              -> IF Writers(p, stage) = {} THEN {bytes, Broken} ELSE {Broken}

\* A file is removed: who has it open writes on to something nobody sees.
Unlinked(p, stage) == [q \in Cmds |-> IF q \in Writers(p, stage) THEN "unlinked" ELSE fd[q]]

StoreInit ==
  /\ manifest \in Manifests /\ edits = 0
  /\ target = Absent
  /\ bin = [n \in Names |-> Absent] /\ image = [n \in Names |-> Absent]
  /\ pc = [p \in Cmds |-> "idle"]
  /\ name = [p \in Cmds |-> Absent] /\ config = [p \in Cmds |-> Absent]
  /\ copy = [p \in Cmds |-> Absent] /\ saved = [p \in Cmds |-> Absent]
  /\ fd = [p \in Cmds |-> "none"]
  /\ ephemeral = {} /\ meddled = {} /\ spoiled = {}

---------------------------------------------------------------------------
(* cpsl build *)

\* The manifest is read and validated before anything else is done.
Build(p) ==
  /\ pc[p] = "idle"
  /\ IF manifest # Absent /\ Valid(manifest)
     THEN \E n \in Names, to \in {"compile", "compileLib"} :
            /\ Goto(p, to)
            /\ name' = [name EXCEPT ![p] = n]
            /\ config' = [config EXCEPT ![p] = manifest]
     ELSE Goto(p, "error") /\ UNCHANGED <<name, config>>
  /\ UNCHANGED <<manifest, edits, target, store, copy, saved, fd, ephemeral, meddled, spoiled>>

Compile_Cached(p) ==
  /\ pc[p] = "compile"
  /\ target' = IF target = Absent THEN Compiled(config[p]) ELSE target
  /\ Goto(p, "open")
  /\ Meddle({q \in Cmds : pc[q] = "open" /\ Compiled(config[q]) # Compiled(config[p])})
  /\ UNCHANGED <<manifest, edits, store, locals, ephemeral, spoiled>>

\* cargo, which holds its own lock, replaces the one output file.
Compile(p) ==
  /\ pc[p] = "compile"
  /\ target' = Compiled(config[p])
  /\ Goto(p, "open")
  /\ Meddle({q \in Cmds : pc[q] = "open" /\ Compiled(config[q]) # Compiled(config[p])})
  /\ UNCHANGED <<manifest, edits, store, locals, ephemeral, spoiled>>

\* With --lib cargo builds cpsl-core, and no sandbox is installed.
CompileLib(p) ==
  /\ pc[p] = "compileLib"
  /\ End(p, "ok", {})
  /\ UNCHANGED <<manifest, edits, target, store, ephemeral, spoiled>>

\* std::fs::copy opens both files, and truncates the second.
OpenBinary(p) ==
  /\ pc[p] = "open"
  /\ copy' = [copy EXCEPT ![p] = target]
  /\ bin' = [bin EXCEPT ![name[p]] = Broken]
  /\ Create(p, "fill")
  /\ Goto(p, "fill")
  /\ Meddle(Touched(p) \cup IF Writers(p, "fill") = {} THEN {} ELSE {p})
  /\ UNCHANGED <<manifest, edits, target, image, name, config, saved, ephemeral, spoiled>>

FillBinary(p) ==
  /\ pc[p] = "fill"
  /\ \E b \in Written(p, "fill", bin[name[p]], copy[p]) : bin' = [bin EXCEPT ![name[p]] = b]
  /\ fd' = [fd EXCEPT ![p] = "none"]
  /\ Goto(p, "reread")
  /\ Meddle(Touched(p))
  /\ UNCHANGED <<manifest, edits, target, image, name, config, copy, saved, ephemeral, spoiled>>

\* The manifest is read a second time, and not validated.
Reread(p) ==
  /\ pc[p] = "reread" /\ manifest # Absent
  /\ saved' = [saved EXCEPT ![p] = manifest]
  /\ Goto(p, "save")
  /\ UNCHANGED <<manifest, edits, target, store, name, config, copy, fd, ephemeral, meddled, spoiled>>

OpenImage_Once(p) ==
  /\ pc[p] = "save"
  /\ IF image[name[p]] = Absent
     THEN /\ image' = [image EXCEPT ![name[p]] = Broken]
          /\ Create(p, "write")
          /\ Goto(p, "write")
          /\ Meddle(Touched(p) \cup IF Writers(p, "write") = {} THEN {} ELSE {p})
          /\ UNCHANGED <<name, config, copy, saved, spoiled>>
     ELSE Settle(p) /\ End(p, "ok", {}) /\ UNCHANGED image
  /\ UNCHANGED <<manifest, edits, target, bin, ephemeral>>

OpenImage(p) ==
  /\ pc[p] = "save"
  /\ image' = [image EXCEPT ![name[p]] = Broken]
  /\ Create(p, "write")
  /\ Goto(p, "write")
  /\ Meddle(Touched(p) \cup IF Writers(p, "write") = {} THEN {} ELSE {p})
  /\ UNCHANGED <<manifest, edits, target, bin, name, config, copy, saved, ephemeral, spoiled>>

\* "Sandbox '<name>' ready"
SaveImage(p) ==
  /\ pc[p] = "write"
  /\ \E t \in Written(p, "write", image[name[p]], saved[p]) : image' = [image EXCEPT ![name[p]] = t]
  /\ Settle(p)
  /\ End(p, "ok", Touched(p))
  /\ UNCHANGED <<manifest, edits, target, bin, ephemeral>>

---------------------------------------------------------------------------
(* cpsl run, and the session the binary runs *)

\* A run that starts while the sandbox is being changed may see half of it.
Run(p) ==
  /\ pc[p] = "idle"
  /\ \E n \in Names :
       IF bin[n] = Absent
       THEN Goto(p, "error") /\ UNCHANGED <<name, meddled>>
       ELSE /\ Goto(p, "config")
            /\ name' = [name EXCEPT ![p] = n]
            /\ Meddle(IF n \in spoiled \/ Busy(n) # {} THEN {p} ELSE {})
  /\ UNCHANGED <<manifest, edits, target, store, config, copy, saved, fd, ephemeral, spoiled>>

\* A sandbox without a saved manifest runs, with no volumes and no domains.
ReadImage(p) ==
  /\ pc[p] = "config"
  /\ LET text == image[name[p]] IN
     IF text = Broken \/ (text \in Manifests /\ ~ Valid(text))
     THEN End(p, "error", {})
     ELSE /\ Goto(p, "spawn")
          /\ config' = [config EXCEPT ![p] = text]
          /\ UNCHANGED <<name, copy, saved, fd, meddled>>
  /\ UNCHANGED <<manifest, edits, target, store, ephemeral, spoiled>>

\* cmd_exec makes a scratch directory unless a volume covers "/"; the session's
\* own -v options come on top of the manifest's.
Scratch(p) ==
  \E covered \in BOOLEAN :
    ephemeral' = IF covered \/ (config[p] # Absent /\ config[p].root) THEN ephemeral ELSE ephemeral \cup {p}

Spawn_FromTarget(p) ==
  /\ pc[p] = "spawn"
  /\ IF bin[name[p]] \in {Absent, Broken}
     THEN End(p, "error", {}) /\ UNCHANGED ephemeral
     ELSE /\ Goto(p, "session")
          /\ copy' = [copy EXCEPT ![p] = target]
          /\ Scratch(p)
          /\ UNCHANGED <<name, config, saved, fd, meddled>>
  /\ UNCHANGED <<manifest, edits, target, store, spoiled>>

Spawn(p) ==
  /\ pc[p] = "spawn"
  /\ IF bin[name[p]] \in {Absent, Broken}
     THEN End(p, "error", {}) /\ UNCHANGED ephemeral
     ELSE /\ Goto(p, "session")
          /\ copy' = [copy EXCEPT ![p] = bin[name[p]]]
          /\ Scratch(p)
          /\ UNCHANGED <<name, config, saved, fd, meddled>>
  /\ UNCHANGED <<manifest, edits, target, store, spoiled>>

\* `cpsl -- code`: a session of cpsl itself, of no sandbox
Exec(p) ==
  /\ pc[p] = "idle"
  /\ Goto(p, "session")
  /\ Scratch(p)
  /\ UNCHANGED <<manifest, edits, target, store, locals, meddled, spoiled>>

\* cmd_exec returns, and the guard removes the scratch directory.
EndSession(p) ==
  /\ pc[p] = "session"
  /\ ephemeral' = ephemeral \ {p}
  /\ End(p, "ok", {})
  /\ UNCHANGED <<manifest, edits, target, store, spoiled>>

\* An error of the sandbox, of its runtime or of the code is process::exit(1),
\* which runs no destructor.
ExitWithError(p) ==
  /\ pc[p] = "session"
  /\ End(p, "error", {})
  /\ UNCHANGED <<manifest, edits, target, store, ephemeral, spoiled>>

---------------------------------------------------------------------------
(* cpsl rm *)

\* The user may answer no.
Rm(p) ==
  /\ pc[p] = "idle"
  /\ \/ Goto(p, "error") /\ UNCHANGED name
     \/ \E n \in Names :
          /\ bin[n] # Absent \/ image[n] # Absent
          /\ Goto(p, "rmBin")
          /\ name' = [name EXCEPT ![p] = n]
  /\ UNCHANGED <<manifest, edits, target, store, config, copy, saved, fd, ephemeral, meddled, spoiled>>

RmBin_Only(p) ==
  /\ pc[p] = "rmBin"
  /\ IF bin[name[p]] = Absent
     THEN End(p, "ok", {})
     ELSE Goto(p, "unlinkBin") /\ UNCHANGED <<locals, meddled>>
  /\ UNCHANGED <<manifest, edits, target, store, ephemeral, spoiled>>

RmBin(p) ==
  /\ pc[p] = "rmBin"
  /\ Goto(p, IF bin[name[p]] = Absent THEN "rmImage" ELSE "unlinkBin")
  /\ UNCHANGED <<manifest, edits, target, store, locals, ephemeral, meddled, spoiled>>

\* Another rm may have been faster, which is an error.
UnlinkBin(p) ==
  /\ pc[p] = "unlinkBin"
  /\ IF bin[name[p]] = Absent
     THEN End(p, "error", {}) /\ UNCHANGED bin
     ELSE /\ bin' = [bin EXCEPT ![name[p]] = Absent]
          /\ fd' = Unlinked(p, "fill")
          /\ Goto(p, "rmImage")
          /\ Meddle(Touched(p))
          /\ UNCHANGED <<name, config, copy, saved>>
  /\ UNCHANGED <<manifest, edits, target, image, ephemeral, spoiled>>

RmImage(p) ==
  /\ pc[p] = "rmImage"
  /\ IF image[name[p]] = Absent
     THEN End(p, "ok", {}) /\ Settle(p)
     ELSE Goto(p, "unlinkImage") /\ UNCHANGED <<locals, meddled, spoiled>>
  /\ UNCHANGED <<manifest, edits, target, store, ephemeral>>

UnlinkImage(p) ==
  /\ pc[p] = "unlinkImage"
  /\ IF image[name[p]] = Absent
     THEN /\ End(p, "error", {})
          /\ spoiled' = spoiled \cup {name[p]}
          /\ UNCHANGED image
     ELSE /\ image' = [image EXCEPT ![name[p]] = Absent]
          /\ EndWith(p, "ok", Touched(p), Unlinked(p, "write"))
          /\ Settle(p)
  /\ UNCHANGED <<manifest, edits, target, bin, ephemeral>>

---------------------------------------------------------------------------
(* What can happen at any time *)

\* Every call to the file system or to cargo may fail, which ends the command,
\* and the user or the system may kill it.
Abort(p) ==
  /\ pc[p] \in Working
  /\ \E how \in IF pc[p] = "session" THEN {"killed"} ELSE {"error", "killed"} : End(p, how, {})
  /\ spoiled' = IF pc[p] \in Changing THEN spoiled \cup {name[p]} ELSE spoiled
  /\ UNCHANGED <<manifest, edits, target, store, ephemeral>>

\* The user changes or removes cpsl.toml.
Edit ==
  /\ edits < MaxEdits
  /\ edits' = edits + 1
  /\ \E text \in (Manifests \cup {Absent}) \ {manifest} :
       /\ manifest' = text
       /\ Meddle({p \in Cmds : /\ pc[p] \in {"compile", "open", "fill", "reread"}
                               /\ config[p] # text})
  /\ UNCHANGED <<target, store, pc, locals, ephemeral, spoiled>>

Step(p) ==
  \/ Build(p) \/ Compile(p) \/ CompileLib(p) \/ OpenBinary(p) \/ FillBinary(p)
  \/ Reread(p) \/ OpenImage(p) \/ SaveImage(p)
  \/ Run(p) \/ ReadImage(p) \/ Spawn(p) \/ Exec(p) \/ EndSession(p) \/ ExitWithError(p)
  \/ Rm(p) \/ RmBin(p) \/ UnlinkBin(p) \/ RmImage(p) \/ UnlinkImage(p)
  \/ Abort(p)

StoreNext == Edit \/ \E p \in Cmds : Step(p)

StoreSpec == StoreInit /\ [][StoreNext]_commands

---------------------------------------------------------------------------
(* Properties *)

\* Types; a build copies a complete cargo output and saves a text that exists.
StoreTypeOK ==
  /\ manifest \in Manifests \cup {Absent} /\ edits \in 0..MaxEdits
  /\ target \in Binaries \cup {Absent}
  /\ bin \in [Names -> Binaries \cup {Absent, Broken}]
  /\ image \in [Names -> Manifests \cup {Absent, Broken}]
  /\ pc \in [Cmds -> {"idle"} \cup Working \cup Ended]
  /\ name \in [Cmds -> Names \cup {Absent}]
  /\ config \in [Cmds -> Manifests \cup {Absent}]
  /\ copy \in [Cmds -> Binaries \cup {Absent}]
  /\ saved \in [Cmds -> Manifests \cup {Absent}]
  /\ fd \in [Cmds -> {"none", "own", "shared", "unlinked"}]
  /\ ephemeral \subseteq Cmds /\ meddled \subseteq Cmds /\ spoiled \subseteq Names
  /\ \A p \in Cmds :
       /\ pc[p] \in Working \ {"session"} => name[p] \in Names
       /\ pc[p] = "idle" => name[p] = Absent
       /\ pc[p] = "open" => target # Absent
       /\ pc[p] = "fill" => copy[p] \in Binaries
       /\ pc[p] \in {"save", "write"} => saved[p] \in Manifests

\* "Sandbox ready" (main.rs:435) is true: unless another command or an edit of
\* cpsl.toml came in between, the name now has the binary compiled from the
\* manifest the build validated, and that manifest is saved next to it.
ReadyMeansInstalled ==
  [][\A p \in Cmds : pc[p] = "write" /\ pc'[p] = "ok" /\ p \notin meddled =>
       LET n == name[p] IN bin'[n] = Compiled(config[p]) /\ image'[n] = config[p]]_commands

\* The two files of a sandbox no command is changing belong together, however
\* many commands ran, failed or were killed, unless the last one to change it
\* was disturbed or did not end.
InstalledPair ==
  \A n \in Names \ spoiled :
    Busy(n) = {} =>
      \/ bin[n] = Absent
      \/ image[n] \in Manifests /\ Valid(image[n]) /\ bin[n] = Compiled(image[n])

\* A session started with `cpsl run` has the volumes and domains of the
\* manifest its binary was compiled from.
SessionMatchesManifest ==
  \A p \in Cmds :
    pc[p] = "session" /\ name[p] # Absent /\ p \notin meddled =>
      config[p] # Absent /\ copy[p] = Compiled(config[p])

\* After "Removed sandbox" (main.rs:744) nothing of it is left.
RemovedCompletely ==
  [][\A p \in Cmds : pc[p] \in {"rmBin", "rmImage", "unlinkImage"} /\ pc'[p] = "ok" /\ p \notin meddled =>
       bin'[name[p]] = Absent /\ image'[name[p]] = Absent]_commands

\* main.rs:799: "The EphemeralDir guard removes the directory when dropped
\* (session exit)", so no session that has exited left one.
EphemeralRemovedAtExit == \A p \in ephemeral : pc[p] \notin {"ok", "error"}
=============================================================================
