------------------------- MODULE ImageStoreProofs -------------------------
(***************************************************************************)
(* What ImageStore promises, for any number of commands, names, manifests  *)
(* and edits.  The inductive invariant says of every command nobody has    *)
(* disturbed what it may rely on at its next step.                         *)
(***************************************************************************)
EXTENDS ImageStore, TLAPS

Building == {"compile", "compileLib", "open", "fill", "reread", "save", "write"}

\* A build works from a manifest that passed validation.
Validated == \A p \in Cmds : pc[p] \in Building => config[p] \in Manifests /\ Valid(config[p])

\* A build nobody disturbed is about to install what its manifest says.
BuildClean(p) ==
  /\ pc[p] \in {"compile", "open", "fill", "reread"} => manifest = config[p]
  /\ pc[p] = "open" => target = Compiled(config[p])
  /\ pc[p] = "fill" => fd[p] = "own" /\ copy[p] = Compiled(config[p])
  /\ pc[p] \in {"reread", "save", "write"} => bin[name[p]] = Compiled(config[p])
  /\ pc[p] \in {"save", "write"} => saved[p] = config[p]
  /\ pc[p] = "write" => fd[p] = "own"

\* A run nobody disturbed sees both files of a settled sandbox.
RunClean(p) ==
  /\ pc[p] \in {"config", "spawn"} =>
       Busy(name[p]) = {} /\ name[p] \notin spoiled /\ bin[name[p]] # Absent
  /\ pc[p] = "spawn" => config[p] = image[name[p]]
  /\ pc[p] = "session" /\ name[p] # Absent =>
       config[p] # Absent /\ copy[p] = Compiled(config[p])

\* A removal nobody disturbed has removed the binary when it comes to the manifest.
RmClean(p) == pc[p] \in {"rmImage", "unlinkImage"} => bin[name[p]] = Absent

Clean == \A p \in Cmds : p \notin meddled => BuildClean(p) /\ RunClean(p) /\ RmClean(p)

IInv == StoreTypeOK /\ Validated /\ Clean /\ InstalledPair

LEMMA CompiledTyped ==
  ASSUME NEW m \in Manifests, Valid(m)
  PROVE  Compiled(m) \in Binaries
<1>1. \A k \in DOMAIN m.modules : m.modules[k] \in Entries
  BY ManifestsAssumption
<1>2. Features(m) \subseteq Registry \cup Entries
  BY <1>1 DEF Features, Valid
<1>3. QED
  BY <1>2 DEF Compiled, Binaries

LEMMA InitIInv == ASSUME StoreInit PROVE IInv
<1>1. StoreTypeOK
  BY ManifestsAssumption DEF StoreInit, StoreTypeOK, Working, Exposed, Changing
<1>2. Validated /\ Clean
  BY DEF StoreInit, Validated, Clean, Building, BuildClean, RunClean, RmClean
<1>3. InstalledPair
  BY DEF StoreInit, InstalledPair
<1>4. QED
  BY <1>1, <1>2, <1>3 DEF IInv

---------------------------------------------------------------------------
(* Every step preserves the invariant: for the command that takes it by    *)
(* what it writes, for the others because a step that changes a file they  *)
(* rely on counts them as disturbed.                                       *)

LEMMA BuildStep == ASSUME IInv, NEW p \in Cmds, Build(p) PROVE IInv'
<1>1. StoreTypeOK'
  BY DEF IInv, StoreTypeOK, Build, Goto, store, Working, Exposed, Changing, Ended
<1>2. Validated'
  BY DEF IInv, StoreTypeOK, Validated, Building, Build, Goto, store, Working, Exposed, Changing
<1>3. Clean'
  <2> SUFFICES ASSUME NEW q \in Cmds, q \notin meddled'
               PROVE  BuildClean(q)' /\ RunClean(q)' /\ RmClean(q)'
    BY DEF Clean
  <2>1. CASE q = p
    BY <2>1 DEF IInv, StoreTypeOK, Clean, Build, Goto, store, BuildClean, RunClean, RmClean, Busy, Working, Exposed, Changing
  <2>2. CASE q # p
    BY <2>2 DEF IInv, StoreTypeOK, Clean, Build, Goto, store, BuildClean, RunClean, RmClean, Busy, Working, Exposed, Changing
  <2>3. QED
    BY <2>1, <2>2
<1>4. InstalledPair'
  BY DEF IInv, StoreTypeOK, Clean, InstalledPair, Build, Goto, store, Busy, Working, Exposed, Changing
<1>5. QED
  BY <1>1, <1>2, <1>3, <1>4 DEF IInv

LEMMA CompileStep == ASSUME IInv, NEW p \in Cmds, Compile(p) PROVE IInv'
<1>0. Compiled(config[p]) \in Binaries /\ Compiled(config[p]) # Absent
  BY CompiledTyped, MarksAssumption DEF IInv, Validated, Building, Compile
<1>1. StoreTypeOK'
  BY <1>0 DEF IInv, StoreTypeOK, Compile, Goto, Meddle, store, locals, Working, Exposed, Changing, Ended
<1>2. Validated'
  BY DEF IInv, StoreTypeOK, Validated, Building, Compile, Goto, Meddle, store, locals, Working, Exposed, Changing
<1>3. Clean'
  <2> SUFFICES ASSUME NEW q \in Cmds, q \notin meddled'
               PROVE  BuildClean(q)' /\ RunClean(q)' /\ RmClean(q)'
    BY DEF Clean
  <2>1. CASE q = p
    BY <2>1 DEF IInv, StoreTypeOK, Clean, Compile, Goto, Meddle, store, locals, BuildClean, RunClean, RmClean, Busy, Working, Exposed, Changing
  <2>2. CASE q # p
    BY <2>2 DEF IInv, StoreTypeOK, Clean, Compile, Goto, Meddle, store, locals, BuildClean, RunClean, RmClean, Busy, Working, Exposed, Changing
  <2>3. QED
    BY <2>1, <2>2
<1>4. InstalledPair'
  BY DEF IInv, StoreTypeOK, Clean, InstalledPair, Compile, Goto, Meddle, store, locals, Busy, Working, Exposed, Changing
<1>5. QED
  BY <1>1, <1>2, <1>3, <1>4 DEF IInv

LEMMA CompileLibStep == ASSUME IInv, NEW p \in Cmds, CompileLib(p) PROVE IInv'
<1>1. StoreTypeOK'
  BY DEF IInv, StoreTypeOK, CompileLib, End, EndWith, Goto, store, Working, Exposed, Changing, Ended
<1>2. Validated'
  BY DEF IInv, StoreTypeOK, Validated, Building, CompileLib, End, EndWith, Goto, store, Working, Exposed, Changing
<1>3. Clean'
  <2> SUFFICES ASSUME NEW q \in Cmds, q \notin meddled'
               PROVE  BuildClean(q)' /\ RunClean(q)' /\ RmClean(q)'
    BY DEF Clean
  <2>1. CASE q = p
    BY <2>1 DEF IInv, StoreTypeOK, Clean, CompileLib, End, EndWith, Goto, store, BuildClean, RunClean, RmClean, Busy, Working, Exposed, Changing
  <2>2. CASE q # p
    BY <2>2 DEF IInv, StoreTypeOK, Clean, CompileLib, End, EndWith, Goto, store, BuildClean, RunClean, RmClean, Busy, Working, Exposed, Changing
  <2>3. QED
    BY <2>1, <2>2
<1>4. InstalledPair'
  BY DEF IInv, StoreTypeOK, Clean, InstalledPair, CompileLib, End, EndWith, Goto, store, Busy, Working, Exposed, Changing
<1>5. QED
  BY <1>1, <1>2, <1>3, <1>4 DEF IInv

LEMMA OpenBinaryStep == ASSUME IInv, NEW p \in Cmds, OpenBinary(p) PROVE IInv'
<1>1. StoreTypeOK'
  BY DEF IInv, StoreTypeOK, OpenBinary, Goto, Meddle, Create, Touched, Writers, Working, Exposed, Changing, Ended
<1>2. Validated'
  BY DEF IInv, StoreTypeOK, Validated, Building, OpenBinary, Goto, Meddle, Create, Touched, Writers, Working, Exposed, Changing
<1>3. Clean'
  <2> SUFFICES ASSUME NEW q \in Cmds, q \notin meddled'
               PROVE  BuildClean(q)' /\ RunClean(q)' /\ RmClean(q)'
    BY DEF Clean
  <2>1. CASE q = p
    BY <2>1 DEF IInv, StoreTypeOK, Clean, OpenBinary, Goto, Meddle, Create, Touched, Writers, BuildClean, RunClean, RmClean, Busy, Working, Exposed, Changing
  <2>2. CASE q # p
    BY <2>2 DEF IInv, StoreTypeOK, Clean, OpenBinary, Goto, Meddle, Create, Touched, Writers, BuildClean, RunClean, RmClean, Busy, Working, Exposed, Changing
  <2>3. QED
    BY <2>1, <2>2
<1>4. InstalledPair'
  BY DEF IInv, StoreTypeOK, Clean, InstalledPair, OpenBinary, Goto, Meddle, Create, Touched, Writers, Busy, Working, Exposed, Changing
<1>5. QED
  BY <1>1, <1>2, <1>3, <1>4 DEF IInv

LEMMA FillBinaryStep == ASSUME IInv, NEW p \in Cmds, FillBinary(p) PROVE IInv'
<1>1. StoreTypeOK'
  BY DEF IInv, StoreTypeOK, FillBinary, Goto, Meddle, Written, Touched, Writers, Working, Exposed, Changing, Ended
<1>2. Validated'
  BY DEF IInv, StoreTypeOK, Validated, Building, FillBinary, Goto, Meddle, Written, Touched, Writers, Working, Exposed, Changing
<1>3. Clean'
  <2> SUFFICES ASSUME NEW q \in Cmds, q \notin meddled'
               PROVE  BuildClean(q)' /\ RunClean(q)' /\ RmClean(q)'
    BY DEF Clean
  <2>1. CASE q = p
    BY <2>1 DEF IInv, StoreTypeOK, Clean, FillBinary, Goto, Meddle, Written, Touched, Writers, BuildClean, RunClean, RmClean, Busy, Working, Exposed, Changing
  <2>2. CASE q # p
    BY <2>2 DEF IInv, StoreTypeOK, Clean, FillBinary, Goto, Meddle, Written, Touched, Writers, BuildClean, RunClean, RmClean, Busy, Working, Exposed, Changing
  <2>3. QED
    BY <2>1, <2>2
<1>4. InstalledPair'
  BY DEF IInv, StoreTypeOK, Clean, InstalledPair, FillBinary, Goto, Meddle, Written, Touched, Writers, Busy, Working, Exposed, Changing
<1>5. QED
  BY <1>1, <1>2, <1>3, <1>4 DEF IInv

LEMMA RereadStep == ASSUME IInv, NEW p \in Cmds, Reread(p) PROVE IInv'
<1>1. StoreTypeOK'
  BY DEF IInv, StoreTypeOK, Reread, Goto, store, Working, Exposed, Changing, Ended
<1>2. Validated'
  BY DEF IInv, StoreTypeOK, Validated, Building, Reread, Goto, store, Working, Exposed, Changing
<1>3. Clean'
  <2> SUFFICES ASSUME NEW q \in Cmds, q \notin meddled'
               PROVE  BuildClean(q)' /\ RunClean(q)' /\ RmClean(q)'
    BY DEF Clean
  <2>1. CASE q = p
    BY <2>1 DEF IInv, StoreTypeOK, Clean, Reread, Goto, store, BuildClean, RunClean, RmClean, Busy, Working, Exposed, Changing
  <2>2. CASE q # p
    BY <2>2 DEF IInv, StoreTypeOK, Clean, Reread, Goto, store, BuildClean, RunClean, RmClean, Busy, Working, Exposed, Changing
  <2>3. QED
    BY <2>1, <2>2
<1>4. InstalledPair'
  BY DEF IInv, StoreTypeOK, Clean, InstalledPair, Reread, Goto, store, Busy, Working, Exposed, Changing
<1>5. QED
  BY <1>1, <1>2, <1>3, <1>4 DEF IInv

LEMMA OpenImageStep == ASSUME IInv, NEW p \in Cmds, OpenImage(p) PROVE IInv'
<1>1. StoreTypeOK'
  BY DEF IInv, StoreTypeOK, OpenImage, Goto, Meddle, Create, Touched, Writers, Working, Exposed, Changing, Ended
<1>2. Validated'
  BY DEF IInv, StoreTypeOK, Validated, Building, OpenImage, Goto, Meddle, Create, Touched, Writers, Working, Exposed, Changing
<1>3. Clean'
  <2> SUFFICES ASSUME NEW q \in Cmds, q \notin meddled'
               PROVE  BuildClean(q)' /\ RunClean(q)' /\ RmClean(q)'
    BY DEF Clean
  <2>1. CASE q = p
    BY <2>1 DEF IInv, StoreTypeOK, Clean, OpenImage, Goto, Meddle, Create, Touched, Writers, BuildClean, RunClean, RmClean, Busy, Working, Exposed, Changing
  <2>2. CASE q # p
    BY <2>2 DEF IInv, StoreTypeOK, Clean, OpenImage, Goto, Meddle, Create, Touched, Writers, BuildClean, RunClean, RmClean, Busy, Working, Exposed, Changing
  <2>3. QED
    BY <2>1, <2>2
<1>4. InstalledPair'
  BY DEF IInv, StoreTypeOK, Clean, InstalledPair, OpenImage, Goto, Meddle, Create, Touched, Writers, Busy, Working, Exposed, Changing
<1>5. QED
  BY <1>1, <1>2, <1>3, <1>4 DEF IInv

LEMMA SaveImageStep == ASSUME IInv, NEW p \in Cmds, SaveImage(p) PROVE IInv'
<1>1. StoreTypeOK'
  BY DEF IInv, StoreTypeOK, SaveImage, End, EndWith, Goto, Settle, Written, Touched, Writers, Working, Exposed, Changing, Ended
<1>2. Validated'
  BY DEF IInv, StoreTypeOK, Validated, Building, SaveImage, End, EndWith, Goto, Settle, Written, Touched, Writers, Working, Exposed, Changing
<1>3. Clean'
  <2> SUFFICES ASSUME NEW q \in Cmds, q \notin meddled'
               PROVE  BuildClean(q)' /\ RunClean(q)' /\ RmClean(q)'
    BY DEF Clean
  <2>1. CASE q = p
    BY <2>1 DEF IInv, StoreTypeOK, Clean, SaveImage, End, EndWith, Goto, Settle, Written, Touched, Writers, BuildClean, RunClean, RmClean, Busy, Working, Exposed, Changing
  <2>2. CASE q # p
    BY <2>2 DEF IInv, StoreTypeOK, Clean, SaveImage, End, EndWith, Goto, Settle, Written, Touched, Writers, BuildClean, RunClean, RmClean, Busy, Working, Exposed, Changing
  <2>3. QED
    BY <2>1, <2>2
<1>4. InstalledPair'
  <2> SUFFICES ASSUME NEW n \in Names, n \notin spoiled', Busy(n)' = {}, bin'[n] # Absent
               PROVE  image'[n] \in Manifests /\ Valid(image'[n]) /\ bin'[n] = Compiled(image'[n])
    BY DEF InstalledPair
  <2>1. CASE n = name[p]
    <3>1. pc[p] = "write" /\ p \notin meddled
      BY <2>1 DEF SaveImage, Settle
    <3>2. bin[n] = Compiled(config[p]) /\ saved[p] = config[p] /\ fd[p] = "own"
      BY <2>1, <3>1 DEF IInv, Clean, BuildClean
    <3>3. config[p] \in Manifests /\ Valid(config[p])
      BY <3>1 DEF IInv, Validated, Building
    <3>4. bin' = bin /\ image'[n] = saved[p]
      BY <2>1, <3>2 DEF SaveImage, Written, IInv, StoreTypeOK
    <3>5. QED
      BY <3>2, <3>3, <3>4
  <2>2. CASE n # name[p]
    BY <2>2 DEF IInv, StoreTypeOK, Clean, InstalledPair, SaveImage, End, EndWith, Goto, Settle, Written, Touched, Writers, Busy, Working, Exposed, Changing
  <2>3. QED
    BY <2>1, <2>2
<1>5. QED
  BY <1>1, <1>2, <1>3, <1>4 DEF IInv

LEMMA RunStep == ASSUME IInv, NEW p \in Cmds, Run(p) PROVE IInv'
<1>1. StoreTypeOK'
  BY DEF IInv, StoreTypeOK, Run, Goto, Meddle, store, Working, Exposed, Changing, Ended
<1>2. Validated'
  BY DEF IInv, StoreTypeOK, Validated, Building, Run, Goto, Meddle, store, Working, Exposed, Changing
<1>3. Clean'
  <2> SUFFICES ASSUME NEW q \in Cmds, q \notin meddled'
               PROVE  BuildClean(q)' /\ RunClean(q)' /\ RmClean(q)'
    BY DEF Clean
  <2>1. CASE q = p
    BY <2>1 DEF IInv, StoreTypeOK, Clean, Run, Goto, Meddle, store, BuildClean, RunClean, RmClean, Busy, Working, Exposed, Changing
  <2>2. CASE q # p
    BY <2>2 DEF IInv, StoreTypeOK, Clean, Run, Goto, Meddle, store, BuildClean, RunClean, RmClean, Busy, Working, Exposed, Changing
  <2>3. QED
    BY <2>1, <2>2
<1>4. InstalledPair'
  BY DEF IInv, StoreTypeOK, Clean, InstalledPair, Run, Goto, Meddle, store, Busy, Working, Exposed, Changing
<1>5. QED
  BY <1>1, <1>2, <1>3, <1>4 DEF IInv

LEMMA ReadImageStep == ASSUME IInv, NEW p \in Cmds, ReadImage(p) PROVE IInv'
<1>1. StoreTypeOK'
  BY DEF IInv, StoreTypeOK, ReadImage, End, EndWith, Goto, store, Working, Exposed, Changing, Ended
<1>2. Validated'
  BY DEF IInv, StoreTypeOK, Validated, Building, ReadImage, End, EndWith, Goto, store, Working, Exposed, Changing
<1>3. Clean'
  <2> SUFFICES ASSUME NEW q \in Cmds, q \notin meddled'
               PROVE  BuildClean(q)' /\ RunClean(q)' /\ RmClean(q)'
    BY DEF Clean
  <2>1. CASE q = p
    BY <2>1 DEF IInv, StoreTypeOK, Clean, ReadImage, End, EndWith, Goto, store, BuildClean, RunClean, RmClean, Busy, Working, Exposed, Changing
  <2>2. CASE q # p
    BY <2>2 DEF IInv, StoreTypeOK, Clean, ReadImage, End, EndWith, Goto, store, BuildClean, RunClean, RmClean, Busy, Working, Exposed, Changing
  <2>3. QED
    BY <2>1, <2>2
<1>4. InstalledPair'
  BY DEF IInv, StoreTypeOK, Clean, InstalledPair, ReadImage, End, EndWith, Goto, store, Busy, Working, Exposed, Changing
<1>5. QED
  BY <1>1, <1>2, <1>3, <1>4 DEF IInv

LEMMA SpawnStep == ASSUME IInv, NEW p \in Cmds, Spawn(p) PROVE IInv'
<1>1. StoreTypeOK'
  BY DEF IInv, StoreTypeOK, Spawn, End, EndWith, Goto, Scratch, store, Working, Exposed, Changing, Ended
<1>2. Validated'
  BY DEF IInv, StoreTypeOK, Validated, Building, Spawn, End, EndWith, Goto, Scratch, store, Working, Exposed, Changing
<1>3. Clean'
  <2> SUFFICES ASSUME NEW q \in Cmds, q \notin meddled'
               PROVE  BuildClean(q)' /\ RunClean(q)' /\ RmClean(q)'
    BY DEF Clean
  <2>1. CASE q = p
    BY <2>1, MarksAssumption DEF IInv, StoreTypeOK, Clean, InstalledPair, Spawn, End, EndWith, Goto, Scratch, store, BuildClean, RunClean, RmClean, Busy, Working, Exposed, Changing
  <2>2. CASE q # p
    BY <2>2 DEF IInv, StoreTypeOK, Clean, Spawn, End, EndWith, Goto, Scratch, store, BuildClean, RunClean, RmClean, Busy, Working, Exposed, Changing
  <2>3. QED
    BY <2>1, <2>2
<1>4. InstalledPair'
  BY DEF IInv, StoreTypeOK, Clean, InstalledPair, Spawn, End, EndWith, Goto, Scratch, store, Busy, Working, Exposed, Changing
<1>5. QED
  BY <1>1, <1>2, <1>3, <1>4 DEF IInv

LEMMA ExecStep == ASSUME IInv, NEW p \in Cmds, Exec(p) PROVE IInv'
<1>1. StoreTypeOK'
  BY DEF IInv, StoreTypeOK, Exec, Goto, Scratch, store, locals, Working, Exposed, Changing, Ended
<1>2. Validated'
  BY DEF IInv, StoreTypeOK, Validated, Building, Exec, Goto, Scratch, store, locals, Working, Exposed, Changing
<1>3. Clean'
  <2> SUFFICES ASSUME NEW q \in Cmds, q \notin meddled'
               PROVE  BuildClean(q)' /\ RunClean(q)' /\ RmClean(q)'
    BY DEF Clean
  <2>1. CASE q = p
    BY <2>1 DEF IInv, StoreTypeOK, Clean, Exec, Goto, Scratch, store, locals, BuildClean, RunClean, RmClean, Busy, Working, Exposed, Changing
  <2>2. CASE q # p
    BY <2>2 DEF IInv, StoreTypeOK, Clean, Exec, Goto, Scratch, store, locals, BuildClean, RunClean, RmClean, Busy, Working, Exposed, Changing
  <2>3. QED
    BY <2>1, <2>2
<1>4. InstalledPair'
  BY DEF IInv, StoreTypeOK, Clean, InstalledPair, Exec, Goto, Scratch, store, locals, Busy, Working, Exposed, Changing
<1>5. QED
  BY <1>1, <1>2, <1>3, <1>4 DEF IInv

LEMMA EndSessionStep == ASSUME IInv, NEW p \in Cmds, EndSession(p) PROVE IInv'
<1>1. StoreTypeOK'
  BY DEF IInv, StoreTypeOK, EndSession, End, EndWith, Goto, store, Working, Exposed, Changing, Ended
<1>2. Validated'
  BY DEF IInv, StoreTypeOK, Validated, Building, EndSession, End, EndWith, Goto, store, Working, Exposed, Changing
<1>3. Clean'
  <2> SUFFICES ASSUME NEW q \in Cmds, q \notin meddled'
               PROVE  BuildClean(q)' /\ RunClean(q)' /\ RmClean(q)'
    BY DEF Clean
  <2>1. CASE q = p
    BY <2>1 DEF IInv, StoreTypeOK, Clean, EndSession, End, EndWith, Goto, store, BuildClean, RunClean, RmClean, Busy, Working, Exposed, Changing
  <2>2. CASE q # p
    BY <2>2 DEF IInv, StoreTypeOK, Clean, EndSession, End, EndWith, Goto, store, BuildClean, RunClean, RmClean, Busy, Working, Exposed, Changing
  <2>3. QED
    BY <2>1, <2>2
<1>4. InstalledPair'
  BY DEF IInv, StoreTypeOK, Clean, InstalledPair, EndSession, End, EndWith, Goto, store, Busy, Working, Exposed, Changing
<1>5. QED
  BY <1>1, <1>2, <1>3, <1>4 DEF IInv

LEMMA ExitWithErrorStep == ASSUME IInv, NEW p \in Cmds, ExitWithError(p) PROVE IInv'
<1>1. StoreTypeOK'
  BY DEF IInv, StoreTypeOK, ExitWithError, End, EndWith, Goto, store, Working, Exposed, Changing, Ended
<1>2. Validated'
  BY DEF IInv, StoreTypeOK, Validated, Building, ExitWithError, End, EndWith, Goto, store, Working, Exposed, Changing
<1>3. Clean'
  <2> SUFFICES ASSUME NEW q \in Cmds, q \notin meddled'
               PROVE  BuildClean(q)' /\ RunClean(q)' /\ RmClean(q)'
    BY DEF Clean
  <2>1. CASE q = p
    BY <2>1 DEF IInv, StoreTypeOK, Clean, ExitWithError, End, EndWith, Goto, store, BuildClean, RunClean, RmClean, Busy, Working, Exposed, Changing
  <2>2. CASE q # p
    BY <2>2 DEF IInv, StoreTypeOK, Clean, ExitWithError, End, EndWith, Goto, store, BuildClean, RunClean, RmClean, Busy, Working, Exposed, Changing
  <2>3. QED
    BY <2>1, <2>2
<1>4. InstalledPair'
  BY DEF IInv, StoreTypeOK, Clean, InstalledPair, ExitWithError, End, EndWith, Goto, store, Busy, Working, Exposed, Changing
<1>5. QED
  BY <1>1, <1>2, <1>3, <1>4 DEF IInv

LEMMA RmStep == ASSUME IInv, NEW p \in Cmds, Rm(p) PROVE IInv'
<1>1. StoreTypeOK'
  BY DEF IInv, StoreTypeOK, Rm, Goto, store, Working, Exposed, Changing, Ended
<1>2. Validated'
  BY DEF IInv, StoreTypeOK, Validated, Building, Rm, Goto, store, Working, Exposed, Changing
<1>3. Clean'
  <2> SUFFICES ASSUME NEW q \in Cmds, q \notin meddled'
               PROVE  BuildClean(q)' /\ RunClean(q)' /\ RmClean(q)'
    BY DEF Clean
  <2>1. CASE q = p
    BY <2>1 DEF IInv, StoreTypeOK, Clean, Rm, Goto, store, BuildClean, RunClean, RmClean, Busy, Working, Exposed, Changing
  <2>2. CASE q # p
    BY <2>2 DEF IInv, StoreTypeOK, Clean, Rm, Goto, store, BuildClean, RunClean, RmClean, Busy, Working, Exposed, Changing
  <2>3. QED
    BY <2>1, <2>2
<1>4. InstalledPair'
  BY DEF IInv, StoreTypeOK, Clean, InstalledPair, Rm, Goto, store, Busy, Working, Exposed, Changing
<1>5. QED
  BY <1>1, <1>2, <1>3, <1>4 DEF IInv

LEMMA RmBinStep == ASSUME IInv, NEW p \in Cmds, RmBin(p) PROVE IInv'
<1>1. StoreTypeOK'
  BY DEF IInv, StoreTypeOK, RmBin, Goto, store, locals, Working, Exposed, Changing, Ended
<1>2. Validated'
  BY DEF IInv, StoreTypeOK, Validated, Building, RmBin, Goto, store, locals, Working, Exposed, Changing
<1>3. Clean'
  <2> SUFFICES ASSUME NEW q \in Cmds, q \notin meddled'
               PROVE  BuildClean(q)' /\ RunClean(q)' /\ RmClean(q)'
    BY DEF Clean
  <2>1. CASE q = p
    BY <2>1 DEF IInv, StoreTypeOK, Clean, RmBin, Goto, store, locals, BuildClean, RunClean, RmClean, Busy, Working, Exposed, Changing
  <2>2. CASE q # p
    BY <2>2 DEF IInv, StoreTypeOK, Clean, RmBin, Goto, store, locals, BuildClean, RunClean, RmClean, Busy, Working, Exposed, Changing
  <2>3. QED
    BY <2>1, <2>2
<1>4. InstalledPair'
  BY DEF IInv, StoreTypeOK, Clean, InstalledPair, RmBin, Goto, store, locals, Busy, Working, Exposed, Changing
<1>5. QED
  BY <1>1, <1>2, <1>3, <1>4 DEF IInv

LEMMA UnlinkBinStep == ASSUME IInv, NEW p \in Cmds, UnlinkBin(p) PROVE IInv'
<1>1. StoreTypeOK'
  BY DEF IInv, StoreTypeOK, UnlinkBin, End, EndWith, Goto, Meddle, Unlinked, Touched, Writers, Working, Exposed, Changing, Ended
<1>2. Validated'
  BY DEF IInv, StoreTypeOK, Validated, Building, UnlinkBin, End, EndWith, Goto, Meddle, Unlinked, Touched, Writers, Working, Exposed, Changing
<1>3. Clean'
  <2> SUFFICES ASSUME NEW q \in Cmds, q \notin meddled'
               PROVE  BuildClean(q)' /\ RunClean(q)' /\ RmClean(q)'
    BY DEF Clean
  <2>1. CASE q = p
    BY <2>1 DEF IInv, StoreTypeOK, Clean, UnlinkBin, End, EndWith, Goto, Meddle, Unlinked, Touched, Writers, BuildClean, RunClean, RmClean, Busy, Working, Exposed, Changing
  <2>2. CASE q # p
    BY <2>2 DEF IInv, StoreTypeOK, Clean, UnlinkBin, End, EndWith, Goto, Meddle, Unlinked, Touched, Writers, BuildClean, RunClean, RmClean, Busy, Working, Exposed, Changing
  <2>3. QED
    BY <2>1, <2>2
<1>4. InstalledPair'
  BY DEF IInv, StoreTypeOK, Clean, InstalledPair, UnlinkBin, End, EndWith, Goto, Meddle, Unlinked, Touched, Writers, Busy, Working, Exposed, Changing
<1>5. QED
  BY <1>1, <1>2, <1>3, <1>4 DEF IInv

LEMMA RmImageStep == ASSUME IInv, NEW p \in Cmds, RmImage(p) PROVE IInv'
<1>1. StoreTypeOK'
  BY DEF IInv, StoreTypeOK, RmImage, End, EndWith, Goto, Settle, store, locals, Working, Exposed, Changing, Ended
<1>2. Validated'
  BY DEF IInv, StoreTypeOK, Validated, Building, RmImage, End, EndWith, Goto, Settle, store, locals, Working, Exposed, Changing
<1>3. Clean'
  <2> SUFFICES ASSUME NEW q \in Cmds, q \notin meddled'
               PROVE  BuildClean(q)' /\ RunClean(q)' /\ RmClean(q)'
    BY DEF Clean
  <2>1. CASE q = p
    BY <2>1 DEF IInv, StoreTypeOK, Clean, RmImage, End, EndWith, Goto, Settle, store, locals, BuildClean, RunClean, RmClean, Busy, Working, Exposed, Changing
  <2>2. CASE q # p
    BY <2>2 DEF IInv, StoreTypeOK, Clean, RmImage, End, EndWith, Goto, Settle, store, locals, BuildClean, RunClean, RmClean, Busy, Working, Exposed, Changing
  <2>3. QED
    BY <2>1, <2>2
<1>4. InstalledPair'
  <2> SUFFICES ASSUME NEW n \in Names, n \notin spoiled', Busy(n)' = {}, bin'[n] # Absent
               PROVE  image'[n] \in Manifests /\ Valid(image'[n]) /\ bin'[n] = Compiled(image'[n])
    BY DEF InstalledPair
  <2>1. CASE n = name[p]
    <3>1. CASE image[n] = Absent
      <4>1. p \notin meddled
        BY <2>1, <3>1 DEF RmImage, Settle
      <4>2. bin'[n] = Absent
        BY <2>1, <4>1 DEF RmImage, IInv, Clean, RmClean, store
      <4>3. QED
        BY <4>2
    <3>2. CASE image[n] # Absent
      <4>1. p \in Busy(n)'
        BY <2>1, <3>2 DEF RmImage, Goto, Busy, Changing, IInv, StoreTypeOK, locals
      <4>2. QED
        BY <4>1
    <3>3. QED
      BY <3>1, <3>2
  <2>2. CASE n # name[p]
    BY <2>2 DEF IInv, StoreTypeOK, Clean, InstalledPair, RmImage, End, EndWith, Goto, Settle, store, locals, Busy, Working, Exposed, Changing
  <2>3. QED
    BY <2>1, <2>2
<1>5. QED
  BY <1>1, <1>2, <1>3, <1>4 DEF IInv

LEMMA UnlinkImageStep == ASSUME IInv, NEW p \in Cmds, UnlinkImage(p) PROVE IInv'
<1>0. Unlinked(p, "write") \in [Cmds -> {"none", "own", "shared", "unlinked"}]
  BY DEF IInv, StoreTypeOK, Unlinked
<1>1. StoreTypeOK'
  BY <1>0 DEF IInv, StoreTypeOK, UnlinkImage, End, EndWith, Goto, Settle, Touched, Working, Exposed, Changing, Ended
<1>2. Validated'
  BY DEF IInv, StoreTypeOK, Validated, Building, UnlinkImage, End, EndWith, Goto, Settle, Unlinked, Touched, Writers, Working, Exposed, Changing
<1>3. Clean'
  <2> SUFFICES ASSUME NEW q \in Cmds, q \notin meddled'
               PROVE  BuildClean(q)' /\ RunClean(q)' /\ RmClean(q)'
    BY DEF Clean
  <2>1. CASE q = p
    BY <2>1 DEF IInv, StoreTypeOK, Clean, UnlinkImage, End, EndWith, Goto, Settle, Unlinked, Touched, Writers, BuildClean, RunClean, RmClean, Busy, Working, Exposed, Changing
  <2>2. CASE q # p
    <3>1. pc'[q] = pc[q] /\ name'[q] = name[q] /\ config'[q] = config[q] /\ copy'[q] = copy[q] /\ saved'[q] = saved[q]
      BY <2>2 DEF IInv, StoreTypeOK, UnlinkImage, End, EndWith, Goto
    <3>2. q \notin meddled
      BY <2>2 DEF UnlinkImage, End, EndWith
    <3>3. image'[name[q]] = image[name[q]] \/ pc[q] \notin Exposed
      <4>1. pc[q] \in Exposed => name[q] \in Names
        BY DEF IInv, StoreTypeOK, Working, Exposed, Changing
      <4>2. pc[q] \in Exposed /\ name[q] = name[p] => image' = image
        BY <2>2 DEF UnlinkImage, EndWith, Touched
      <4>3. image' = image \/ image' = [image EXCEPT ![name[p]] = Absent]
        BY DEF UnlinkImage
      <4>4. QED
        BY <4>1, <4>2, <4>3 DEF IInv, StoreTypeOK
    <3>4. fd'[q] = fd[q]
      BY <2>2 DEF IInv, StoreTypeOK, UnlinkImage, End, EndWith, Unlinked, Writers, Touched, Exposed, Changing
    <3>5. bin' = bin /\ manifest' = manifest /\ target' = target /\ spoiled' \subseteq spoiled \cup {name[p]}
      BY DEF UnlinkImage, Settle
    <3>6. BuildClean(q)' /\ RmClean(q)'
      BY <2>2, <3>1, <3>2, <3>4, <3>5 DEF IInv, Clean, BuildClean, RmClean
    <3>7. p \in Busy(name[p]) /\ Busy(name[q])' \subseteq Busy(name[q])
      <4>1. pc' = [pc EXCEPT ![p] = "ok"] \/ pc' = [pc EXCEPT ![p] = "error"]
        BY DEF UnlinkImage, End, EndWith, Goto
      <4>2. pc[p] = "unlinkImage" /\ name' = [name EXCEPT ![p] = Absent]
        BY DEF UnlinkImage, End, EndWith
      <4>3. QED
        BY <2>2, <3>1, <4>1, <4>2 DEF IInv, StoreTypeOK, Busy, Changing
    <3>8. RunClean(q)'
      BY <2>2, <3>1, <3>2, <3>3, <3>5, <3>7 DEF IInv, Clean, RunClean, Exposed
    <3>9. QED
      BY <3>6, <3>8
  <2>3. QED
    BY <2>1, <2>2
<1>4. InstalledPair'
  <2> SUFFICES ASSUME NEW n \in Names, n \notin spoiled', Busy(n)' = {}, bin'[n] # Absent
               PROVE  image'[n] \in Manifests /\ Valid(image'[n]) /\ bin'[n] = Compiled(image'[n])
    BY DEF InstalledPair
  <2>1. CASE n = name[p]
    <3>1. p \notin meddled
      BY <2>1 DEF UnlinkImage, Settle
    <3>2. bin'[n] = Absent
      BY <2>1, <3>1 DEF UnlinkImage, IInv, Clean, RmClean
    <3>3. QED
      BY <3>2
  <2>2. CASE n # name[p]
    BY <2>2 DEF IInv, StoreTypeOK, Clean, InstalledPair, UnlinkImage, End, EndWith, Goto, Settle, Unlinked, Touched, Writers, Busy, Working, Exposed, Changing
  <2>3. QED
    BY <2>1, <2>2
<1>5. QED
  BY <1>1, <1>2, <1>3, <1>4 DEF IInv

LEMMA AbortStep == ASSUME IInv, NEW p \in Cmds, Abort(p) PROVE IInv'
<1>1. StoreTypeOK'
  BY DEF IInv, StoreTypeOK, Abort, End, EndWith, Goto, store, Working, Exposed, Changing, Ended
<1>2. Validated'
  BY DEF IInv, StoreTypeOK, Validated, Building, Abort, End, EndWith, Goto, store, Working, Exposed, Changing
<1>3. Clean'
  <2> SUFFICES ASSUME NEW q \in Cmds, q \notin meddled'
               PROVE  BuildClean(q)' /\ RunClean(q)' /\ RmClean(q)'
    BY DEF Clean
  <2>1. CASE q = p
    BY <2>1 DEF IInv, StoreTypeOK, Clean, Abort, End, EndWith, Goto, store, BuildClean, RunClean, RmClean, Busy, Working, Exposed, Changing
  <2>2. CASE q # p
    BY <2>2 DEF IInv, StoreTypeOK, Clean, Abort, End, EndWith, Goto, store, BuildClean, RunClean, RmClean, Busy, Working, Exposed, Changing
  <2>3. QED
    BY <2>1, <2>2
<1>4. InstalledPair'
  BY DEF IInv, StoreTypeOK, Clean, InstalledPair, Abort, End, EndWith, Goto, store, Busy, Working, Exposed, Changing
<1>5. QED
  BY <1>1, <1>2, <1>3, <1>4 DEF IInv

LEMMA EditStep == ASSUME IInv, Edit PROVE IInv'
<1>1. StoreTypeOK'
  BY ManifestsAssumption DEF IInv, StoreTypeOK, Edit, Meddle, store, locals, Working, Exposed, Changing
<1>2. Validated'
  BY DEF IInv, Validated, Building, Edit, locals
<1>3. Clean'
  BY DEF IInv, StoreTypeOK, Clean, Edit, Meddle, store, locals, BuildClean, RunClean, RmClean, Busy
<1>4. InstalledPair'
  BY DEF IInv, InstalledPair, Edit, store, locals, Busy
<1>5. QED
  BY <1>1, <1>2, <1>3, <1>4 DEF IInv

LEMMA StutterStep == ASSUME IInv, UNCHANGED commands PROVE IInv'
BY DEF commands, store, locals, IInv, StoreTypeOK, Validated, Clean, BuildClean, RunClean, RmClean, InstalledPair, Busy

---------------------------------------------------------------------------
\* The inductive invariant: what every command may rely on, whatever the
\* others do between its steps.
THEOREM Inductive == StoreSpec => []IInv
<1>1. StoreInit => IInv
  BY InitIInv
<1>2. IInv /\ [StoreNext]_commands => IInv'
  <2> SUFFICES ASSUME IInv, [StoreNext]_commands PROVE IInv'
    OBVIOUS
  <2>1. ASSUME NEW p \in Cmds, Step(p) PROVE IInv'
    BY <2>1, BuildStep, CompileStep, CompileLibStep, OpenBinaryStep, FillBinaryStep, RereadStep,
       OpenImageStep, SaveImageStep, RunStep, ReadImageStep, SpawnStep, ExecStep, EndSessionStep, ExitWithErrorStep,
       RmStep, RmBinStep, UnlinkBinStep, RmImageStep, UnlinkImageStep, AbortStep DEF Step
  <2>2. QED
    BY <2>1, EditStep, StutterStep DEF StoreNext
<1>3. QED
  BY <1>1, <1>2, PTL DEF StoreSpec

\* Types, for every number of commands (main.rs:191).
THEOREM TypeCorrect == StoreSpec => []StoreTypeOK
<1>1. IInv => StoreTypeOK
  BY DEF IInv
<1>2. QED
  BY <1>1, Inductive, PTL

\* The two files of a sandbox no command is changing belong together
\* (main.rs:393-432), unless a disturbed or unfinished command left them.
THEOREM PairInstalled == StoreSpec => []InstalledPair
<1>1. IInv => InstalledPair
  BY DEF IInv
<1>2. QED
  BY <1>1, Inductive, PTL

\* A session runs the binary compiled from the manifest whose volumes and
\* domains it was given (main.rs:507-567).
THEOREM SessionsMatch == StoreSpec => []SessionMatchesManifest
<1>1. IInv => SessionMatchesManifest
  BY DEF IInv, Clean, RunClean, SessionMatchesManifest
<1>2. QED
  BY <1>1, Inductive, PTL

\* A command moves itself and no other.
LEMMA OwnStep ==
  ASSUME NEW q \in Cmds, Step(q)
  PROVE  \E to : pc' = [pc EXCEPT ![q] = to]
<1>1. CASE Build(q) \/ Run(q) \/ Exec(q) \/ Rm(q)
  BY <1>1 DEF Build, Run, Exec, Rm, Goto
<1>2. CASE Compile(q) \/ CompileLib(q) \/ OpenBinary(q) \/ FillBinary(q)
  BY <1>2 DEF Compile, CompileLib, OpenBinary, FillBinary, End, EndWith, Goto
<1>3. CASE Reread(q) \/ OpenImage(q) \/ SaveImage(q)
  BY <1>3 DEF Reread, OpenImage, SaveImage, End, EndWith, Goto
<1>4. CASE ReadImage(q) \/ Spawn(q) \/ EndSession(q) \/ ExitWithError(q)
  BY <1>4 DEF ReadImage, Spawn, EndSession, ExitWithError, End, EndWith, Goto
<1>5. CASE RmBin(q) \/ UnlinkBin(q) \/ RmImage(q) \/ UnlinkImage(q) \/ Abort(q)
  BY <1>5 DEF RmBin, UnlinkBin, RmImage, UnlinkImage, Abort, End, EndWith, Goto
<1>6. QED
  BY <1>1, <1>2, <1>3, <1>4, <1>5 DEF Step

\* The steps of a command that is about to save a manifest, or removing one.
LEMMA StepsAt ==
  ASSUME NEW p \in Cmds, Step(p)
  PROVE  /\ pc[p] = "write" => SaveImage(p) \/ Abort(p)
         /\ pc[p] \in {"rmBin", "rmImage", "unlinkImage"} =>
              RmBin(p) \/ RmImage(p) \/ UnlinkImage(p) \/ Abort(p)
<1>1. Build(p) \/ Run(p) \/ Exec(p) \/ Rm(p) => pc[p] = "idle"
  BY DEF Build, Run, Exec, Rm
<1>2. Compile(p) \/ CompileLib(p) \/ OpenBinary(p) \/ FillBinary(p) =>
        pc[p] \in {"compile", "compileLib", "open", "fill"}
  BY DEF Compile, CompileLib, OpenBinary, FillBinary
<1>3. /\ Reread(p) \/ OpenImage(p) => pc[p] \in {"reread", "save"}
      /\ SaveImage(p) => pc[p] = "write"
  BY DEF Reread, OpenImage, SaveImage
<1>4. ReadImage(p) \/ Spawn(p) \/ EndSession(p) \/ ExitWithError(p) => pc[p] \in {"config", "spawn", "session"}
  BY DEF ReadImage, Spawn, EndSession, ExitWithError
<1>5. /\ RmBin(p) \/ RmImage(p) \/ UnlinkImage(p) => pc[p] \in {"rmBin", "rmImage", "unlinkImage"}
      /\ UnlinkBin(p) => pc[p] = "unlinkBin"
  BY DEF RmBin, UnlinkBin, RmImage, UnlinkImage
<1>6. QED
  BY <1>1, <1>2, <1>3, <1>4, <1>5 DEF Step

\* "Sandbox ready" is true when it is said (main.rs:435).
THEOREM ReadyIsTrue == StoreSpec => ReadyMeansInstalled
<1>1. ASSUME IInv, NEW p \in Cmds, [StoreNext]_commands, pc[p] = "write", pc'[p] = "ok", p \notin meddled
      PROVE  bin'[name[p]] = Compiled(config[p]) /\ image'[name[p]] = config[p]
  <2>1. SaveImage(p)
    <3>1. ASSUME NEW q \in Cmds, Step(q), q # p PROVE pc'[p] = pc[p]
      BY <1>1, <3>1, OwnStep DEF IInv, StoreTypeOK
    <3>2. UNCHANGED pc \/ Step(p)
      BY <1>1, <3>1 DEF StoreNext, Edit, commands
    <3>3. ~ Abort(p)
      BY <1>1 DEF IInv, StoreTypeOK, Abort, End, EndWith, Goto
    <3>4. Step(p) => SaveImage(p)
      BY <1>1, <3>3, StepsAt
    <3>5. QED
      BY <1>1, <3>2, <3>4
  <2>2. bin[name[p]] = Compiled(config[p]) /\ saved[p] = config[p] /\ fd[p] = "own"
    BY <1>1 DEF IInv, Clean, BuildClean
  <2>3. name[p] \in Names
    BY <1>1 DEF IInv, StoreTypeOK, Working, Exposed, Changing
  <2>4. QED
    BY <1>1, <2>1, <2>2, <2>3 DEF SaveImage, Written, IInv, StoreTypeOK
<1>2. IInv /\ [StoreNext]_commands =>
        [\A p \in Cmds : pc[p] = "write" /\ pc'[p] = "ok" /\ p \notin meddled =>
           LET n == name[p] IN bin'[n] = Compiled(config[p]) /\ image'[n] = config[p]]_commands
  BY <1>1
<1>3. QED
  BY <1>2, Inductive, PTL DEF StoreSpec, ReadyMeansInstalled

\* "Removed sandbox" is true when it is said (main.rs:744).
THEOREM RemovedIsTrue == StoreSpec => RemovedCompletely
<1>1. ASSUME IInv, NEW p \in Cmds, [StoreNext]_commands, pc[p] \in {"rmBin", "rmImage", "unlinkImage"},
             pc'[p] = "ok", p \notin meddled
      PROVE  bin'[name[p]] = Absent /\ image'[name[p]] = Absent
  <2>1. RmImage(p) \/ UnlinkImage(p)
    <3>1. ASSUME NEW q \in Cmds, Step(q), q # p PROVE pc'[p] = pc[p]
      BY <1>1, <3>1, OwnStep DEF IInv, StoreTypeOK
    <3>2. UNCHANGED pc \/ Step(p)
      BY <1>1, <3>1 DEF StoreNext, Edit, commands
    <3>3. ~ Abort(p) /\ ~ RmBin(p)
      BY <1>1 DEF IInv, StoreTypeOK, Abort, RmBin, End, EndWith, Goto
    <3>4. Step(p) => RmImage(p) \/ UnlinkImage(p)
      BY <1>1, <3>3, StepsAt
    <3>5. QED
      BY <1>1, <3>2, <3>4
  <2>2. pc[p] \in {"rmImage", "unlinkImage"}
    BY <2>1 DEF RmImage, UnlinkImage
  <2>3. bin[name[p]] = Absent /\ name[p] \in Names
    BY <1>1, <2>2 DEF IInv, StoreTypeOK, Clean, RmClean, Working, Exposed, Changing
  <2>4. CASE RmImage(p)
    BY <1>1, <2>3, <2>4 DEF RmImage, Goto, store, IInv, StoreTypeOK
  <2>5. CASE UnlinkImage(p)
    BY <1>1, <2>3, <2>5 DEF UnlinkImage, End, EndWith, Goto, IInv, StoreTypeOK
  <2>6. QED
    BY <2>1, <2>4, <2>5
<1>2. IInv /\ [StoreNext]_commands =>
        [\A p \in Cmds : pc[p] \in {"rmBin", "rmImage", "unlinkImage"} /\ pc'[p] = "ok" /\ p \notin meddled =>
           bin'[name[p]] = Absent /\ image'[name[p]] = Absent]_commands
  BY <1>1
<1>3. QED
  BY <1>2, Inductive, PTL DEF StoreSpec, RemovedCompletely
=============================================================================
