-------------------------- MODULE NeuralCoreProofs --------------------------
(***************************************************************************)
(* What NeuralCore says of the native model and its contexts, for any      *)
(* number of injections and generations that run at a time, of files and   *)
(* of activities.                                                          *)
(*                                                                         *)
(* InRamIsOnDisk speaks of quiet states.  What makes it inductive is what  *)
(* the one injection or load that runs, while no other began, knows at     *)
(* each of its steps: that the file is there when it is opened, that what  *)
(* it loaded is what is on disk, that what it assigned is too.  Of the     *)
(* flags of the cores the invariant says more than the property: it speaks *)
(* of every core that was ever marked, since an old activity's injection   *)
(* may end after a new activity came.                                      *)
(***************************************************************************)
EXTENDS NeuralCore, FiniteSetTheorems, TLAPS

MaybeFiles == Files \union {NoFile}
Locals == [core : Cores, file : MaybeFiles, at : 0..Full, loaded : MaybeFiles,
           tokens : 0..Cap]
Labels == {"idle", "generate", "context"} \union Injecting \union InEngine

\* NTypeOK but for the number of contexts, which ContextsAreFreed bounds.
NTypeInv ==
  /\ brain \in MaybeFiles /\ files \in 0..MaxFiles
  /\ length \in [Files -> 0..Full] /\ sound \in [Files -> BOOLEAN]
  /\ core \in Cores /\ isModelLoaded \in [Cores -> BOOLEAN]
  /\ model \in MaybeFiles
  /\ pc \in [Procs -> Labels] /\ my \in [Procs -> Locals]
  /\ report \in {"none", "stabilized", "stream error"}
  /\ overlap \in BOOLEAN /\ broken \in BOOLEAN

\* Injections and loads never overlapped: at most one is under way, ...
OneBusy == \A p, q \in Procs : Busy(p) /\ Busy(q) => p = q

\* ... and this is what it knows of the disk and of the model.
Knows(p) ==
  /\ pc[p] \in {"write"} \union Loading => brain # NoFile
  /\ pc[p] = "assign" => my[p].loaded = Loadable(brain)
  /\ pc[p] = "mark" => model = Loadable(brain)

Marked == \E c \in Cores : isModelLoaded[c]

RamInv ==
  ~overlap => /\ OneBusy
              /\ \A p \in Procs : Knows(p)
              /\ Quiet /\ ~broken /\ Marked => model = Loadable(brain)

NInv == NTypeInv /\ ContextsAreFreed /\ RamInv
-----------------------------------------------------------------------------
\* The bounds are numbers.
LEMMA Bounds == /\ Full \in Nat /\ Cap \in Nat /\ MaxFiles \in Nat /\ MaxCores \in Nat
                /\ 1 \in Cores
  BY NeuralAssumption DEF Cores

\* The fresh locals have their type.
LEMMA IdleType == /\ Idle \in Locals
                  /\ \A c \in Cores : [Idle EXCEPT !.core = c] \in Locals
  BY Bounds DEF Idle, Locals, MaybeFiles, NoFile

\* What is loaded from a file is that file or nothing.
LEMMA LoadableType == NTypeInv => Loadable(brain) \in MaybeFiles
  BY DEF NTypeInv, Loadable, MaybeFiles, NoFile

\* The files of a started process, or of a new one, have their types.
LEMMA RestartTypes == NTypeInv /\ Restart => NTypeInv'
<1> SUFFICES ASSUME NTypeInv, Restart PROVE NTypeInv'
  OBVIOUS
<1>1. my' \in [Procs -> Locals]  BY IdleType DEF Restart
<1>2. pc' \in [Procs -> Labels]  BY DEF Restart, Labels
<1>3. core' \in Cores  BY NeuralAssumption DEF Restart, Cores
<1>4. isModelLoaded' \in [Cores -> BOOLEAN]  BY DEF Restart
<1>5. overlap' \in BOOLEAN /\ broken' \in BOOLEAN  BY DEF Restart, NTypeInv
<1> QED  BY <1>1, <1>2, <1>3, <1>4, <1>5 DEF Restart, NTypeInv, disk, MaybeFiles

\* Where a coroutine may go, and what it may remember.
LEMMA GotoType ==
  ASSUME NTypeInv, NEW p \in Procs, NEW l \in Labels, Goto(p, l)
  PROVE  pc' \in [Procs -> Labels]
  BY DEF NTypeInv, Goto

\* Every step of an injection keeps the types.
LEMMA InjectorTypes ==
  ASSUME NTypeInv, NEW p \in Procs, InjectorStep(p) PROVE NTypeInv'
<1>l. {"idle", "create", "write", "open"} \subseteq Labels
  BY DEF Labels, Injecting, Loading
<1>m. my \in [Procs -> Locals] /\ my[p] \in Locals  BY DEF NTypeInv
<1>1. CASE Inject(p)
  <2>1. my' \in [Procs -> Locals]  BY <1>1, <1>m, IdleType DEF Inject, NTypeInv
  <2>2. pc' \in [Procs -> Labels]  BY <1>1, <1>l, GotoType DEF Inject
  <2>3. overlap' \in BOOLEAN  BY <1>1 DEF Inject, Begin, NTypeInv
  <2> QED  BY <1>1, <2>1, <2>2, <2>3 DEF Inject, NTypeInv, native, MaybeFiles
<1>2. CASE CreateFile(p)
  <2>1. pc' \in [Procs -> Labels]  BY <1>2, <1>l, GotoType DEF CreateFile
  <2>2. /\ brain' \in MaybeFiles /\ files' \in 0..MaxFiles
        /\ length' \in [Files -> 0..Full] /\ sound' \in [Files -> BOOLEAN]
    <3>1. CASE brain = NoFile
      <4>0. MaxFiles \in Nat /\ files \in 0..MaxFiles  BY Bounds DEF NTypeInv
      <4>1. files' = files + 1 /\ files' \in 0..MaxFiles /\ files' \in Files
        BY <1>2, <3>1, <4>0 DEF CreateFile, Files
      <4>2. brain' = files' /\ length' = length  BY <1>2, <3>1 DEF CreateFile
      <4>3. PICK good \in BOOLEAN : sound' = [sound EXCEPT ![files'] = good]
        BY <1>2, <3>1 DEF CreateFile
      <4> QED  BY <4>1, <4>2, <4>3 DEF NTypeInv, MaybeFiles
    <3>2. CASE brain # NoFile
      <4>1. 0 \in 0..Full  BY NeuralAssumption
      <4> QED  BY <1>2, <3>2, <4>1 DEF CreateFile, NTypeInv
    <3> QED  BY <3>1, <3>2
  <2>3. my' \in [Procs -> Locals]
    <3>1. [my[p] EXCEPT !.file = brain'] \in Locals  BY <1>m, <2>2 DEF Locals
    <3> QED  BY <1>2, <1>m, <3>1 DEF CreateFile
  <2> QED  BY <1>2, <2>1, <2>2, <2>3 DEF CreateFile, NTypeInv, native, MaybeFiles
<1>3. CASE WriteChunk(p)
  <2>0. my[p].at \in 0..Full /\ my[p].at + 1 \in 0..Full
    BY <1>3, <1>m, NeuralAssumption DEF WriteChunk, Locals
  <2>1. my' \in [Procs -> Locals]
    <3>1. [my[p] EXCEPT !.at = @ + 1] \in Locals  BY <1>m, <2>0 DEF Locals
    <3> QED  BY <1>3, <1>m, <3>1 DEF WriteChunk
  <2>2. length' \in [Files -> 0..Full]
    BY <1>3, <2>0 DEF WriteChunk, NTypeInv
  <2> QED  BY <1>3, <2>1, <2>2 DEF WriteChunk, NTypeInv, native, MaybeFiles
<1>4. CASE StreamFails(p)
  <2>1. my' \in [Procs -> Locals]  BY <1>4, <1>m, IdleType DEF StreamFails, Return
  <2>2. pc' \in [Procs -> Labels]  BY <1>4, <1>l, GotoType DEF StreamFails, Return
  <2>3. broken' \in BOOLEAN  BY <1>4 DEF StreamFails
  <2> QED  BY <1>4, <2>1, <2>2, <2>3 DEF StreamFails, NTypeInv, disk, native
<1>5. CASE StreamEnds(p)
  <2>0. my[p].core \in Cores  BY <1>m DEF Locals
  <2>1. my' \in [Procs -> Locals]  BY <1>5, <1>m, <2>0, IdleType DEF StreamEnds, Forget
  <2>2. pc' \in [Procs -> Labels]  BY <1>5, <1>l, GotoType DEF StreamEnds
  <2>3. broken' \in BOOLEAN  BY <1>5 DEF StreamEnds
  <2> QED  BY <1>5, <2>1, <2>2, <2>3 DEF StreamEnds, NTypeInv, disk, native
<1> QED  BY <1>1, <1>2, <1>3, <1>4, <1>5 DEF InjectorStep

\* Every step of a load keeps the types.
LEMMA LoadTypes ==
  ASSUME NTypeInv, NEW p \in Procs, LoadStep(p) PROVE NTypeInv'
<1>l. {"idle", "load", "assign", "mark", "generate"} \subseteq Labels
  BY DEF Labels, Injecting, Loading
<1>m. my \in [Procs -> Locals] /\ my[p] \in Locals  BY DEF NTypeInv
<1>c. my[p].core \in Cores /\ my[p].loaded \in MaybeFiles  BY <1>m DEF Locals
<1>1. CASE OpenModel(p)
  <2>1. pc' \in [Procs -> Labels]  BY <1>1, <1>l, GotoType DEF OpenModel
  <2> QED  BY <1>1, <2>1 DEF OpenModel, NTypeInv, disk, native
<1>4. CASE LoadFile(p)
  <2>1. [my[p] EXCEPT !.loaded = Loadable(brain)] \in Locals
    BY <1>m, LoadableType DEF Locals
  <2>2. my' \in [Procs -> Locals]  BY <1>4, <1>m, <2>1 DEF LoadFile
  <2>3. pc' \in [Procs -> Labels]  BY <1>4, <1>l, GotoType DEF LoadFile
  <2> QED  BY <1>4, <2>2, <2>3 DEF LoadFile, NTypeInv, disk, native
<1>2. CASE AssignModel(p)
  <2>1. my' \in [Procs -> Locals]  BY <1>2, <1>m, <1>c, IdleType DEF AssignModel, Forget
  <2>2. pc' \in [Procs -> Labels]  BY <1>2, <1>l, GotoType DEF AssignModel
  <2> QED  BY <1>2, <1>c, <2>1, <2>2 DEF AssignModel, NTypeInv, disk
<1>3. CASE MarkLoaded(p)
  <2>1. isModelLoaded' \in [Cores -> BOOLEAN]  BY <1>3 DEF MarkLoaded, NTypeInv
  <2>2. my' \in [Procs -> Locals]  BY <1>3, <1>m, IdleType DEF MarkLoaded, Return
  <2>3. pc' \in [Procs -> Labels]  BY <1>3, <1>l, GotoType DEF MarkLoaded, Return
  <2>4. report' \in {"none", "stabilized", "stream error"}  BY <1>3 DEF MarkLoaded, NTypeInv
  <2> QED  BY <1>3, <2>1, <2>2, <2>3, <2>4 DEF MarkLoaded, NTypeInv, disk, native
<1> QED  BY <1>1, <1>2, <1>3, <1>4 DEF LoadStep

\* Every step of a generation keeps the types.
LEMMA EngineTypes ==
  ASSUME NTypeInv, NEW p \in Procs, Generate(p) \/ EngineStep(p) PROVE NTypeInv'
<1>l. {"idle", "open", "generate", "context", "vocab", "decode"} \subseteq Labels
  BY DEF Labels, Injecting, Loading, InEngine
<1>m. my \in [Procs -> Locals] /\ my[p] \in Locals  BY DEF NTypeInv
<1>t. my[p].tokens \in 0..Cap /\ model \in MaybeFiles  BY <1>m DEF Locals, NTypeInv
<1>1. CASE Generate(p)
  <2>1. my' \in [Procs -> Locals]  BY <1>1, <1>m, IdleType DEF Generate, NTypeInv
  <2>2. pc' \in [Procs -> Labels]  BY <1>1, <1>l, GotoType DEF Generate
  <2>3. overlap' \in BOOLEAN  BY <1>1 DEF Generate, Begin, NTypeInv
  <2> QED  BY <1>1, <2>1, <2>2, <2>3 DEF Generate, NTypeInv, disk, native
<1>2. CASE TestModel(p)
  <2>1. my' \in [Procs -> Locals]  BY <1>2, <1>m, IdleType DEF TestModel, Return
  <2>2. pc' \in [Procs -> Labels]  BY <1>2, <1>l, GotoType DEF TestModel, Return
  <2> QED  BY <1>2, <2>1, <2>2 DEF TestModel, NTypeInv, disk, native
<1>3. CASE NewContext(p)
  <2>1. my' \in [Procs -> Locals]  BY <1>3, <1>m, IdleType DEF NewContext, Return
  <2>2. pc' \in [Procs -> Labels]  BY <1>3, <1>l, GotoType DEF NewContext, Return
  <2> QED  BY <1>3, <2>1, <2>2 DEF NewContext, NTypeInv, disk
<1>4. CASE GetVocab(p)
  <2>1. pc' \in [Procs -> Labels]  BY <1>4, <1>l, GotoType DEF GetVocab
  <2> QED  BY <1>4, <2>1 DEF GetVocab, NTypeInv, disk, native
<1>5. CASE NullVocab(p)
  BY <1>5, RestartTypes DEF NullVocab
<1>6. CASE Decode(p)
  <2>1. my[p].tokens + 1 \in 0..Cap  BY <1>6, <1>t, NeuralAssumption DEF Decode
  <2>2. [my[p] EXCEPT !.tokens = @ + 1] \in Locals  BY <1>m, <2>1 DEF Locals
  <2>3. my' \in [Procs -> Locals]  BY <1>6, <1>m, <2>2 DEF Decode
  <2> QED  BY <1>6, <2>3 DEF Decode, NTypeInv, disk, native
<1>7. CASE Finish(p)
  <2>1. my' \in [Procs -> Locals]  BY <1>7, <1>m, IdleType DEF Finish, Return
  <2>2. pc' \in [Procs -> Labels]  BY <1>7, <1>l, GotoType DEF Finish, Return
  <2> QED  BY <1>7, <2>1, <2>2 DEF Finish, NTypeInv, disk
<1> QED  BY <1>1, <1>2, <1>3, <1>4, <1>5, <1>6, <1>7 DEF EngineStep

\* Every step keeps the types.
LEMMA NTypeStep == ASSUME NTypeInv, [NNext]_nvars PROVE NTypeInv'
<1>1. CASE \E p \in Injectors : InjectorStep(p) \/ LoadStep(p)
  BY <1>1, InjectorTypes, LoadTypes DEF Procs
<1>2. CASE \E p \in Generators : Generate(p) \/ LoadStep(p) \/ EngineStep(p)
  BY <1>2, EngineTypes, LoadTypes DEF Procs
<1>3. CASE Recreate
  <2>0. MaxCores \in Nat /\ core \in 1..MaxCores  BY Bounds DEF NTypeInv, Cores
  <2>1. core' \in Cores  BY <1>3, <2>0 DEF Recreate, Cores
  <2> QED  BY <1>3, <2>1 DEF Recreate, NTypeInv, disk, native
<1>4. CASE Restart  BY <1>4, RestartTypes
<1>5. CASE UNCHANGED nvars  BY <1>5 DEF nvars, disk, native, NTypeInv
<1> QED  BY <1>1, <1>2, <1>3, <1>4, <1>5 DEF NNext
-----------------------------------------------------------------------------
(* Contexts.                                                               *)

Decoding == {p \in Generators : pc[p] \in InEngine}

\* The contexts are as many as before if the same generations have one.
LEMMA SameContexts ==
  ASSUME ContextsAreFreed, contexts' = contexts,
         \A g \in Generators : pc'[g] \in InEngine <=> pc[g] \in InEngine
  PROVE  ContextsAreFreed'
<1>1. Decoding' = Decoding  BY DEF Decoding
<1>2. contexts = Cardinality(Decoding)  BY DEF ContextsAreFreed, Decoding
<1>3. contexts' = Cardinality(Decoding')  BY <1>1, <1>2
<1> QED  BY <1>3 DEF ContextsAreFreed, Decoding

\* A new process has no contexts.
LEMMA RestartContexts == Restart => ContextsAreFreed'
<1> SUFFICES ASSUME Restart PROVE ContextsAreFreed'
  OBVIOUS
<1>1. \A g \in Generators : pc'[g] = "idle"  BY DEF Restart, Procs
<1>2. Decoding' = {}  BY <1>1 DEF Decoding, InEngine
<1>3. contexts' = Cardinality(Decoding')  BY <1>2, FS_EmptySet DEF Restart
<1> QED
  BY <1>1, <1>3 DEF ContextsAreFreed, Decoding, InEngine

\* Every step keeps the contexts of real models, and in number.
LEMMA ContextStep ==
  ASSUME NTypeInv, ContextsAreFreed, [NNext]_nvars PROVE ContextsAreFreed'
<1>t. pc \in [Procs -> Labels] /\ my \in [Procs -> Locals] /\ Generators \subseteq Procs
  BY DEF NTypeInv, Procs
\* A step of one coroutine that neither makes nor frees a context.
<1>s. ASSUME NEW p \in Procs, NEW l, Goto(p, l), contexts' = contexts,
             pc[p] \in InEngine <=> l \in InEngine
      PROVE  ContextsAreFreed'
  <2>1. \A q \in Procs : pc'[q] = IF q = p THEN l ELSE pc[q]  BY <1>s, <1>t DEF Goto
  <2> QED  BY <1>s, <1>t, <2>1, SameContexts
<1>1. ASSUME NEW p \in Injectors, InjectorStep(p) PROVE ContextsAreFreed'
  <2>1. \A g \in Generators : pc'[g] = pc[g] /\ my'[g] = my[g]
    BY <1>1, <1>t, NeuralAssumption
       DEF InjectorStep, Inject, CreateFile, WriteChunk, StreamFails, StreamEnds, Goto, Return,
           Forget, Procs
  <2>2. contexts' = contexts
    BY <1>1 DEF InjectorStep, Inject, CreateFile, WriteChunk, StreamFails, StreamEnds, native
  <2> QED  BY <2>1, <2>2, SameContexts
<1>2. ASSUME NEW p \in Procs, LoadStep(p) PROVE ContextsAreFreed'
  <2>1. CASE OpenModel(p)
    <3>1. \E l \in {"load", "mark"} : Goto(p, l)  BY <2>1 DEF OpenModel
    <3> QED  BY <2>1, <3>1, <1>s, <1>t DEF OpenModel, native, InEngine
  <2>4. CASE LoadFile(p)
    BY <2>4, <1>s, <1>t DEF LoadFile, native, InEngine
  <2>2. CASE AssignModel(p)
    BY <2>2, <1>s, <1>t DEF AssignModel, Forget, InEngine
  <2>3. CASE MarkLoaded(p)
    <3>1. \E l \in {"idle", "generate"} : Goto(p, l)  BY <2>3 DEF MarkLoaded, Return
    <3> QED  BY <2>3, <3>1, <1>s, <1>t DEF MarkLoaded, Return, native, InEngine
  <2> QED  BY <1>2, <2>1, <2>2, <2>3, <2>4 DEF LoadStep
<1>3. ASSUME NEW p \in Generators, Generate(p) \/ EngineStep(p) PROVE ContextsAreFreed'
  <2>g. p \in Procs  BY DEF Procs
  <2>1. CASE Generate(p)
    <3>1. \E l \in {"open", "generate"} : Goto(p, l)  BY <2>1 DEF Generate
    <3> QED  BY <2>1, <2>g, <3>1, <1>s, <1>t DEF Generate, native, InEngine
  <2>2. CASE TestModel(p)
    <3>1. \E l \in {"idle", "context"} : Goto(p, l)  BY <2>2 DEF TestModel, Return
    <3> QED  BY <2>2, <2>g, <3>1, <1>s, <1>t DEF TestModel, Return, native, InEngine
  <2>3. CASE NewContext(p) /\ Return(p) /\ UNCHANGED contexts
    BY <2>3, <2>g, <1>s, <1>t DEF NewContext, Return, InEngine
  <2>4. CASE NewContext(p) /\ contexts' = contexts + 1 /\ Goto(p, "vocab")
    <3>1. pc' = [pc EXCEPT ![p] = "vocab"] /\ contexts' = contexts + 1 /\ pc[p] = "context"
      BY <2>4 DEF NewContext, Goto
    <3>2. p \notin Decoding  BY <3>1 DEF Decoding, InEngine
    <3>3. Decoding' = Decoding \union {p}  BY <3>1, <1>t DEF Decoding, InEngine
    <3>4. IsFiniteSet(Decoding)  BY NeuralAssumption, FS_Subset DEF Decoding
    <3>5. contexts = Cardinality(Decoding)  BY DEF ContextsAreFreed, Decoding
    <3>6. contexts' = Cardinality(Decoding')  BY <3>1, <3>2, <3>3, <3>4, <3>5, FS_AddElement
    <3> QED  BY <3>6 DEF ContextsAreFreed, Decoding
  <2>5. CASE GetVocab(p)
    BY <2>5, <2>g, <1>s, <1>t DEF GetVocab, native, InEngine
  <2>6. CASE NullVocab(p)
    BY <2>6, RestartContexts DEF NullVocab
  <2>7. CASE Decode(p)
    BY <2>7, SameContexts DEF Decode, native
  <2>8. CASE Finish(p)
    <3>1. pc' = [pc EXCEPT ![p] = "idle"] /\ contexts' = contexts - 1 /\ pc[p] = "decode"
      BY <2>8 DEF Finish, Goto, Return
    <3>2. p \in Decoding  BY <3>1 DEF Decoding, InEngine
    <3>3. Decoding' = Decoding \ {p}  BY <3>1, <1>t DEF Decoding, InEngine
    <3>4. IsFiniteSet(Decoding)  BY NeuralAssumption, FS_Subset DEF Decoding
    <3>5. contexts = Cardinality(Decoding)  BY DEF ContextsAreFreed, Decoding
    <3>6. contexts' = Cardinality(Decoding')  BY <3>1, <3>2, <3>3, <3>4, <3>5, FS_RemoveElement
    <3> QED  BY <3>6 DEF ContextsAreFreed, Decoding
  <2> QED  BY <1>3, <2>1, <2>2, <2>3, <2>4, <2>5, <2>6, <2>7, <2>8 DEF EngineStep, NewContext
<1>4. CASE Recreate  BY <1>4, SameContexts DEF Recreate, native
<1>5. CASE Restart  BY <1>5, RestartContexts
<1>6. CASE UNCHANGED nvars  BY <1>6, SameContexts DEF nvars, native
<1> QED  BY <1>1, <1>2, <1>3, <1>4, <1>5, <1>6 DEF NNext, Procs
-----------------------------------------------------------------------------
(* The model in RAM and the file on disk.                                  *)

\* A step that no injection or load can tell.
LEMMA SameRam ==
  ASSUME RamInv, UNCHANGED <<disk, model, isModelLoaded, overlap, broken>>,
         \A q \in Procs : /\ Busy(q)' <=> Busy(q)
                          /\ Busy(q) => pc'[q] = pc[q] /\ my'[q] = my[q]
  PROVE  RamInv'
<1> SUFFICES ASSUME ~overlap' PROVE RamInv'
  BY DEF RamInv
<1>1. OneBusy'  BY DEF RamInv, OneBusy
<1>2. Loadable(brain)' = Loadable(brain)  BY DEF Loadable, disk
<1>3. \A q \in Procs : Knows(q)'
  <2> TAKE q \in Procs
  <2>1. Knows(q)  BY DEF RamInv
  <2> QED  BY <1>2, <2>1 DEF Knows, Busy, Injecting, Loading, disk
<1>4. Quiet' /\ ~broken' /\ Marked' => (model = Loadable(brain))'
  BY <1>2 DEF RamInv, Quiet, Marked
<1> QED  BY <1>1, <1>3, <1>4 DEF RamInv

\* A step of the one injection or load that runs.
LEMMA BusyRam ==
  ASSUME NEW p \in Procs, ~overlap' => \A q \in Procs \ {p} : ~Busy(q),
         \A q \in Procs \ {p} : pc'[q] = pc[q],
         ~overlap' => Knows(p)',
         ~overlap' /\ ~Busy(p)' /\ ~broken' /\ Marked' => (model = Loadable(brain))'
  PROVE  RamInv'
<1> SUFFICES ASSUME ~overlap' PROVE RamInv'
  BY DEF RamInv
<1>1. \A q \in Procs \ {p} : pc'[q] \notin Injecting  BY DEF Busy
<1>2. OneBusy'  BY <1>1 DEF OneBusy, Busy
<1>3. \A q \in Procs : Knows(q)'  BY <1>1 DEF Knows, Injecting, Loading
<1>4. Quiet' => ~Busy(p)'  BY DEF Quiet
<1> QED  BY <1>2, <1>3, <1>4 DEF RamInv

\* A new process has marked no core.
LEMMA RestartRam == Restart => RamInv'
<1> SUFFICES ASSUME Restart PROVE RamInv'
  OBVIOUS
<1>1. \A q \in Procs : pc'[q] = "idle"  BY DEF Restart
<1>2. ~Marked'  BY DEF Restart, Marked
<1>3. OneBusy' /\ \A q \in Procs : Knows(q)'
  BY <1>1 DEF OneBusy, Knows, Busy, Injecting, Loading
<1> QED  BY <1>2, <1>3 DEF RamInv

\* Every step keeps what is known of the model in RAM.
LEMMA RamStep ==
  ASSUME NTypeInv, RamInv, [NNext]_nvars PROVE RamInv'
<1>t. pc \in [Procs -> Labels] /\ my \in [Procs -> Locals]
  BY DEF NTypeInv
\* The others stand still when one that is busy moves.
<1>b. ASSUME NEW p \in Procs, Busy(p), ~overlap
      PROVE  /\ \A q \in Procs \ {p} : ~Busy(q)
             /\ Knows(p)
  BY <1>b DEF RamInv, OneBusy
\* A step of one that is not, and does not become, busy.
<1>s. ASSUME NEW p \in Procs, NEW l, Goto(p, l), pc[p] \notin Injecting, l \notin Injecting,
             UNCHANGED <<disk, model, isModelLoaded, overlap, broken>>,
             \A q \in Procs \ {p} : my'[q] = my[q]
      PROVE  RamInv'
  <2>1. \A q \in Procs : pc'[q] = IF q = p THEN l ELSE pc[q]  BY <1>s, <1>t DEF Goto
  <2> QED  BY <1>s, <2>1, SameRam DEF Busy
<1>1. ASSUME NEW p \in Injectors, InjectorStep(p) PROVE RamInv'
  <2>p. p \in Procs  BY DEF Procs
  <2>1. CASE Inject(p)
    <3>1. \A q \in Procs : pc'[q] = IF q = p THEN "create" ELSE pc[q]
      BY <2>1, <1>t DEF Inject, Goto
    <3>2. ~overlap' => \A q \in Procs : ~Busy(q)  BY <2>1 DEF Inject, Begin
    <3>3. Busy(p)' /\ Knows(p)'  BY <2>p, <3>1 DEF Busy, Knows, Injecting, Loading
    <3> QED  BY <2>p, <3>1, <3>2, <3>3, BusyRam
  <2>2. CASE CreateFile(p)
    <3>1. pc[p] = "create" /\ \A q \in Procs : pc'[q] = IF q = p THEN "write" ELSE pc[q]
      BY <2>2, <1>t DEF CreateFile, Goto
    <3>2. overlap' = overlap /\ Busy(p)  BY <2>2, <3>1 DEF CreateFile, Busy, Injecting
    <3>3. brain' # NoFile
      <4>1. files \in 0..MaxFiles  BY DEF NTypeInv
      <4>2. files + 1 # 0  BY <4>1
      <4> QED  BY <2>2, <4>2 DEF CreateFile, NoFile
    <3>4. Busy(p)' /\ Knows(p)'  BY <2>p, <3>1, <3>3 DEF Busy, Knows, Injecting, Loading
    <3> QED  BY <2>p, <3>1, <3>2, <3>4, <1>b, BusyRam
  <2>3. CASE WriteChunk(p)
    <3>1. pc[p] = "write" /\ pc' = pc /\ overlap' = overlap /\ brain' = brain
      BY <2>3 DEF WriteChunk
    <3>2. Busy(p) /\ Busy(p)'  BY <3>1 DEF Busy, Injecting
    <3>3. ~overlap => Knows(p)'  BY <2>p, <1>b, <3>1, <3>2 DEF Knows, Loading
    <3> QED  BY <2>p, <3>1, <3>2, <3>3, <1>b, BusyRam
  <2>4. CASE StreamFails(p)
    <3>1. /\ pc[p] \in {"create", "write"}
          /\ \A q \in Procs : pc'[q] = IF q = p THEN "idle" ELSE pc[q]
      BY <2>4, <1>t DEF StreamFails, Return, Goto
    <3>2. overlap' = overlap /\ broken' /\ Busy(p)  BY <2>4, <3>1 DEF StreamFails, Busy, Injecting
    <3>3. Knows(p)'  BY <2>p, <3>1 DEF Knows, Loading
    <3> QED  BY <2>p, <3>1, <3>2, <3>3, <1>b, BusyRam
  <2>5. CASE StreamEnds(p)
    <3>1. pc[p] = "write" /\ \A q \in Procs : pc'[q] = IF q = p THEN "open" ELSE pc[q]
      BY <2>5, <1>t DEF StreamEnds, Goto
    <3>2. overlap' = overlap /\ brain' = brain /\ Busy(p)
      BY <2>5, <3>1 DEF StreamEnds, disk, Busy, Injecting
    <3>3. ~overlap => brain # NoFile  BY <2>p, <1>b, <3>1, <3>2 DEF Knows
    <3>4. Busy(p)' /\ (~overlap => Knows(p)')
      BY <2>p, <3>1, <3>2, <3>3 DEF Busy, Knows, Injecting, Loading
    <3> QED  BY <2>p, <3>1, <3>2, <3>4, <1>b, BusyRam
  <2> QED  BY <1>1, <2>1, <2>2, <2>3, <2>4, <2>5 DEF InjectorStep
<1>2. ASSUME NEW p \in Procs, LoadStep(p) PROVE RamInv'
  <2>1. CASE OpenModel(p)
    <3>1. /\ pc[p] = "open"
          /\ \A q \in Procs : pc'[q] = IF q = p THEN IF brain = NoFile THEN "mark" ELSE "load"
                                       ELSE pc[q]
      BY <2>1, <1>t DEF OpenModel, Goto
    <3>2. overlap' = overlap /\ Busy(p)  BY <2>1, <3>1 DEF OpenModel, Busy, Injecting, Loading
    <3>3. ~overlap => brain # NoFile  BY <1>b, <3>1, <3>2 DEF Knows, Loading
    <3>4. brain' = brain  BY <2>1 DEF OpenModel, disk
    <3>5. Busy(p)' /\ (~overlap => Knows(p)')
      BY <3>1, <3>3, <3>4 DEF Busy, Knows, Injecting, Loading
    <3> QED  BY <3>1, <3>2, <3>5, <1>b, BusyRam
  <2>4. CASE LoadFile(p)
    <3>1. /\ pc[p] = "load" /\ my'[p].loaded = Loadable(brain)
          /\ \A q \in Procs : pc'[q] = IF q = p THEN "assign" ELSE pc[q]
      BY <2>4, <1>t DEF LoadFile, Goto, Locals
    <3>2. overlap' = overlap /\ Busy(p)  BY <2>4, <3>1 DEF LoadFile, Busy, Injecting, Loading
    <3>3. ~overlap => brain # NoFile  BY <1>b, <3>1, <3>2 DEF Knows, Loading
    <3>4. brain' = brain /\ Loadable(brain)' = Loadable(brain)
      BY <2>4 DEF LoadFile, disk, Loadable
    <3>5. Busy(p)' /\ (~overlap => Knows(p)')
      BY <3>1, <3>3, <3>4 DEF Busy, Knows, Injecting, Loading
    <3> QED  BY <3>1, <3>2, <3>5, <1>b, BusyRam
  <2>2. CASE AssignModel(p)
    <3>1. /\ pc[p] = "assign" /\ model' = my[p].loaded
          /\ \A q \in Procs : pc'[q] = IF q = p THEN "mark" ELSE pc[q]
      BY <2>2, <1>t DEF AssignModel, Goto
    <3>2. overlap' = overlap /\ Busy(p)  BY <2>2, <3>1 DEF AssignModel, Busy, Injecting, Loading
    <3>3. ~overlap => brain # NoFile /\ my[p].loaded = Loadable(brain)
      BY <1>b, <3>1, <3>2 DEF Knows, Loading
    <3>4. brain' = brain /\ Loadable(brain)' = Loadable(brain)
      BY <2>2 DEF AssignModel, disk, Loadable
    <3>5. Busy(p)' /\ (~overlap => Knows(p)')
      BY <3>1, <3>3, <3>4 DEF Busy, Knows, Injecting, Loading
    <3> QED  BY <3>1, <3>2, <3>5, <1>b, BusyRam
  <2>3. CASE MarkLoaded(p)
    <3>1. PICK l \in {"idle", "generate"} : pc' = [pc EXCEPT ![p] = l]
      BY <2>3 DEF MarkLoaded, Return, Goto
    <3>2. pc[p] = "mark" /\ \A q \in Procs : pc'[q] = IF q = p THEN l ELSE pc[q]
      BY <2>3, <3>1, <1>t DEF MarkLoaded
    <3>3. overlap' = overlap /\ Busy(p)  BY <2>3, <3>2 DEF MarkLoaded, Busy, Injecting, Loading
    <3>4. ~overlap => model = Loadable(brain)  BY <1>b, <3>2, <3>3 DEF Knows
    <3>5. model' = model /\ Loadable(brain)' = Loadable(brain)
      BY <2>3 DEF MarkLoaded, disk, native, Loadable
    <3>6. Knows(p)'  BY <3>2 DEF Knows, Loading
    <3> QED  BY <3>2, <3>3, <3>4, <3>5, <3>6, <1>b, BusyRam
  <2> QED  BY <1>2, <2>1, <2>2, <2>3, <2>4 DEF LoadStep
<1>3. ASSUME NEW p \in Generators, Generate(p) \/ EngineStep(p) PROVE RamInv'
  <2>p. p \in Procs  BY DEF Procs
  <2>i. Injecting \intersect {"idle", "generate", "context", "vocab", "decode"} = {}
    BY DEF Injecting, Loading
  <2>1. CASE Generate(p) /\ isModelLoaded[core]
    <3>1. Goto(p, "generate") /\ pc[p] = "idle"  BY <2>1 DEF Generate
    <3> QED  BY <2>1, <2>p, <2>i, <3>1, <1>s, <1>t DEF Generate, native
  <2>2. CASE Generate(p) /\ ~isModelLoaded[core]
    <3>1. \A q \in Procs : pc'[q] = IF q = p THEN "open" ELSE pc[q]
      BY <2>2, <1>t DEF Generate, Goto
    <3>2. ~overlap' => \A q \in Procs : ~Busy(q)  BY <2>2 DEF Generate, Begin
    <3>3. brain' # NoFile  BY <2>2 DEF Generate, Located, disk
    <3>4. Busy(p)' /\ Knows(p)'  BY <2>p, <3>1, <3>3 DEF Busy, Knows, Injecting, Loading
    <3> QED  BY <2>p, <3>1, <3>2, <3>4, BusyRam
  <2>3. CASE TestModel(p)
    <3>1. \E l \in {"idle", "context"} : Goto(p, l)  BY <2>3 DEF TestModel, Return
    <3> QED  BY <2>3, <2>p, <2>i, <3>1, <1>s, <1>t DEF TestModel, Return, native
  <2>4. CASE NewContext(p)
    <3>1. \E l \in {"idle", "vocab"} : Goto(p, l)  BY <2>4 DEF NewContext, Return
    <3> QED  BY <2>4, <2>p, <2>i, <3>1, <1>s, <1>t DEF NewContext, Return
  <2>5. CASE GetVocab(p)
    BY <2>5, <2>p, <2>i, <1>s, <1>t DEF GetVocab, native
  <2>6. CASE NullVocab(p)
    BY <2>6, RestartRam DEF NullVocab
  <2>7. CASE Decode(p)
    <3>1. \A q \in Procs \ {p} : my'[q] = my[q]  BY <2>7, <1>t DEF Decode
    <3>2. pc[p] \notin Injecting  BY <2>7, <2>i DEF Decode
    <3> QED  BY <2>7, <2>p, <3>1, <3>2, SameRam DEF Decode, native, Busy
  <2>8. CASE Finish(p)
    BY <2>8, <2>p, <2>i, <1>s, <1>t DEF Finish, Return
  <2> QED  BY <1>3, <2>1, <2>2, <2>3, <2>4, <2>5, <2>6, <2>7, <2>8 DEF EngineStep
<1>4. CASE Recreate  BY <1>4, SameRam DEF Recreate, native, Busy
<1>5. CASE Restart  BY <1>5, RestartRam
<1>6. CASE UNCHANGED nvars  BY <1>6, SameRam DEF nvars, native, Busy
<1> QED  BY <1>1, <1>2, <1>3, <1>4, <1>5, <1>6 DEF NNext, Procs

-----------------------------------------------------------------------------
\* The inductive invariant of the neural core.
THEOREM NeuralInvariant == NSpec => []NInv
<1>1. NInit => NInv
  <2> SUFFICES ASSUME NInit PROVE NInv
    OBVIOUS
  <2>1. NTypeInv
    <3>1. my \in [Procs -> Locals]  BY IdleType DEF NInit
    <3>2. pc \in [Procs -> Labels]  BY DEF NInit, Labels
    <3>3. files \in 0..MaxFiles /\ length \in [Files -> 0..Full] /\ core \in Cores
      BY Bounds DEF NInit
    <3> QED  BY <3>1, <3>2, <3>3 DEF NInit, NTypeInv, MaybeFiles
  <2>2. ContextsAreFreed
    <3>1. \A g \in Generators : pc[g] = "idle"  BY DEF NInit, Procs
    <3>2. Decoding = {}  BY <3>1 DEF Decoding, InEngine
    <3>3. contexts = Cardinality(Decoding)  BY <3>2, FS_EmptySet DEF NInit
    <3> QED
      BY <3>1, <3>3 DEF ContextsAreFreed, Decoding, InEngine
  <2>3. RamInv
    BY DEF NInit, RamInv, OneBusy, Knows, Marked, Busy, Injecting, Loading
  <2> QED  BY <2>1, <2>2, <2>3 DEF NInv
<1>2. NInv /\ [NNext]_nvars => NInv'
  BY NTypeStep, ContextStep, RamStep DEF NInv
<1> QED  BY <1>1, <1>2, PTL DEF NSpec

\* The variables have their types; there are never more contexts than
\* generations.
THEOREM NeuralTypeCorrect == NSpec => []NTypeOK
<1>1. NInv => NTypeOK
  <2> SUFFICES ASSUME NInv PROVE NTypeOK
    OBVIOUS
  <2>1. contexts \in 0..Cardinality(Generators)
    <3>1. /\ IsFiniteSet(Decoding) /\ IsFiniteSet(Generators)
          /\ Cardinality(Decoding) <= Cardinality(Generators)
      BY NeuralAssumption, FS_Subset DEF Decoding
    <3>2. Cardinality(Decoding) \in Nat /\ Cardinality(Generators) \in Nat
      BY <3>1, FS_CardinalityType
    <3> QED  BY <3>1, <3>2 DEF NInv, ContextsAreFreed, Decoding
  <2> QED  BY <2>1 DEF NInv, NTypeInv, NTypeOK, Locals, Labels, MaybeFiles
<1> QED  BY <1>1, NeuralInvariant, PTL

\* Every context that was made is freed by the generation that made it.
THEOREM FreedCorrect == NSpec => []ContextsAreFreed
<1>1. NInv => ContextsAreFreed  BY DEF NInv
<1> QED  BY <1>1, NeuralInvariant, PTL

\* Without overlap and broken streams a core that calls itself loaded answers
\* with the model that was injected last (LocalAICore.kt:38, 55).
THEOREM RamCorrect == NSpec => []InRamIsOnDisk
<1>1. NInv => InRamIsOnDisk
  BY DEF NInv, NTypeInv, RamInv, InRamIsOnDisk, Marked
<1> QED  BY <1>1, NeuralInvariant, PTL
=============================================================================
