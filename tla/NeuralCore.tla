----------------------------- MODULE NeuralCore -----------------------------
(***************************************************************************)
(* LocalAICore and its native half: the injection of a model file, the     *)
(* lazy load, and a generation in llama.cpp (external).                    *)
(*                                                                         *)
(* Injections and generations run on IO threads, as many at a time as the  *)
(* user starts, with no lock: a step of a process below is what happens    *)
(* between two accesses to something they share, which is the file         *)
(* brain.gguf, the flag isModelLoaded of each LocalAICore object and the   *)
(* native global `model', one for the whole process.  Files are inodes: a  *)
(* deleted file lives on for the thread that writes it.                    *)
(***************************************************************************)
EXTENDS Naturals, FiniteSets

CONSTANTS
    Injectors, Generators,  \* the coroutines that may run
    Full,                   \* chunks of a complete model file
    Threshold,              \* the 50 MB of checkCoreStatus, in chunks
    Cap,                    \* the 20 tokens of KILL-SWITCH 1
    MaxFiles,               \* bound: files ever created
    MaxCores                \* bound: LocalAICore objects, one per activity

ASSUME NeuralAssumption ==
    /\ Injectors \intersect Generators = {} /\ IsFiniteSet(Generators)
    /\ {Full, Threshold, Cap, MaxFiles, MaxCores} \subseteq Nat
    /\ Threshold < Full /\ MaxCores > 0

Procs == Injectors \union Generators
Files == 1..MaxFiles
Cores == 1..MaxCores
NoFile == 0

VARIABLES
    brain,          \* the file that the path brain.gguf names, or NoFile
    files,          \* how many files have been created
    length,         \* of each file, in chunks
    sound,          \* of each file: its bytes are those of one real model
    core,           \* the LocalAICore of the live activity
    isModelLoaded,  \* of each core
    model,          \* native: the file the loaded model came from, or NoFile
    contexts,       \* native: llama contexts not freed
    pc,             \* where each coroutine is
    my,             \* and its locals: its core, the file it writes and how far,
                    \* the result of its load, its tokens
    report,         \* what the last injection told the user
    \* history
    overlap,        \* an injection or a load began while another was running
    broken          \* an injection failed after it had deleted the file

disk   == <<brain, files, length, sound>>
native == <<model, contexts>>
nvars  == <<disk, core, isModelLoaded, native, pc, my, report, overlap, broken>>

Idle == [core |-> 1, file |-> NoFile, at |-> 0, loaded |-> NoFile, tokens |-> 0]

\* llama_load_model_from_file: refuses what is not one whole model.
Loadable(f) == IF f # NoFile /\ sound[f] /\ length[f] = Full THEN f ELSE NoFile

\* The test of checkCoreStatus and of generateResponse.
Located == brain # NoFile /\ length[brain] > Threshold

Loading    == {"open", "load", "assign", "mark"}
Injecting  == {"create", "write"} \union Loading
InEngine   == {"vocab", "decode"}
Busy(p)    == pc[p] \in Injecting
Goto(p, l) == pc' = [pc EXCEPT ![p] = l]
Return(p)  == Goto(p, "idle") /\ my' = [my EXCEPT ![p] = Idle]
\* The locals that are dead from here on are forgotten.
Forget(p)  == my' = [my EXCEPT ![p] = [Idle EXCEPT !.core = my[p].core]]
Begin      == overlap' = (overlap \/ \E q \in Procs : Busy(q))

NInit ==
    /\ brain = NoFile /\ files = 0
    /\ length = [f \in Files |-> 0]
    /\ sound = [f \in Files |-> FALSE]
    /\ core = 1
    /\ isModelLoaded = [c \in Cores |-> FALSE]
    /\ model = NoFile /\ contexts = 0
    /\ pc = [p \in Procs |-> "idle"]
    /\ my = [p \in Procs |-> Idle]
    /\ report = "none"
    /\ overlap = FALSE /\ broken = FALSE
-----------------------------------------------------------------------------
(* injectFromStream.                                                       *)

Inject(p) ==
    /\ pc[p] = "idle"
    /\ brain' = NoFile
    /\ my' = [my EXCEPT ![p] = [Idle EXCEPT !.core = core]]
    /\ Goto(p, "create")
    /\ Begin
    /\ UNCHANGED <<files, length, sound, core, isModelLoaded, native, report, broken>>

\* FileOutputStream creates the file, or truncates the one that another
\* injection created meanwhile: from then on the two write over each other.
CreateFile(p) ==
    /\ pc[p] = "create"
    /\ IF brain = NoFile
       THEN /\ files < MaxFiles
            /\ files' = files + 1
            /\ brain' = files'
            /\ \E good \in BOOLEAN : sound' = [sound EXCEPT ![files'] = good]
            /\ UNCHANGED length
       ELSE /\ sound' = [sound EXCEPT ![brain] = FALSE]
            /\ length' = [length EXCEPT ![brain] = 0]
            /\ UNCHANGED <<brain, files>>
    /\ my' = [my EXCEPT ![p].file = brain']
    /\ Goto(p, "write")
    /\ UNCHANGED <<core, isModelLoaded, native, report, overlap, broken>>

WriteChunk(p) ==
    /\ pc[p] = "write" /\ my[p].at < Full
    /\ my' = [my EXCEPT ![p].at = @ + 1]
    /\ LET f == my[p].file
       IN  length' = [length EXCEPT ![f] = IF @ > my[p].at THEN @ ELSE my[p].at + 1]
    /\ UNCHANGED <<brain, files, sound, core, isModelLoaded, native, pc, report,
                   overlap, broken>>

\* Neither the file can be created for certain, nor the stream be copied.
StreamFails(p) ==
    /\ pc[p] \in {"create", "write"}
    /\ report' = "stream error"
    /\ broken' = TRUE
    /\ Return(p)
    /\ UNCHANGED <<disk, core, isModelLoaded, native, overlap>>

\* Mutant: a core that is already loaded is not loaded again.
StreamEndsLoadingOnce(p) ==
    /\ pc[p] = "write" /\ my[p].at = Full
    /\ broken' = FALSE
    /\ Goto(p, IF isModelLoaded[my[p].core] THEN "mark" ELSE "open")
    /\ Forget(p)
    /\ UNCHANGED <<disk, core, isModelLoaded, native, report, overlap>>

StreamEnds(p) ==
    /\ pc[p] = "write" /\ my[p].at = Full
    /\ broken' = FALSE
    /\ Goto(p, "open")
    /\ Forget(p)
    /\ UNCHANGED <<disk, core, isModelLoaded, native, report, overlap>>
-----------------------------------------------------------------------------
(* loadModelFromJNI, called by both.                                       *)

\* file.good(): without a file the call returns and leaves `model' ...
OpenModel(p) ==
    /\ pc[p] = "open"
    /\ Goto(p, IF brain = NoFile THEN "mark" ELSE "load")
    /\ UNCHANGED <<disk, core, isModelLoaded, native, my, report, overlap, broken>>

\* ... the path is opened again, by llama.cpp, and may name another file by now,
\* or none ...
LoadFile(p) ==
    /\ pc[p] = "load"
    /\ my' = [my EXCEPT ![p].loaded = Loadable(brain)]
    /\ Goto(p, "assign")
    /\ UNCHANGED <<disk, core, isModelLoaded, native, report, overlap, broken>>

\* ... and the pointer is assigned when llama.cpp is done with it.
AssignModel(p) ==
    /\ pc[p] = "assign"
    /\ model' = my[p].loaded
    /\ Goto(p, "mark")
    /\ Forget(p)
    /\ UNCHANGED <<disk, core, isModelLoaded, contexts, report, overlap, broken>>

\* isModelLoaded = true, whatever the load returned; then an injection reports
\* and a generation goes on.
MarkLoaded(p) ==
    /\ pc[p] = "mark"
    /\ isModelLoaded' = [isModelLoaded EXCEPT ![my[p].core] = TRUE]
    /\ IF p \in Injectors
       THEN report' = "stabilized" /\ Return(p)
       ELSE Goto(p, "generate") /\ UNCHANGED <<report, my>>
    /\ UNCHANGED <<disk, core, native, overlap, broken>>
-----------------------------------------------------------------------------
(* generateResponse, for a prompt that is no reflex.                       *)

\* Without a core in RAM or on disk the answer is CORE NOT INJECTED, at once.
Generate(p) ==
    /\ pc[p] = "idle"
    /\ isModelLoaded[core] \/ Located
    /\ my' = [my EXCEPT ![p] = [Idle EXCEPT !.core = core]]
    /\ IF isModelLoaded[core] THEN Goto(p, "generate") /\ UNCHANGED overlap
                              ELSE Goto(p, "open") /\ Begin
    /\ UNCHANGED <<disk, core, isModelLoaded, native, report, broken>>

\* generateResponseFromJNI: the null test reads `model' ...
TestModel(p) ==
    /\ pc[p] = "generate"
    /\ IF model = NoFile THEN Return(p) ELSE Goto(p, "context") /\ UNCHANGED my
    /\ UNCHANGED <<disk, core, isModelLoaded, native, report, overlap, broken>>

\* ... the context reads it again, and is tested: llama.cpp makes none for a null
\* model, and may fail to make one for any ...
NewContext(p) ==
    /\ pc[p] = "context"
    /\ \/ Return(p) /\ UNCHANGED contexts
       \/ /\ model # NoFile
          /\ contexts' = contexts + 1
          /\ Goto(p, "vocab")
          /\ UNCHANGED my
    /\ UNCHANGED <<disk, core, isModelLoaded, model, report, overlap, broken>>

\* ... and the vocabulary reads it a third time, untested.
GetVocab(p) ==
    /\ pc[p] = "vocab" /\ model # NoFile
    /\ Goto(p, "decode")
    /\ UNCHANGED <<disk, core, isModelLoaded, native, my, report, overlap, broken>>

\* Mutant: no cap.
DecodeForever(p) ==
    /\ pc[p] = "decode"
    /\ my' = [my EXCEPT ![p].tokens = IF @ < Cap THEN @ + 1 ELSE 0]
    /\ UNCHANGED <<disk, core, isModelLoaded, native, pc, report, overlap, broken>>

\* One turn of the loop that goes on: neither the end of the text, a bracket
\* nor a failed decode.
Decode(p) ==
    /\ pc[p] = "decode" /\ my[p].tokens < Cap
    /\ my' = [my EXCEPT ![p].tokens = @ + 1]
    /\ UNCHANGED <<disk, core, isModelLoaded, native, pc, report, overlap, broken>>

\* Mutant: the context is not freed.
FinishWithoutFree(p) ==
    /\ pc[p] = "decode"
    /\ Return(p)
    /\ UNCHANGED <<disk, core, isModelLoaded, native, report, overlap, broken>>

\* Any of the breaks, or the cap.
Finish(p) ==
    /\ pc[p] = "decode"
    /\ contexts' = contexts - 1
    /\ Return(p)
    /\ UNCHANGED <<disk, core, isModelLoaded, model, report, overlap, broken>>
-----------------------------------------------------------------------------
(* The activity and the process.                                           *)

\* A new activity has a new LocalAICore; the native model and the blocked IO
\* threads of the old one live on.
Recreate ==
    /\ core < MaxCores
    /\ core' = core + 1
    /\ UNCHANGED <<disk, isModelLoaded, native, pc, my, report, overlap, broken>>

\* The process dies and starts again; the disk stays.
Restart ==
    /\ core' = 1
    /\ isModelLoaded' = [c \in Cores |-> FALSE]
    /\ model' = NoFile /\ contexts' = 0
    /\ pc' = [p \in Procs |-> "idle"]
    /\ my' = [p \in Procs |-> Idle]
    /\ report' = "none"
    /\ overlap' = FALSE
    /\ broken' = (broken \/ \E p \in Injectors : Busy(p))
    /\ UNCHANGED disk

\* The vocabulary of a null model: the process dies of it.
NullVocab(p) ==
    /\ pc[p] = "vocab" /\ model = NoFile
    /\ Restart

InjectorStep(p) ==
    Inject(p) \/ CreateFile(p) \/ WriteChunk(p) \/ StreamFails(p) \/ StreamEnds(p)

LoadStep(p) == OpenModel(p) \/ LoadFile(p) \/ AssignModel(p) \/ MarkLoaded(p)

EngineStep(p) ==
    TestModel(p) \/ NewContext(p) \/ GetVocab(p) \/ NullVocab(p) \/
    Decode(p) \/ Finish(p)

NNext ==
    \/ \E p \in Injectors : InjectorStep(p) \/ LoadStep(p)
    \/ \E p \in Generators : Generate(p) \/ LoadStep(p) \/ EngineStep(p)
    \/ Recreate
    \/ Restart

NSpec == NInit /\ [][NNext]_nvars

\* The threads of generations run.
NFairSpec ==
    /\ NSpec
    /\ \A p \in Generators : WF_nvars(LoadStep(p)) /\ WF_nvars(EngineStep(p))
-----------------------------------------------------------------------------
(* Properties.                                                             *)

\* The values the variables may have.
NTypeOK ==
    /\ brain \in Files \union {NoFile} /\ files \in 0..MaxFiles
    /\ length \in [Files -> 0..Full] /\ sound \in [Files -> BOOLEAN]
    /\ core \in Cores /\ isModelLoaded \in [Cores -> BOOLEAN]
    /\ model \in Files \union {NoFile} /\ contexts \in 0..Cardinality(Generators)
    /\ pc \in [Procs -> {"idle", "generate", "context"} \union Injecting \union InEngine]
    /\ my \in [Procs -> [core : Cores, file : Files \union {NoFile}, at : 0..Full,
                         loaded : Files \union {NoFile}, tokens : 0..Cap]]
    /\ report \in {"none", "stabilized", "stream error"}
    /\ overlap \in BOOLEAN /\ broken \in BOOLEAN

Quiet == \A p \in Procs : ~Busy(p)

\* Where injections and loads did not overlap and no stream broke, the model in
\* RAM is the file on disk: through new activities, replaced cores and process
\* deaths, a core that calls itself loaded answers with what was injected last
\* (LocalAICore.kt:38, 55).
InRamIsOnDisk ==
    ~overlap /\ ~broken /\ Quiet /\ isModelLoaded[core] => model = Loadable(brain)

\* Every context that was made is freed by the generation that made it, whatever
\* injections do to the model meanwhile (native-lib.cpp:102).
ContextsAreFreed == contexts = Cardinality({p \in Generators : pc[p] \in InEngine})

\* Every generation ends: KILL-SWITCH 1 (native-lib.cpp:67) bounds the loop even
\* for a model that never says the end nor a bracket.
GenerationEnds == \A p \in Generators : pc[p] # "idle" ~> pc[p] = "idle"
=============================================================================
