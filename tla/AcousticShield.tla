--------------------------- MODULE AcousticShield ---------------------------
(***************************************************************************)
(* The store of the acoustic model: 'inject vosk' deletes the directory    *)
(* vosk_model, extracts an archive into it file by file on an IO thread    *)
(* and loads the model from wherever in it the model is; a new activity    *)
(* loads what it finds there.  An injection may fail at any point, be      *)
(* joined by a second one, outlive its activity or die with the process.   *)
(*                                                                         *)
(* The directories "am" and "conf" stand for the files of a model; an      *)
(* archive holds them at its top or in one folder.                         *)
(***************************************************************************)
EXTENDS Naturals, FiniteSets

CONSTANTS Archives,     \* [at : Roots, parts : SUBSET Parts]
          Injections    \* bound: injections under way at the same time

Roots == {"top", "folder"}
Parts == {"am", "conf"}

ASSUME ArchiveAssumption == Archives \subseteq [at : Roots, parts : SUBSET Parts]

VARIABLES
  modelDir,     \* [Roots \X Parts -> "none", "part" or "full"]
  isArmed,      \* of the shield of the live activity
  voskModel,    \* a model is loaded
  injection,    \* the coroutines of voskPickerLauncher
  good,         \* history: the last injection was alone and succeeded
  rearm         \* history: good, when the live activity was created

avars == <<modelDir, isArmed, voskModel, injection, good, rearm>>

NoFiles == [f \in Roots \X Parts |-> "none"]
NoInjection == [pc |-> "idle", at |-> "top", todo |-> {}, mine |-> FALSE, file |-> "none"]

AInit ==
  /\ modelDir = NoFiles /\ isArmed = FALSE /\ voskModel = FALSE
  /\ injection = [i \in Injections |-> NoInjection]
  /\ good = FALSE /\ rearm = FALSE

\* findModelRoot, or modelDir itself if there is none.
IsRoot(d, r) == \A p \in Parts : d[<<r, p>>] # "none"
ModelRoot(d) == IF IsRoot(d, "folder") /\ ~IsRoot(d, "top") THEN "folder" ELSE "top"

\* external: Model(path) throws unless all files are there and complete.
Loadable(d, r) == \A p \in Parts : d[<<r, p>>] = "full"

-----------------------------------------------------------------------------
(* injectModelZip.                                                         *)

Extracting(z) == [pc |-> "extract", at |-> z.at, todo |-> z.parts, mine |-> TRUE,
                  file |-> "none"]

\* The directory is deleted, with the files that others are writing into it: what
\* they write from then on is nobody's.
DeleteAndExtract(i, z) ==
  [j \in Injections |-> IF j = i THEN Extracting(z)
                        ELSE IF injection[j].pc \in Parts
                             THEN [injection[j] EXCEPT !.file = "deleted"] ELSE injection[j]]

\* Mutant: the shield is armed before the model is loaded.
BeginInjectionArms(i, z) ==
  /\ injection[i].pc = "idle"
  /\ injection' = DeleteAndExtract(i, z)
  /\ modelDir' = NoFiles /\ good' = FALSE /\ isArmed' = TRUE
  /\ UNCHANGED <<voskModel, rearm>>

BeginInjection(i, z) ==
  /\ injection[i].pc = "idle"
  /\ injection' = DeleteAndExtract(i, z)
  /\ modelDir' = NoFiles /\ good' = FALSE
  /\ UNCHANGED <<isArmed, voskModel, rearm>>

\* Those who have the file <<at, p>> open, as it is in the directory now.
Writers(at, p) ==
  {j \in Injections : injection[j].pc = p /\ injection[j].at = at /\ injection[j].file # "deleted"}

\* A file is opened, and written to its end.  Two that write the same file write
\* over each other.
OpenEntry(i, p) ==
  /\ injection[i].pc = "extract" /\ p \in injection[i].todo
  /\ modelDir' = [modelDir EXCEPT ![<<injection[i].at, p>>] = "part"]
  /\ LET others == Writers(injection[i].at, p)
     IN  injection' = [j \in Injections |->
           IF j = i THEN [injection[i] EXCEPT !.pc = p, !.todo = @ \ {p},
                                              !.file = IF others = {} THEN "own" ELSE "shared"]
           ELSE IF j \in others THEN [injection[j] EXCEPT !.file = "shared"] ELSE injection[j]]
  /\ UNCHANGED <<isArmed, voskModel, good, rearm>>

\* What two have written is whole if they were lucky.
CloseEntry(i, p) ==
  /\ injection[i].pc = p
  /\ \/ /\ injection[i].file \in {"own", "shared"}
        /\ modelDir' = [modelDir EXCEPT ![<<injection[i].at, p>>] = "full"]
     \/ injection[i].file \in {"shared", "deleted"} /\ UNCHANGED modelDir
  /\ injection' = [injection EXCEPT ![i].pc = "extract", ![i].file = "none"]
  /\ UNCHANGED <<isArmed, voskModel, good, rearm>>

Alone(i) == \A j \in Injections \ {i} : injection[j].pc = "idle"

\* The archive ends: the model is loaded.  If the activity was destroyed, the
\* shield that gets it is nobody's.
EndInjection(i) ==
  /\ injection[i].pc = "extract" /\ injection[i].todo = {}
  /\ Loadable(modelDir, ModelRoot(modelDir))
  /\ injection' = [injection EXCEPT ![i] = NoInjection]
  /\ IF injection[i].mine THEN isArmed' = TRUE /\ voskModel' = TRUE
     ELSE UNCHANGED <<isArmed, voskModel>>
  /\ good' = Alone(i)
  /\ UNCHANGED <<modelDir, rearm>>

\* The stream breaks, or what was extracted is not a model.
InjectionFails(i) ==
  /\ injection[i].pc # "idle"
  /\ injection' = [injection EXCEPT ![i] = NoInjection]
  /\ UNCHANGED <<modelDir, isArmed, voskModel, good, rearm>>

-----------------------------------------------------------------------------
\* Mutant: the model is only looked for at the top.
AutoLoadTop ==
  LET ok == modelDir[<<"top", "am">>] # "none" /\ Loadable(modelDir, "top")
  IN  /\ isArmed' = ok /\ voskModel' = ok
      /\ rearm' = good
      /\ injection' = [i \in Injections |-> [injection[i] EXCEPT !.mine = FALSE]]
      /\ UNCHANGED <<modelDir, good>>

\* A new shield: autoLoadExistingModel.
AutoLoad ==
  LET root == ModelRoot(modelDir)
      ok == modelDir[<<root, "am">>] # "none" /\ Loadable(modelDir, root)
  IN  /\ isArmed' = ok /\ voskModel' = ok
      /\ rearm' = good
      /\ injection' = [i \in Injections |-> [injection[i] EXCEPT !.mine = FALSE]]
      /\ UNCHANGED <<modelDir, good>>

ShieldDies ==
  /\ isArmed' = FALSE /\ voskModel' = FALSE /\ rearm' = FALSE
  /\ injection' = [i \in Injections |-> NoInjection]
  /\ UNCHANGED <<modelDir, good>>

ShieldStep ==
  \E i \in Injections :
    \/ \E z \in Archives : BeginInjection(i, z)
    \/ \E p \in Parts : OpenEntry(i, p) \/ CloseEntry(i, p)
    \/ EndInjection(i) \/ InjectionFails(i)

-----------------------------------------------------------------------------
(* Properties.                                                             *)

\* A model that was injected, and that no later injection has touched, is
\* loaded again in every later life of the process, however its archive was
\* packed (AcousticShield.kt:84).
GoodModelRearms == rearm => isArmed
=============================================================================
