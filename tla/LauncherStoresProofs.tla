------------------------ MODULE LauncherStoresProofs ------------------------
(***************************************************************************)
(* Proofs about the two stores, for any names, routes, seeds and archives, *)
(* and any number of injections at a time.                                 *)
(*                                                                         *)
(* That a route is still known after a death needs to say where it is all  *)
(* the time: in the map while there is one, in the file while there is     *)
(* none.  KeptInv says so.  That a model is loaded again rests on GoodInv: *)
(* after a good injection nobody is writing and the directory is loadable. *)
(***************************************************************************)
EXTENDS LauncherStores, TLAPS

\* The routes that were locked are in the map, or in the file if the process is
\* dead; a file that is being written is torn.
KeptInv ==
  /\ vault \in {"ready", "saving"} => \A n \in Names : kept[n] # NoRoute => matrix[n] # NoRoute
  /\ vault = "none" => \A n \in Names : kept[n] # NoRoute => vaultFile.map[n] # NoRoute
  /\ vault = "saving" => vaultFile = Torn

VaultInv == VaultTypeOK /\ VaultMatchesFile /\ LockedRouteIsTried /\ KeptInv

\* The coroutines of the picker are at one of their statements.
InjectionTypeOK ==
  injection \in [Injections -> [pc : {"idle", "extract"} \union Parts, at : Roots,
                                todo : SUBSET Parts, mine : BOOLEAN,
                                file : {"none", "own", "shared", "deleted"}]]

\* After a good injection nobody touches the model, which can be loaded.
GoodInv ==
  good => /\ \A i \in Injections : injection[i].pc = "idle"
          /\ Loadable(modelDir, ModelRoot(modelDir))

ShieldTypeOK ==
  /\ modelDir \in [Roots \X Parts -> {"none", "part", "full"}]
  /\ isArmed \in BOOLEAN /\ isArmed = voskModel
  /\ good \in BOOLEAN /\ rearm \in BOOLEAN

ShieldInv == ShieldTypeOK /\ InjectionTypeOK /\ GoodInv /\ GoodModelRearms

StoresInv == VaultInv /\ ShieldInv /\ open \in BOOLEAN

-----------------------------------------------------------------------------
(* The vault.                                                              *)

\* No file, a torn file and a map are three different things.
LEMMA KindsDiffer ==
  /\ Absent.is = "absent" /\ Absent.map = Empty
  /\ Torn.is = "torn" /\ Torn.map = Empty
  /\ \A m : Json(m).is = "json" /\ Json(m).map = m
  BY DEF Absent, Torn, Json

\* The first process finds no file and knows no route.
LEMMA VaultInit == IInit => VaultInv
<1> SUFFICES ASSUME IInit PROVE VaultInv
  OBVIOUS
<1>1. Empty \in Maps
  BY DEF Empty, Maps
<1> QED
  BY <1>1 DEF IInit, VaultInv, VaultTypeOK, VaultMatchesFile, LockedRouteIsTried, KeptInv,
              Silent, Absent, Empty

\* Each step of the vault, and its absence, keeps the vault's invariant.
LEMMA VaultStepInv == VaultInv /\ (VaultStep \/ UNCHANGED ivars) => VaultInv'
<1> SUFFICES ASSUME VaultInv, VaultStep \/ UNCHANGED ivars PROVE VaultInv'
  OBVIOUS
<1> USE DEF VaultInv, VaultTypeOK, VaultMatchesFile, LockedRouteIsTried, KeptInv
<1>1. CASE WriteText
  BY <1>1 DEF WriteText, Json, Torn, Absent
<1>2. ASSUME NEW n \in Names, NEW r \in Routes, LockRoute(n, r) PROVE VaultInv'
  <2>1. matrix' \in Maps /\ kept' \in Maps
    BY <1>2 DEF LockRoute, SaveVault, Maps
  <2> QED
    BY <1>2, <2>1, RouteAssumption DEF LockRoute, SaveVault, Silent, Maps
<1>3. ASSUME NEW n \in Names, Teleport(n) PROVE VaultInv'
  <2>1. PICK said \in Said(matrix[n]) : answer' = [name |-> n, said |-> said]
    BY <1>3 DEF Teleport
  <2>2. said \in {"not found", "jump", "launch", "blocked", "no package"}
    BY <2>1 DEF Said
  <2>3. said = "not found" => matrix[n] = NoRoute
    BY <2>1 DEF Said
  <2>4. VaultTypeOK'
    BY <1>3, <2>1, <2>2 DEF Teleport
  <2>5. LockedRouteIsTried'
    BY <1>3, <2>1, <2>3 DEF Teleport
  <2> QED
    BY <1>3, <2>4, <2>5 DEF Teleport
<1>4. CASE UNCHANGED ivars
  BY <1>4 DEF ivars
<1> QED
  BY <1>1, <1>2, <1>3, <1>4 DEF VaultStep

\* A new vault object finds every route that was locked.
LEMMA LoadVaultInv == VaultInv /\ vault # "saving" /\ LoadVault => VaultInv'
<1> SUFFICES ASSUME VaultInv, vault # "saving", LoadVault PROVE VaultInv'
  OBVIOUS
<1> USE DEF VaultInv, VaultTypeOK, VaultMatchesFile, LockedRouteIsTried, KeptInv
<1>0. Empty \in Maps /\ SeedRoutes \in Maps
  <2>1. Empty \in Maps
    BY DEF Maps, Empty
  <2>2. \A n \in Names : SeedRoutes[n] \in Routes \union {SeedRoutes[m] : m \in Names} \union {NoRoute}
    OBVIOUS
  <2>3. [n \in Names |-> SeedRoutes[n]] \in Maps
    BY <2>2 DEF Maps
  <2> QED
    BY <2>1, <2>3, SeedAssumption
<1>1. \A n \in Names : Empty[n] = NoRoute
  BY DEF Empty
<1>2. CASE vaultFile = Absent /\ SaveVault(SeedRoutes)
  <2>1. \A n \in Names : kept[n] = NoRoute
    BY <1>1, <1>2 DEF Absent, Json
  <2> QED
    BY <1>0, <1>2, <2>1 DEF LoadVault, SaveVault, Silent
<1>3. CASE vaultFile = Torn /\ matrix' = Empty /\ vault' = "ready" /\ vaultFile' = Absent
  <2>1. \A n \in Names : kept[n] = NoRoute
    BY <1>1, <1>3 DEF Absent, Torn, Json
  <2> QED
    BY <1>0, <1>3, <2>1 DEF LoadVault, Silent
<1>4. CASE vaultFile.is = "json" /\ matrix' = vaultFile.map /\ vault' = "ready" /\ UNCHANGED vaultFile
  <2>1. vaultFile = Json(matrix')
    BY <1>4 DEF Absent, Torn, Json
  <2>2. matrix' \in Maps
    <3>1. vaultFile \in [is : {"json"}, map : Maps]
      BY <1>4, KindsDiffer
    <3> QED
      BY <1>4, <3>1
  <2>3. \A n \in Names : kept[n] # NoRoute => matrix'[n] # NoRoute
    <3>1. CASE vault = "none"
      BY <1>4, <3>1
    <3>2. CASE vault = "ready"
      <4>1. vaultFile = Json(matrix)
        BY <1>4, <3>2, KindsDiffer
      <4>2. matrix' = matrix
        BY <1>4, <4>1 DEF Json
      <4> QED
        BY <3>2, <4>2
    <3> QED
      BY <3>1, <3>2
  <2> QED
    BY <1>4, <2>1, <2>2, <2>3 DEF LoadVault, Silent
<1> QED
  BY <1>2, <1>3, <1>4 DEF LoadVault

\* A death leaves the routes in the file, unless it hit the writing.
LEMMA VaultDiesInv == VaultInv /\ VaultDies => VaultInv'
<1> SUFFICES ASSUME VaultInv, VaultDies PROVE VaultInv'
  OBVIOUS
<1> USE DEF VaultInv, VaultTypeOK, VaultMatchesFile, LockedRouteIsTried, KeptInv
<1>0. Empty \in Maps
  BY DEF Maps, Empty
<1>1. \A n \in Names : Empty[n] = NoRoute
  BY DEF Empty
<1>2. \A n \in Names : kept'[n] # NoRoute => vaultFile'.map[n] # NoRoute
  <2>1. CASE vault = "saving"
    BY <1>1, <2>1 DEF VaultDies
  <2>2. CASE vault = "none"
    BY <2>2 DEF VaultDies
  <2>3. CASE vault = "ready"
    <3>1. vaultFile.map = matrix
      BY <2>3, KindsDiffer
    <3>2. kept' = kept /\ vaultFile' = vaultFile
      BY <2>3 DEF VaultDies
    <3> QED
      BY <2>3, <3>1, <3>2
  <2> QED
    BY <2>1, <2>2, <2>3
<1> QED
  BY <1>0, <1>2 DEF VaultDies, Silent

-----------------------------------------------------------------------------
(* The store of the acoustic model.                                        *)

\* At first there is no model and nobody injects one.
LEMMA ShieldInit == AInit => ShieldInv
<1> SUFFICES ASSUME AInit PROVE ShieldInv
  OBVIOUS
<1>1. InjectionTypeOK
  BY DEF AInit, InjectionTypeOK, NoInjection, Roots
<1>2. ShieldTypeOK
  BY DEF AInit, ShieldTypeOK, NoFiles
<1> QED
  BY <1>1, <1>2 DEF AInit, ShieldInv, GoodInv, GoodModelRearms

\* Each step of an injection, and its absence, keeps the shield's invariant.
LEMMA ShieldStepInv == ShieldInv /\ (ShieldStep \/ UNCHANGED avars) => ShieldInv'
<1> SUFFICES ASSUME ShieldInv, ShieldStep \/ UNCHANGED avars PROVE ShieldInv'
  OBVIOUS
<1> USE DEF ShieldInv, ShieldTypeOK, InjectionTypeOK, GoodInv, GoodModelRearms
<1>1. ASSUME NEW i \in Injections, NEW z \in Archives, BeginInjection(i, z) PROVE ShieldInv'
  <2>1. z \in [at : Roots, parts : SUBSET Parts]
    BY ArchiveAssumption
  <2>2. InjectionTypeOK'
    BY <1>1, <2>1 DEF BeginInjection, DeleteAndExtract, Extracting
  <2>3. modelDir' \in [Roots \X Parts -> {"none", "part", "full"}]
    BY <1>1 DEF BeginInjection, NoFiles
  <2> QED
    BY <1>1, <2>2, <2>3 DEF BeginInjection
<1>2. ASSUME NEW i \in Injections, NEW p \in Parts, OpenEntry(i, p) PROVE ShieldInv'
  <2>1. ~good
    BY <1>2 DEF OpenEntry
  <2>2. InjectionTypeOK'
    <3> DEFINE others == Writers(injection[i].at, p)
               Opened == [injection[i] EXCEPT !.pc = p, !.todo = @ \ {p},
                            !.file = IF others = {} THEN "own" ELSE "shared"]
               Turned(j) == IF j = i THEN Opened
                            ELSE IF j \in others THEN [injection[j] EXCEPT !.file = "shared"]
                            ELSE injection[j]
    <3>1. injection' = [j \in Injections |-> Turned(j)]
      BY <1>2 DEF OpenEntry
    <3> HIDE DEF others
    <3>2. \A j \in Injections : Turned(j) \in
            [pc : {"idle", "extract"} \union Parts, at : Roots, todo : SUBSET Parts,
             mine : BOOLEAN, file : {"none", "own", "shared", "deleted"}]
      OBVIOUS
    <3> HIDE DEF Turned
    <3> QED
      BY <3>1, <3>2
  <2>3. modelDir' \in [Roots \X Parts -> {"none", "part", "full"}]
    BY <1>2 DEF OpenEntry
  <2> QED
    BY <1>2, <2>1, <2>2, <2>3 DEF OpenEntry
<1>3. ASSUME NEW i \in Injections, NEW p \in Parts, CloseEntry(i, p) PROVE ShieldInv'
  <2>1. ~good
    BY <1>3 DEF CloseEntry, Parts
  <2>2. InjectionTypeOK'
    BY <1>3 DEF CloseEntry
  <2>3. modelDir' \in [Roots \X Parts -> {"none", "part", "full"}]
    BY <1>3 DEF CloseEntry
  <2> QED
    BY <1>3, <2>1, <2>2, <2>3 DEF CloseEntry
<1>4. ASSUME NEW i \in Injections, EndInjection(i) PROVE ShieldInv'
  <2>1. InjectionTypeOK'
    BY <1>4 DEF EndInjection, NoInjection, Roots
  <2>2. GoodInv'
    BY <1>4 DEF EndInjection, Alone, NoInjection
  <2>3. good' \in BOOLEAN
    BY <1>4 DEF EndInjection, Alone
  <2> QED
    BY <1>4, <2>1, <2>2, <2>3 DEF EndInjection
<1>5. ASSUME NEW i \in Injections, InjectionFails(i) PROVE ShieldInv'
  <2>1. InjectionTypeOK'
    BY <1>5 DEF InjectionFails, NoInjection, Roots
  <2> QED
    BY <1>5, <2>1 DEF InjectionFails, NoInjection
<1>6. CASE UNCHANGED avars
  BY <1>6 DEF avars
<1> QED
  BY <1>1, <1>2, <1>3, <1>4, <1>5, <1>6 DEF ShieldStep

\* A new activity loads the model of a good injection.
LEMMA AutoLoadInv == ShieldInv /\ AutoLoad => ShieldInv'
<1> SUFFICES ASSUME ShieldInv, AutoLoad PROVE ShieldInv'
  OBVIOUS
<1> USE DEF ShieldInv, ShieldTypeOK, InjectionTypeOK, GoodInv, GoodModelRearms
<1>1. InjectionTypeOK'
  BY DEF AutoLoad
<1>2. GoodInv'
  BY DEF AutoLoad
<1>3. GoodModelRearms'
  BY DEF AutoLoad, Loadable, Parts
<1>4. ShieldTypeOK'
  BY DEF AutoLoad, Loadable
<1> QED
  BY <1>1, <1>2, <1>3, <1>4

\* A death ends every injection and leaves the files.
LEMMA ShieldDiesInv == ShieldInv /\ ShieldDies => ShieldInv'
<1> SUFFICES ASSUME ShieldInv, ShieldDies PROVE ShieldInv'
  OBVIOUS
<1>1. InjectionTypeOK'
  BY DEF ShieldDies, InjectionTypeOK, NoInjection, Roots
<1>2. GoodInv'
  BY DEF ShieldDies, ShieldInv, GoodInv, NoInjection
<1> QED
  BY <1>1, <1>2 DEF ShieldDies, ShieldInv, ShieldTypeOK, GoodModelRearms

-----------------------------------------------------------------------------
(* Both together.                                                          *)

\* Every step of the launcher keeps the invariant of both stores.
LEMMA NextStoresInv == StoresInv /\ [LNext]_lvars => StoresInv'
<1> SUFFICES ASSUME StoresInv, [LNext]_lvars PROVE StoresInv'
  OBVIOUS
<1> USE DEF StoresInv
<1>1. CASE OnCreate
  BY <1>1, LoadVaultInv, AutoLoadInv DEF OnCreate
<1>2. CASE Die
  BY <1>2, VaultDiesInv, ShieldDiesInv DEF Die
<1>3. CASE open /\ ShieldStep /\ UNCHANGED <<ivars, open>>
  BY <1>3, ShieldStepInv, VaultStepInv
<1>4. CASE open /\ VaultStep /\ UNCHANGED <<avars, open>>
  BY <1>4, ShieldStepInv, VaultStepInv
<1>5. CASE UNCHANGED lvars
  BY <1>5, ShieldStepInv, VaultStepInv DEF lvars
<1> QED
  BY <1>1, <1>2, <1>3, <1>4, <1>5 DEF LNext

\* The inductive invariant of both stores holds in every reachable state.
THEOREM StoresInvariant == LSpec => []StoresInv
<1>1. LInit => StoresInv
  BY VaultInit, ShieldInit DEF LInit, StoresInv
<1> QED
  BY <1>1, NextStoresInv, PTL DEF LSpec

\* Type correctness of both stores; the shield is armed exactly with a model.
THEOREM StoresTypeCorrect == LSpec => []LTypeOK
<1>1. StoresInv => LTypeOK
  BY DEF StoresInv, VaultInv, ShieldInv, ShieldTypeOK, LTypeOK
<1> QED
  BY <1>1, StoresInvariant, PTL

\* Between two calls file and map agree, whatever deaths came before.
THEOREM VaultCorrect == LSpec => []VaultMatchesFile
<1>1. StoresInv => VaultMatchesFile
  BY DEF StoresInv, VaultInv
<1> QED
  BY <1>1, StoresInvariant, PTL

\* No locked route is ever unknown, deaths during a write apart.
THEOREM RouteCorrect == LSpec => []LockedRouteIsTried
<1>1. StoresInv => LockedRouteIsTried
  BY DEF StoresInv, VaultInv
<1> QED
  BY <1>1, StoresInvariant, PTL

\* A well injected model is armed again by every later activity.
THEOREM RearmCorrect == LSpec => []GoodModelRearms
<1>1. StoresInv => GoodModelRearms
  BY DEF StoresInv, ShieldInv
<1> QED
  BY <1>1, StoresInvariant, PTL
=============================================================================
