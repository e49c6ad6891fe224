---------------------------- MODULE IntentVault ----------------------------
(***************************************************************************)
(* The vault of routes that 'teleport' jumps to.  The routes live in a map *)
(* of the vault object; every change rewrites the file intent_vault.json   *)
(* in place, and a file that does not parse is deleted when it is loaded.  *)
(* All calls come from the main thread; the process may die between any    *)
(* two steps, the truncation and the writing of the file included.         *)
(*                                                                         *)
(* A route is the sequence of its fields between bars: "p | c" is          *)
(* <<p, c>>, and a string without a bar is one field.                      *)
(***************************************************************************)
EXTENDS Naturals, Sequences, FiniteSets

CONSTANTS Names,        \* names of routes, after lowercase() and trim()
          Routes,       \* what a user may lock
          SeedRoutes,   \* the three routes of loadVault, [Names -> route or NoRoute]
          Packages      \* external: packages the package manager can launch

NoRoute == << >>
Maps    == [Names -> Routes \union {SeedRoutes[n] : n \in Names} \union {NoRoute}]
Empty   == [n \in Names |-> NoRoute]

ASSUME RouteAssumption == NoRoute \notin Routes
ASSUME SeedAssumption  == SeedRoutes = [n \in Names |-> SeedRoutes[n]]

Absent  == [is |-> "absent", map |-> Empty]
Torn    == [is |-> "torn", map |-> Empty]
Json(m) == [is |-> "json", map |-> m]

VARIABLES
  vaultFile,    \* what is on disk: no file, a torn one or a map
  matrix,       \* the map in RAM
  vault,        \* "none", "ready" or "saving" (the file is truncated)
  answer,       \* what the last teleport said, if it was the last call
  kept          \* history: the routes locked, of which no death hit the writing

ivars == <<vaultFile, matrix, vault, answer, kept>>

Silent == [name |-> "none", said |-> "nothing"]

IInit ==
  /\ vaultFile = Absent /\ matrix = Empty /\ vault = "none"
  /\ answer = Silent /\ kept = Empty

\* saveVault: the file is truncated now and written by the next step.
SaveVault(m) == matrix' = m /\ vaultFile' = Torn /\ vault' = "saving"

WriteText ==
  /\ vault = "saving"
  /\ vaultFile' = Json(matrix) /\ vault' = "ready"
  /\ UNCHANGED <<matrix, answer, kept>>

\* Mutant: a file that does not parse is left where it is.
LoadVaultLeaves ==
  /\ \/ vaultFile = Absent /\ SaveVault(SeedRoutes)
     \/ vaultFile = Torn /\ matrix' = Empty /\ vault' = "ready" /\ UNCHANGED vaultFile
     \/ vaultFile.is = "json" /\ matrix' = vaultFile.map /\ vault' = "ready" /\ UNCHANGED vaultFile
  /\ answer' = Silent /\ UNCHANGED kept

\* loadVault, of a new vault object.
LoadVault ==
  /\ \/ vaultFile = Absent /\ SaveVault(SeedRoutes)
     \/ vaultFile = Torn /\ matrix' = Empty /\ vault' = "ready" /\ vaultFile' = Absent
     \/ vaultFile.is = "json" /\ matrix' = vaultFile.map /\ vault' = "ready" /\ UNCHANGED vaultFile
  /\ answer' = Silent /\ UNCHANGED kept

\* Mutant: the route is kept in RAM only.
LockRouteInRam(n, r) ==
  /\ vault = "ready"
  /\ matrix' = [matrix EXCEPT ![n] = r]
  /\ kept' = [kept EXCEPT ![n] = r] /\ answer' = Silent
  /\ UNCHANGED <<vaultFile, vault>>

LockRoute(n, r) ==
  /\ vault = "ready"
  /\ SaveVault([matrix EXCEPT ![n] = r])
  /\ kept' = [kept EXCEPT ![n] = r] /\ answer' = Silent

\* What teleport can say of a route.  Android may refuse the jump.
Said(r) ==
  IF r = NoRoute THEN {"not found"}
  ELSE IF Len(r) > 1 THEN {"jump", "blocked"}
  ELSE IF r[1] \in Packages THEN {"launch", "blocked"} ELSE {"no package"}

Teleport(n) ==
  /\ vault = "ready"
  /\ \E said \in Said(matrix[n]) : answer' = [name |-> n, said |-> said]
  /\ UNCHANGED <<vaultFile, matrix, vault, kept>>

VaultDies ==
  /\ matrix' = Empty /\ vault' = "none" /\ answer' = Silent
  /\ kept' = IF vault = "saving" THEN Empty ELSE kept
  /\ UNCHANGED vaultFile

VaultStep ==
  \/ WriteText
  \/ \E n \in Names : Teleport(n) \/ \E r \in Routes : LockRoute(n, r)
-----------------------------------------------------------------------------
(* Properties.                                                             *)

\* File and map have their types.
VaultTypeOK ==
  /\ vaultFile \in {Absent, Torn} \union [is : {"json"}, map : Maps]
  /\ matrix \in Maps /\ kept \in Maps /\ vault \in {"none", "ready", "saving"}
  /\ answer = Silent \/ answer \in [name : Names,
       said : {"not found", "jump", "launch", "blocked", "no package"}]

\* Between two calls the file says what the map says, or there is neither: after
\* a death that left a torn file too (IntentVault.kt:33).
VaultMatchesFile ==
  vault = "ready" => vaultFile = Json(matrix) \/ (vaultFile = Absent /\ matrix = Empty)

\* A route that was locked is tried by teleport in every later life of the
\* process, the deaths apart that hit the writing of the file.
LockedRouteIsTried ==
  answer.said = "not found" => kept[answer.name] = NoRoute
=============================================================================
