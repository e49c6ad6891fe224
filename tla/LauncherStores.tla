--------------------------- MODULE LauncherStores ---------------------------
(***************************************************************************)
(* The two stores MainActivity opens in onCreate, over the lives of the    *)
(* process: the routes of IntentVault and the model of AcousticShield.     *)
(***************************************************************************)
EXTENDS IntentVault, AcousticShield

VARIABLE open           \* there is an activity

lvars == <<ivars, avars, open>>

LInit == IInit /\ AInit /\ open = FALSE

\* onCreate, of a first activity or of one that takes the place of another.
OnCreate ==
  /\ vault # "saving"
  /\ AutoLoad /\ LoadVault /\ open' = TRUE

Die == open /\ VaultDies /\ ShieldDies /\ open' = FALSE

LNext ==
  \/ OnCreate \/ Die
  \/ open /\ ShieldStep /\ UNCHANGED <<ivars, open>>
  \/ open /\ VaultStep /\ UNCHANGED <<avars, open>>

LSpec == LInit /\ [][LNext]_lvars
-----------------------------------------------------------------------------
\* The types of both stores; a shield is armed exactly when it has a model
\* (AcousticShield.kt:64).
LTypeOK ==
  /\ VaultTypeOK /\ open \in BOOLEAN
  /\ modelDir \in [Roots \X Parts -> {"none", "part", "full"}]
  /\ isArmed \in BOOLEAN /\ isArmed = voskModel
  /\ good \in BOOLEAN /\ rearm \in BOOLEAN
=============================================================================
