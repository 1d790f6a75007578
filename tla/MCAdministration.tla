--------------------------- MODULE MCAdministration ---------------------------
(***************************************************************************)
(* What administrators do, in two parts: the settings of the LLMs          *)
(* (AdminSettings) and the accounts and sessions (Access).  Neither reads  *)
(* what the other writes, so a behaviour is about one part while the other *)
(* rests as the installation begins.                                       *)
(***************************************************************************)
EXTENDS MCAdminSettings, Access

VARIABLE part

administrationVars == <<settingsVars, accessVars, part>>

AdministrationInit == part \in {"settings", "accounts"} /\ SettingsInit /\ AccessInit

AdministrationNext ==
    \/ part = "settings" /\ SettingsNext /\ UNCHANGED <<accessVars, part>>
    \/ part = "accounts" /\ AccessNext /\ UNCHANGED <<settingsVars, part>>

AdministrationSpec ==
    /\ AdministrationInit /\ [][AdministrationNext]_administrationVars
    /\ part = "settings" => Fairness
===============================================================================
