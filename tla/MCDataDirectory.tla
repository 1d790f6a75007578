---------------------------- MODULE MCDataDirectory ----------------------------
(***************************************************************************)
(* The files the API makes in the data directory: exports and backups.     *)
(* Each has a subdirectory and rows of its own and no step of one reads or *)
(* writes what the other does, so a behaviour is about one of them (its    *)
(* "part") while the other rests in its initial state: nothing of it that  *)
(* fairness speaks of is enabled there.                                    *)
(***************************************************************************)
EXTENDS MCBackupRestore, ExportJobs

VARIABLE part

dataVars == <<exportVars, backupVars, part>>

DataInit ==
    /\ part \in {"exports", "backups"}
    /\ ExportInit /\ BackupInit

DataNext ==
    \/ part = "exports" /\ ExportNext /\ UNCHANGED <<backupVars, part>>
    \/ part = "backups" /\ BackupNext /\ UNCHANGED <<exportVars, part>>

DataSpec ==
    /\ DataInit /\ [][DataNext]_dataVars
    /\ WF_exportVars(Sweeps)
    /\ \A o \in Ops : WF_backupVars(Pipe(o))

=============================================================================
