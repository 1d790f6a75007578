---------------------------- MODULE MCBackupRestore ----------------------------
(***************************************************************************)
(* BackupRestore with uploads of four kinds: from before the last          *)
(* migration, from before the bookkeeping was dumped, one cut short behind *)
(* its table of contents, one of a whole database.                         *)
(***************************************************************************)
EXTENDS BackupRestore

Older == [from |-> "import", readable |-> TRUE, whole |-> TRUE, foreign |-> FALSE,
          drizzle |-> TRUE, rows |-> {}, schema |-> 0, level |-> 0]

MCUploads == {Older, [Older EXCEPT !.drizzle = FALSE], [Older EXCEPT !.whole = FALSE],
              [Older EXCEPT !.foreign = TRUE]}

=============================================================================
