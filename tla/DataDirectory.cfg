\* Exports: one request of up to two files, one crash.  Backups: one request
\* at a time on two files, pipes of one piece, one write, one crash.
CONSTANTS
    Requests = {1}
    MaxFiles = 2
    MaxExportCrashes = 1
    Names = {"a", "b"}
    Uploads <- MCUploads
    Ops = {"o"}
    Build = 1
    Chunks = 2
    PipeSize = 1
    MaxWrites = 1
    MaxCrashes = 1
    WritesMidRestore = TRUE
SPECIFICATION DataSpec
INVARIANTS NothingHalfDone AllOrNothing
PROPERTIES OldExportsExpire RestoreSettles SchemaFitsBuild
CHECK_DEADLOCK FALSE
