\* The gate: one operator, one request at a time, edits of a statement in review.
\* The tab: two rows, two requests, three clicks or keystrokes, one act of
\* somebody else.
CONSTANTS
    Readings <- MCReadings
    Patches <- MCPatches
    Inserts <- MCInserts
    Kinds = {"patch", "bulk", "insert", "remove", "recompute", "override", "acknowledge", "export", "reextract"}
    MaxRequests = 4
    MaxRows = 5
    Overlap = FALSE
    EditAnytime = FALSE
    Txs = {t1, t2}
    None = None
    Vals = {0, 1}
    Extracted <- OneRow
    Filters = {1}
    ClientKinds = {"row", "cell", "bulk", "delete"}
    MaxCalls = 2
    MaxTyped = 3
    MaxOthers = 1
SPECIFICATION ReviewSpec
SYMMETRY RowSymmetry
INVARIANTS VerdictsHold ExportTies OwnEditsShown SelectionTracksDeletes
PROPERTIES OverrideSticks EditorIsFaithful
CHECK_DEADLOCK FALSE
