\* A PDF of two accounts, three statements and four days in two months, uploads
\* beside one another, one accident; two OCR runs over three pages; attempts at
\* answers of up to three rows; two passes over two rows, one edit and one change
\* of the admin beside them, a cap of one call.  Requests, runs and passes go by the
\* same two names.
CONSTANTS
    Owners = {1, 2}
    MaxStatements = 3
    MaxDay = 4
    MonthDays = 2
    Window = 1
    MaxAccidents = 1
    Slots = {a, b}
    Mingle = {"upload"}
    SplitPurged = FALSE
    Scans = {a, b}
    PdfPages = 3
    Ranges = {{1, 2, 3}, {1, 2}}
    Glms = {g1, g2}
    Accounts = {x, y}
    PageCap = 2
    PageTries = 2
    Threshold = 2
    CacheMax = 2
    Budget = 1
    MaxStarts = 2
    MaxCrashes = 1
    Answers <- MCAnswers
    Rereads <- MCRereads
    PageAnswers <- MCPageAnswers
    Pages = 2
    Tries = 2
    Texts = {"in", "out", "marker"}
    Year = 10
    ClaudeModels <- MCClaude
    OllamaTags <- MCTags
    Rows = {"check", "other"}
    CheckRows = {"check"}
    Categories = {"rent"}
    Configs <- MCConfigs
    Passes = {a, b}
    Wishes <- MCWishes
    Price = 1
    Cap = 1
    MaxEdits = 1
    MaxChanges = 1
    EditMidRun = FALSE
    ChangeMidRun = FALSE
SPECIFICATION ReadingSpec
SYMMETRY Interchange
INVARIANTS FlagsAndFilesAgree SalvageIsHeld ChecksAgainstPrint CostIsReported PagesWhole CacheIsHonest SpendIsAccounted
PROPERTIES SweepIsExact SplitsTile RepairsAreSound HandEditsSurvive
CHECK_DEADLOCK FALSE
