SPECIFICATION Spec
CONSTANTS
    Sessions = {r1, r2}
    Sources = {src1, src2}
    Texts = {a}
    Blanks = {}
    NoText = NoText
    Statuses = {"pending", "translated"}
    QAStates = {"stale", "passed", "failed"}
    Jobs = {j1}
    NoJob = NoJob
    Modes = {"deterministic"}
    Keep = Keep
    Payloads <- SmallPayloads
    Verdicts = {"passed", "failed"}
    NoReport = NoReport
SYMMETRY Symmetric
INVARIANTS
    TypeOK
    RowConsistent
    ReportsUnique
PROPERTIES
    ManualReportsPermanent
    LateResultsKeepTexts
