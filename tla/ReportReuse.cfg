SPECIFICATION Spec
CONSTANTS
    Sessions = {r1}
    Sources = {src1}
    Texts = {a, b}
    Blanks = {}
    NoText = NoText
    Statuses = {"pending", "translated"}
    QAStates = {"stale", "passed", "failed"}
    Jobs = {}
    NoJob = NoJob
    Modes = {"deterministic"}
    Keep = Keep
    Payloads <- SmallPayloads
    Verdicts = {"passed", "failed"}
    NoReport = NoReport
SYMMETRY Symmetric
INVARIANTS
    ReportReused
