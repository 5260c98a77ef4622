SPECIFICATION MCSpec
CONSTANTS
    Shapes <- MCShapes
    MaxHops = 3
    MaxMissing = 1
    Alpha = 55
    Answers <- MCAnswers
    Shares = {300, 400, 700, 1000}
    Profiles <- MCProfiles
    EventGates <- MCEventGates
    DefaultLevels <- MCDefaultLevels
    Hops = {0, 1, 2}
    WithInput = {0, 2}
    Slots = {s1, s2}
    MaxPasses = 3
    NoRun = NoRun
    RunsShown <- MCSpecial
    HopsOf <- MCHopsOf
    AnalysisOf <- MCAnalysisOf
    DomainOf <- MCDomainOf
    FamiliesOf <- MCFamiliesOf
    LocalModel = "llama"
    Alphabet <- MCAlphabet
    KeySets = {{}, {"openai"}, {"groq"}, {"anthropic", "openai"}}
    Requests <- MCRequests
    MaxVisits = 2
    MaxOpens = 2
    MaxCalls = 2
    MaxSends = 3
    MaxMemory = 3
    MaxDisk = 1
    MaxRestarts = 1
    Ticks = {t1}
    Callers = {c1}
    Outcomes = {"ok", "lostReply", "fail"}
    Rejected = {}
    DiskFails = TRUE
CHECK_DEADLOCK FALSE
INVARIANTS
    VerdictsAgree
    ShiftsConserve
    OneRoot
    NoChangeNoDiff
    GoalExplained
    ViewsAgree
    PanelIsHome
    ReplaysAreFaithful
    UnspilledInOrder
    RepeatsWereSpilled
    FlushAloneDrains
PROPERTY
    ImplementsOutbox
