SPECIFICATION PDSpec
CONSTANTS
    claude = claude  codex = codex  s1 = s1  s2 = s2
    Agents = {claude, codex}
    NoAgent = NoAgent
    Terminals = {}
    Sids = {s1, s2}
    NoSid = NoSid
    Broadcast = Broadcast
    ReqIds = {}
    Decisions = {}
    NoDecision = NoDecision
    Registrations <- HookLines
    Discoverable = {claude, codex}
    GracePolls = 3
    Inputs <- PassiveInputs
    MaxOutbox = 3
    MaxPerms = 0
    MaxClients = 1
INVARIANT MissingPassiveDropped
CHECK_DEADLOCK FALSE
