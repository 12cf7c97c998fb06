SPECIFICATION SysSpec
CONSTANTS
    claude = claude  codex = codex  s1 = s1  s2 = s2  s3 = s3
    r1 = r1  r2 = r2  allow = allow  deny = deny
    Agents = {claude, codex}
    NoAgent = NoAgent
    Terminals = {}
    Sids = {s1, s2}
    NoSid = NoSid
    Broadcast = Broadcast
    ReqIds = {}
    Decisions = {}
    NoDecision = NoDecision
    Registrations <- HookLines
    Discoverable = {}
    GracePolls = 2
    Inputs <- SessionInputs
    MaxOutbox = 4
    MaxPerms = 0
    MaxClients = 1
    Asks <- NoAsks
    BoardEvents = {"rejects"}
    MaxWire = 1
PROPERTY RegisterRequestsSession
CHECK_DEADLOCK FALSE
