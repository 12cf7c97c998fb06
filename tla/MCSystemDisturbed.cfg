SPECIFICATION SysSpec
CONSTANTS
    claude = claude  codex = codex  s1 = s1  s2 = s2  s3 = s3
    r1 = r1  r2 = r2  allow = allow  deny = deny
    Agents = {claude, codex}
    NoAgent = NoAgent
    Terminals = {}
    Sids = {s1, s2}
    NoSid = NoSid
    Broadcast = Broadcast
    ReqIds = {r1, r2}
    Decisions = {allow}
    NoDecision = NoDecision
    Registrations <- HookLines
    Discoverable = {}
    GracePolls = 2
    Inputs <- ReliableInputs
    MaxOutbox = 4
    MaxPerms = 1
    MaxClients = 1
    Asks <- BothAsk
    BoardEvents = {"rejects", "fades", "restarts"}
    MaxWire = 1
INVARIANTS SysTypeOK NoLostPermission AnswerIsTheUsers
CHECK_DEADLOCK FALSE
