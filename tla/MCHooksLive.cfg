SPECIFICATION FairHookSpec
CONSTANTS
    claude = claude  other = other  s1 = s1  r1 = r1  r2 = r2
    deny = deny  always = always  h1 = h1  h2 = h2
    Agents = {claude, other}
    NoAgent = NoAgent
    Terminals = {}
    Sids = {s1}
    NoSid = NoSid
    Broadcast = Broadcast
    ReqIds = {r1, r2}
    Decisions = {deny}
    NoDecision = NoDecision
    Registrations = {}
    Discoverable = {}
    GracePolls = 2
    Inputs <- LiveInputs
    MaxOutbox = 8
    MaxPerms = 2
    MaxClients = 1
    Hooks = {h1, h2}
    Verdict <- Verdicts3
    Settings <- Live
PROPERTIES HookEnds AnswerReachesHook
CHECK_DEADLOCK FALSE
