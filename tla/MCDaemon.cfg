SPECIFICATION DaemonSpec
CONSTANTS
    claude = claude  codex = codex  shell = shell  s1 = s1  s2 = s2
    Agents = {claude, codex, shell}
    NoAgent = NoAgent
    Terminals = {shell}
    Sids = {s1, s2}
    NoSid = NoSid
    Broadcast = Broadcast
    ReqIds = {}
    Decisions = {}
    NoDecision = NoDecision
    Registrations <- AllLines
    Discoverable = {claude, codex}
    GracePolls = 3
    Inputs <- AllInputs
    MaxOutbox = 3
    MaxPerms = 0
    MaxClients = 1
INVARIANTS TypeOK SidUnique PendingSound TerminalsHaveNoRow BoundPassiveDropped
PROPERTIES NewMessagesFromOwner Vt100OnlyForFocus ImplementsSidTable DroppedAfterGrace
CHECK_DEADLOCK FALSE
