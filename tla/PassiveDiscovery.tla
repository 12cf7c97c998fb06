-------------------------- MODULE PassiveDiscovery --------------------------
(***************************************************************************)
(* How long the passive discovery thread keeps a session it no longer      *)
(* sees.  BridgeDaemon with a history variable: `unseen` counts, up to     *)
(* GracePolls, the polls in a row that missed the agent while it was not   *)
(* waiting for a sid.  It restricts no step of BridgeDaemon.               *)
(***************************************************************************)
EXTENDS BridgeDaemon

VARIABLE unseen

PDInit == Init /\ unseen = [a \in Agents |-> 0]

Missed(snapshot) ==
    [a \in Agents |->
        IF a \in ToSet(snapshot) \cup ToSet(pending_board_sessions)
        THEN 0
        ELSE IF unseen[a] < GracePolls THEN unseen[a] + 1 ELSE GracePolls]

PDNext ==
    \/ \E snapshot \in Snapshots, spoke \in SUBSET Discoverable :
          PassivePoll(snapshot, spoke) /\ unseen' = Missed(snapshot)
    \/ (ClientStep \/ BoardStep \/ OtherStep) /\ UNCHANGED unseen

PDSpec == PDInit /\ [][PDNext]_<<vars, unseen>>

Passive(a) == /\ a \in DOMAIN registered
              /\ ~registered[a].from_hook
              /\ ~registered[a].from_launch

(* A poll forgets only a passive session, and only after GracePolls polls  *)
(* in a row missed it: however hook registrations, aborts, invalidated     *)
(* sids and rediscoveries fall between the polls, no old count survives.   *)
DroppedAfterGrace ==
    [][\A a \in DOMAIN registered \ DOMAIN registered' :
          Abort(a) \/ (Passive(a) /\ unseen'[a] = GracePolls)]_<<vars, unseen>>

(* A passive session that holds a row on the board is gone by the poll     *)
(* that completes the grace period, so its heartbeats stop and the board   *)
(* drops the row.                                                          *)
BoundPassiveDropped ==
    \A a \in Agents : Passive(a) /\ registered[a].board_sid # NoSid =>
                          unseen[a] < GracePolls

(* What the comment of prune_missing_passive_sessions says: transcript-only*)
(* sessions missing from the snapshots are dropped, except the ones whose  *)
(* REQUEST_SESSION may still be queued.                                    *)
MissingPassiveDropped ==
    \A a \in Agents : Passive(a) /\ a \notin ToSet(pending_board_sessions) =>
                          unseen[a] < GracePolls
============================================================================
