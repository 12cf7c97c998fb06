------------------------------ MODULE SidTable ------------------------------
(***************************************************************************)
(* What the bridge daemon promises about the board's session ids, without  *)
(* messages, threads or queues: a table from sids to agents, and the set   *)
(* of known agents that wait for a sid.  The board grants a sid to one     *)
(* waiting agent, or takes a sid back; clients and the transcript poller   *)
(* make agents known, make known agents without a sid wait, and forget.    *)
(***************************************************************************)
CONSTANTS Agents, NoAgent, Sids

VARIABLES known, waiting, owner

vars == <<known, waiting, owner>>

Init == known = {} /\ waiting = {} /\ owner = [s \in Sids |-> NoAgent]

HasSid(a) == \E s \in Sids : owner[s] = a

(* The agent leaves the queue with exactly this sid; a previous owner of   *)
(* the sid has none.                                                       *)
Grant(s) ==
    \E a \in waiting :
        /\ waiting' = waiting \ {a}
        /\ owner' = [owner EXCEPT ![s] = a]
        /\ UNCHANGED known

Revoke(s) ==
    /\ owner' = [owner EXCEPT ![s] = NoAgent]
    /\ UNCHANGED <<known, waiting>>

Change(joining, asking, gone) ==
    /\ \A a \in asking : ~HasSid(a)
    /\ known' = (known \cup joining \cup asking) \ gone
    /\ waiting' = (waiting \cup asking) \ gone
    /\ owner' = [s \in Sids |-> IF owner[s] \in gone THEN NoAgent
                                                     ELSE owner[s]]

Next ==
    \/ \E s \in Sids : Grant(s) \/ Revoke(s)
    \/ \E joining, asking, gone \in SUBSET Agents : Change(joining, asking, gone)

Spec == Init /\ [][Next]_vars
============================================================================
