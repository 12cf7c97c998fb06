-------------------------- MODULE MCPermissionHook --------------------------
(* Instances of PermissionHook for TLC. *)
EXTENDS PermissionHook

CONSTANTS claude, other, s1, r1, r2, deny, always, h1, h2

(* Two hooks of one session or of two, started in the same millisecond or  *)
(* not.                                                                    *)
OneSession  == [h \in Hooks |-> claude]
TwoSessions == [h \in Hooks |-> IF h = h1 THEN claude ELSE other]
SameReq     == [h \in Hooks |-> r1]
OwnReq      == [h \in Hooks |-> IF h = h1 THEN r1 ELSE r2]

(* All that may go wrong, and what only a restart can mix up.              *)
Disturbed ==
    {[agent |-> OneSession, req |-> SameReq, faults |-> AllFaults],
     [agent |-> TwoSessions, req |-> OwnReq, faults |-> {"restarts"}],
     [agent |-> TwoSessions, req |-> SameReq, faults |-> {}]}

(* A daemon that answers late or restarts, and one that serves its hooks.  *)
Live ==
    {[agent |-> OneSession, req |-> SameReq,
      faults |-> {"slow", "deadline", "restarts"}],
     [agent |-> OneSession, req |-> OwnReq, faults |-> {}],
     [agent |-> TwoSessions, req |-> SameReq, faults |-> {}]}

Verdicts3 == [d \in Decisions |-> IF d = deny THEN "deny" ELSE "allow"]

HookInputs == {"agent.register", "permission.request", "permission.poll",
               "no-op", "SessionResponse", "SessionInvalid", "PermissionRes",
               "other"}

(* Rows change hands by grants only. *)
LiveInputs == HookInputs \ {"SessionInvalid"}
============================================================================
