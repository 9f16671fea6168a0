----------------------------- MODULE Leadership ------------------------------
(***************************************************************************)
(* What advisory-lock election promises to the instances that share a      *)
(* scope.  An instance is idle, the leader, or deposed: still working      *)
(* although its leadership is gone.  At most one instance is the leader,   *)
(* an instance becomes the leader only from idle, and a deposed instance   *)
(* can only stop.  The promise does not say that a deposed instance is     *)
(* stopped before its successor starts: the election has no fencing.       *)
(***************************************************************************)
CONSTANT Instances

VARIABLE role

Roles == {"idle", "leader", "deposed"}

Init == role = [i \in Instances |-> "idle"]

Elect(i) ==
    /\ role[i] = "idle"
    /\ \A j \in Instances : role[j] # "leader"
    /\ role' = [role EXCEPT ![i] = "leader"]

Depose(i) ==
    /\ role[i] = "leader"
    /\ role' = [role EXCEPT ![i] = "deposed"]

Retire(i) ==
    /\ role[i] \in {"leader", "deposed"}
    /\ role' = [role EXCEPT ![i] = "idle"]

Next == \E i \in Instances : Elect(i) \/ Depose(i) \/ Retire(i)

Spec == Init /\ [][Next]_role
=============================================================================
