----------------------------- MODULE Directory -----------------------------
(***************************************************************************)
(* What the server promises about presence, without connections, timers or *)
(* sessions: a table of the peers present in each network with the key     *)
(* each has proved.  Peers arrive one at a time; an arrival confirms the   *)
(* key of a peer that is already present and never changes it, and makes   *)
(* nobody leave in another network.  Any set of peers may leave.           *)
(***************************************************************************)
CONSTANTS Networks, Peers, Keys, NoKey

VARIABLE present   \* the key of each peer, NoKey while it is absent

Ids == Networks \X Peers

Init == present = [id \in Ids |-> NoKey]

Arrive(id, k, left) ==
    /\ present[id] \in {NoKey, k}
    /\ \A x \in left : x # id /\ x[1] = id[1]
    /\ present' = [x \in Ids |-> IF x = id THEN k
                                 ELSE IF x \in left THEN NoKey ELSE present[x]]

Leave(left) ==
    present' = [x \in Ids |-> IF x \in left THEN NoKey ELSE present[x]]

Next == \E left \in SUBSET Ids :
            Leave(left) \/ \E id \in Ids, k \in Keys : Arrive(id, k, left)

Spec == Init /\ [][Next]_present
=============================================================================
