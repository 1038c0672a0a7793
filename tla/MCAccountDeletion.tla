--------------------------- MODULE MCAccountDeletion ---------------------------
(* Instances of AccountDeletion: every organization was created by u1.      *)
EXTENDS AccountDeletion, TLC

CONSTANTS u1, u2, o1

MCFirstOwner == [o \in Orgs |-> u1]

\* nothing to resolve, or two resolutions: hand o1 to u2 and delete it
Handovers ==
    {<<>>, <<[org |-> o1, to |-> u2], [org |-> o1, to |-> DeleteIt]>>}

\* nothing to resolve, or the one: hand o1 to u2
Handover == {<<>>, <<[org |-> o1, to |-> u2]>>}

NoResolutions == {<<>>}

\* Requests of every kind but the owner's purge: what the cron is for
LeftToCron == Next /\ \A r \in Requests : req'[r].kind # "purge"
DueSpec == Init /\ [][LeftToCron]_vars /\ Fairness

RequestSymmetry == Permutations(Requests)
=============================================================================
