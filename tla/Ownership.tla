----------------------------- MODULE Ownership -----------------------------
(***************************************************************************)
(* What the membership endpoints promise about the owners of one           *)
(* organization, with no tables, requests or checks: owners are appointed, *)
(* step down while another one remains, or hand over to somebody else.     *)
(***************************************************************************)
CONSTANT Members

VARIABLE owners

TypeOK == owners \subseteq Members

Init == owners = {}

Appoint(m) == owners' = owners \cup {m}

StepDown(m) ==
    /\ \E other \in owners : other # m
    /\ owners' = owners \ {m}

HandOver(from, to) ==
    /\ from \in owners /\ to \notin owners
    /\ owners' = (owners \ {from}) \cup {to}

Next ==
    \/ \E m \in Members : Appoint(m) \/ StepDown(m)
    \/ \E from, to \in Members : HandOver(from, to)

Spec == Init /\ [][Next]_owners

\* An organization that has an owner keeps one.
OwnerKept == [][owners # {} => owners' # {}]_owners
=============================================================================
