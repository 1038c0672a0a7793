------------------------------ MODULE Delivery ------------------------------
(***************************************************************************)
(* What the e-mail queue promises of a mail it has taken: it is handed to  *)
(* the provider a bounded number of times, and sooner or later it is       *)
(* settled: completed after at least one copy or after a refusal of the    *)
(* provider that nobody looked at, reported as failed, or given up         *)
(* together with the report.  A mail that was never taken is not sent, and *)
(* a settled mail stays settled the way it was.                            *)
(***************************************************************************)
EXTENDS Naturals

CONSTANTS Mails, MaxCopies

VARIABLES phase, handed, refused

deliveryVars == <<phase, handed, refused>>

DeliveryInit ==
    /\ phase = [m \in Mails |-> "unknown"]
    /\ handed = [m \in Mails |-> 0]
    /\ refused = {}

Take(m) ==
    /\ phase[m] = "unknown"
    /\ phase' = [phase EXCEPT ![m] = "pending"]
    /\ UNCHANGED <<handed, refused>>

\* also after the mail is settled: an attempt that was given up may go through
HandOver(m) ==
    /\ phase[m] # "unknown"
    /\ handed[m] < MaxCopies
    /\ handed' = [handed EXCEPT ![m] = @ + 1]
    /\ UNCHANGED <<phase, refused>>

Refuse(m) ==
    /\ phase[m] # "unknown"
    /\ refused' = refused \cup {m}
    /\ UNCHANGED <<phase, handed>>

\* a batch may be settled in one step
Settle(ms) ==
    /\ ms # {} /\ \A m \in ms : phase[m] = "pending"
    /\ \E outcome \in [ms -> {"completed", "reported", "abandoned"}] :
         /\ \A m \in ms : outcome[m] = "completed" => handed[m] > 0 \/ m \in refused
         /\ phase' = [m \in Mails |-> IF m \in ms THEN outcome[m] ELSE phase[m]]
    /\ UNCHANGED <<handed, refused>>

SettleBatchOf(m) == \E ms \in SUBSET Mails : m \in ms /\ Settle(ms)

DeliveryNext ==
    \E m \in Mails : Take(m) \/ HandOver(m) \/ Refuse(m) \/ SettleBatchOf(m)

DeliverySpec ==
    /\ DeliveryInit /\ [][DeliveryNext]_deliveryVars
    /\ \A m \in Mails : WF_deliveryVars(SettleBatchOf(m))
=============================================================================
