----------------------------- MODULE AccountClosing -----------------------------
(***************************************************************************)
(* The danger zone of the account page.  Before an account is deleted the  *)
(* page looks for the organizations its user owns, one request after the   *)
(* other, lets the user choose for each whether it is deleted or handed to *)
(* a member, and sends the choices with the deletion.  The server checks   *)
(* the choices it gets and not that there is one for every organization,   *)
(* so that it is the page on which no organization loses its owner.        *)
(* Memberships change meanwhile.  The transaction is one step here and in  *)
(* detail in AccountDeletion.                                              *)
(***************************************************************************)
EXTENDS FiniteSets

CONSTANTS
    Companies,
    Me, Colleagues,
    Undecided       \* transfer, and nobody chosen yet

ASSUME ClosingAssumption == Me \notin Colleagues /\ Undecided \notin Colleagues

VARIABLES
    rank,           \* members.role of everybody in every organization
    ended,          \* deletedAt of an organization, and who set it
    closed,         \* the account is deleted
    flow,           \* useDeleteAccountFlow
    excused         \* history: what the page could not know it owns

closingVars == <<rank, ended, closed, flow, excused>>

People == Colleagues \cup {Me}

Choices == Colleagues \cup {"delete", Undecided}

\* listed: not looked up yet; owned: ownedOrgs with the members that may take
\* over; chosen: resolutions
ClosingTypeOK ==
    /\ rank \in [Companies -> [People -> {"owner", "member", "none"}]]
    /\ ended \in [Companies -> {"no", "others", "closing"}]
    /\ closed \in BOOLEAN
    /\ flow.stage \in {"idle", "asking", "looking", "choosing", "confirming", "sent"}
    /\ flow.listed \subseteq Companies
    /\ DOMAIN flow.owned \subseteq Companies
    /\ \A o \in DOMAIN flow.owned : flow.owned[o] \subseteq Colleagues
    /\ DOMAIN flow.chosen \subseteq DOMAIN flow.owned
    /\ \A o \in DOMAIN flow.chosen : flow.chosen[o] \in flow.owned[o] \cup {"delete", Undecided}
    /\ excused \subseteq Companies

Nothing == [o \in {} |-> {}]

NotAsked == [stage |-> "idle", listed |-> {}, owned |-> Nothing, chosen |-> Nothing]

ClosingInit ==
    /\ rank \in [Companies -> [People -> {"owner", "member", "none"}]]
    /\ ended = [o \in Companies |-> "no"]
    /\ closed = FALSE /\ flow = NotAsked /\ excused = {}

Heirs(o) == {c \in Colleagues : rank[o][c] = "member"}

-----------------------------------------------------------------------------
(* The organizations                                                       *)

\* startDelete
StartDelete ==
    /\ ~closed /\ flow.stage = "idle"
    /\ flow' = [NotAsked EXCEPT !.stage = "asking"]
    /\ excused' = {}
    /\ UNCHANGED <<rank, ended, closed>>

\* startDelete, once it knows: with nothing to choose it goes on to the
\* confirmation, and that is also what it does when it could not find out
Known(owned) ==
    IF DOMAIN owned = {} THEN [NotAsked EXCEPT !.stage = "confirming"]
    ELSE [stage |-> "choosing", listed |-> {}, owned |-> owned,
          chosen |-> [o \in DOMAIN owned |-> "delete"]]

Looking(owned, listed) ==
    IF listed = {} THEN Known(owned)
    ELSE [stage |-> "looking", listed |-> listed, owned |-> owned, chosen |-> Nothing]

\* fetchOwnedOrgsForUser: the list of the user's organizations
ListOrganizations(works) ==
    /\ flow.stage = "asking"
    /\ LET mine == {o \in Companies : rank[o][Me] # "none" /\ ended[o] = "no"} IN
       /\ flow' = Looking(Nothing, IF works THEN mine ELSE {})
       /\ excused' = IF works THEN excused ELSE Companies
    /\ UNCHANGED <<rank, ended, closed>>

Add(owned, o) == [x \in DOMAIN owned \cup {o} |-> IF x = o THEN Heirs(o) ELSE owned[x]]

\* getFullOrganization of the next one: an answer, an error that counts as no
\* answer, or an exception, after which all that was found is forgotten
LookUp(o, outcome) ==
    /\ flow.stage = "looking" /\ o \in flow.listed
    /\ CASE outcome = "answer" ->
              /\ flow' = Looking(IF rank[o][Me] = "owner" THEN Add(flow.owned, o) ELSE flow.owned,
                                 flow.listed \ {o})
              /\ UNCHANGED excused
         [] outcome = "error" ->
              /\ flow' = Looking(flow.owned, flow.listed \ {o})
              /\ excused' = excused \cup {o}
         [] outcome = "exception" ->
              /\ flow' = Known(Nothing)
              /\ excused' = Companies
    /\ UNCHANGED <<rank, ended, closed>>

-----------------------------------------------------------------------------
(* The dialogs                                                             *)

\* OrgResolutionStep: transfer is there when somebody may take over
Choose(o, choice) ==
    /\ flow.stage = "choosing" /\ o \in DOMAIN flow.chosen
    /\ \/ choice = "delete"
       \/ choice = Undecided /\ flow.owned[o] # {} /\ flow.chosen[o] = "delete"
       \/ choice \in flow.owned[o] /\ flow.chosen[o] # "delete"
    /\ flow' = [flow EXCEPT !.chosen = [@ EXCEPT ![o] = choice]]
    /\ UNCHANGED <<rank, ended, closed, excused>>

Resolved == \A o \in DOMAIN flow.chosen : flow.chosen[o] # Undecided

\* mutant: the choices are dismissed with the step, and then sent
CompleteDismissed ==
    /\ flow.stage = "choosing"
    /\ flow' = IF Resolved THEN [flow EXCEPT !.stage = "sent", !.chosen = Nothing] ELSE NotAsked
    /\ UNCHANGED <<rank, ended, closed, excused>>

\* handleOrgStepComplete.  The click closes the dialog either way, and with it go
\* the choices, but for those handleConfirmDelete still holds.
Complete ==
    /\ flow.stage = "choosing"
    /\ flow' = IF Resolved THEN [flow EXCEPT !.stage = "sent"] ELSE NotAsked
    /\ UNCHANGED <<rank, ended, closed, excused>>

\* handleConfirmDelete from the dialog without choices
Confirm ==
    /\ flow.stage = "confirming"
    /\ flow' = [flow EXCEPT !.stage = "sent"]
    /\ UNCHANGED <<rank, ended, closed, excused>>

\* dismissOrgStep, cancelDelete
CancelDelete ==
    /\ flow.stage \in {"choosing", "confirming"}
    /\ flow' = NotAsked
    /\ UNCHANGED <<rank, ended, closed, excused>>

-----------------------------------------------------------------------------
(* DELETE /api/users/me                                                    *)

\* softDelete: the user owns every organization there is a choice for, and who
\* takes over is a member of it
Accepted ==
    \A o \in DOMAIN flow.chosen :
        /\ rank[o][Me] = "owner"
        /\ flow.chosen[o] # "delete" => rank[o][flow.chosen[o]] # "none"

GivenAway(o) == o \in DOMAIN flow.chosen /\ flow.chosen[o] # "delete"

CloseAccount ==
    /\ flow.stage = "sent" /\ ~closed /\ Accepted
    /\ rank' = [o \in Companies |->
                   IF GivenAway(o) THEN [rank[o] EXCEPT ![flow.chosen[o]] = "owner"] ELSE rank[o]]
    /\ ended' = [o \in Companies |->
                   IF o \in DOMAIN flow.chosen /\ flow.chosen[o] = "delete" THEN "closing"
                   ELSE ended[o]]
    /\ closed' = TRUE
    /\ UNCHANGED <<flow, excused>>

\* any refusal, or a request that does not arrive: the choices are gone
RefuseClosing ==
    /\ flow.stage = "sent" /\ ~closed
    /\ flow' = NotAsked
    /\ UNCHANGED <<rank, ended, closed, excused>>

-----------------------------------------------------------------------------
(* Others                                                                  *)

\* The page has looked already, or will not look
Looked(o) == flow.stage \in {"looking", "choosing", "confirming", "sent"} /\ o \notin flow.listed

RankChanges(o, p, r) ==
    /\ ~closed /\ rank[o][p] # r
    /\ rank' = [rank EXCEPT ![o] = [@ EXCEPT ![p] = r]]
    /\ excused' = IF p = Me /\ r = "owner" /\ Looked(o) THEN excused \cup {o} ELSE excused
    /\ UNCHANGED <<ended, closed, flow>>

OthersEnd(o) ==
    /\ ~closed /\ ended[o] = "no"
    /\ ended' = [ended EXCEPT ![o] = "others"]
    /\ UNCHANGED <<rank, closed, flow, excused>>

OthersRestore(o) ==
    /\ ~closed /\ ended[o] = "others"
    /\ ended' = [ended EXCEPT ![o] = "no"]
    /\ excused' = IF Looked(o) THEN excused \cup {o} ELSE excused
    /\ UNCHANGED <<rank, closed, flow>>

-----------------------------------------------------------------------------
ClosingNext ==
    \/ StartDelete \/ Complete \/ Confirm \/ CancelDelete \/ CloseAccount \/ RefuseClosing
    \/ \E works \in BOOLEAN : ListOrganizations(works)
    \/ \E o \in Companies :
          \/ \E outcome \in {"answer", "error", "exception"} : LookUp(o, outcome)
          \/ \E choice \in Choices : Choose(o, choice)
          \/ \E p \in People, r \in {"owner", "member", "none"} : RankChanges(o, p, r)
          \/ OthersEnd(o) \/ OthersRestore(o)

ClosingSpec == ClosingInit /\ [][ClosingNext]_closingVars

-----------------------------------------------------------------------------
(* Properties                                                              *)

\* When an account is deleted, every organization it owns is deleted or handed
\* over as its user chose, unless the page could not learn of it: its request
\* failed, or the user came to own it after it looked (fetchOwnedOrgsForUser,
\* handleOrgStepComplete, softDelete).
ClosedAsChosen ==
    closed =>
        /\ \A o \in Companies :
              rank[o][Me] = "owner" /\ ended[o] = "no" =>
                  o \in excused \/ (GivenAway(o) /\ rank[o][flow.chosen[o]] = "owner")
        /\ \A o \in Companies :
              ended[o] = "closing" => o \in DOMAIN flow.chosen /\ flow.chosen[o] = "delete"

ClosingInv == ClosingTypeOK /\ ClosedAsChosen
=============================================================================
