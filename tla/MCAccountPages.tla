--------------------------- MODULE MCAccountPages ---------------------------
(* Instances of AccountDeletion and of the pages on which users sign in and *)
(* look after their account and the members of their organizations.  They   *)
(* share no state: a behaviour works with one of them, chosen at the start. *)
EXTENDS MCAccountDeletion, AccountClosing, ProfileForm, MembersPage, MailLinks

VARIABLE place

pagesVars == <<closingVars, profileVars, membersVars, mailVars>>

PagesInit ==
    /\ place \in {"accounts", "closing", "profile", "members", "entrance"}
    /\ Init /\ ClosingInit /\ ProfileInit /\ MembersInit /\ MailInit
    /\ place # "members" => sessionClub = NoClub
    /\ place # "closing" => rank = CHOOSE r \in [Companies -> [People -> {"owner"}]] : TRUE

WithAccounts ==
    /\ place = "accounts" /\ Next
    /\ UNCHANGED <<place, pagesVars>>

WithClosing ==
    /\ place = "closing" /\ ClosingNext
    /\ UNCHANGED <<place, vars, profileVars, membersVars, mailVars>>

WithProfile ==
    /\ place = "profile" /\ ProfileNext
    /\ UNCHANGED <<place, vars, closingVars, membersVars, mailVars>>

WithMembers ==
    /\ place = "members" /\ MembersNext
    /\ UNCHANGED <<place, vars, closingVars, profileVars, mailVars>>

AtEntrance ==
    /\ place = "entrance" /\ MailNext
    /\ UNCHANGED <<place, vars, closingVars, profileVars, membersVars>>

PagesNext == WithAccounts \/ WithClosing \/ WithProfile \/ WithMembers \/ AtEntrance

PagesSymmetry == RequestSymmetry \cup Permutations(Clubs)

PagesSpec == PagesInit /\ [][PagesNext]_<<place, vars, pagesVars>>
=============================================================================
