----------------------------- MODULE MCServices -----------------------------
(* Instances of the modules that share no state with one another: a         *)
(* behaviour works with one of them, chosen at the start, and the others    *)
(* stay in one of their initial states.                                     *)
EXTENDS RateLimiter, Invitations, FeatureFlags, CursorPagination,
        SystemSettings, TenantContext, Consent, AdminForms, AdminDialogs,
        Navigation, DbBranch, OrgTreeView, ThemeEditor, RenameFiles, AdminLists

\* Creation times in microseconds; a millisecond has Micros of them.
MCTimes == 0..3

\* Two files share a stem and become differently named, two share one and become
\* named alike; the place "out" is one no script looks at.
MCSources == {"lib/data-table", "ui/data-table", "lib/org-slug", "api/org-slug", "ui/log-view"}
MCStemOf == [f \in MCSources |-> CASE f \in {"lib/org-slug", "api/org-slug"} -> "org-slug"
                                   [] f = "ui/log-view" -> "log-view"
                                   [] OTHER -> "data-table"]
MCConvention == [f \in MCSources |-> IF f \in {"ui/data-table", "ui/log-view"}
                                    THEN "pascal" ELSE "camel"]
MCImports == {[in |-> "app", to |-> "lib/data-table", ext |-> "none"],
              [in |-> "app", to |-> "lib/org-slug", ext |-> "js"],
              [in |-> "ui", to |-> "ui/log-view", ext |-> "js"],
              [in |-> "out", to |-> "lib/org-slug", ext |-> "none"]}

VARIABLE service

allVars == <<service, limiterVars, inviteVars, flagVars, cursorVars, settingsVars,
             tenantVars, consentVars, formVars, dialogVars, navVars, branchVars, treeVars, themeVars,
             renameVars, listVars>>

\* The chosen module starts in any of its initial states, each of the others in
\* one of them.
Init ==
    /\ service \in {"limiter", "invitations", "flags", "lists",
                    "settings", "tenants", "consent",
                    "forms", "dialogs", "navigation", "branches", "tree", "themes", "renames",
                    "rows"}
    /\ LimiterInit
    /\ InviteInit
    /\ FlagInit
    /\ CursorInit
    /\ service # "lists" => createdAt = <<>>
    /\ SettingsInit
    /\ service # "settings" => stored = [s \in Settings |-> CHOOSE v \in Valid[s] : TRUE]
    /\ TenantInit
    /\ ConsentInit
    /\ policy = CHOOSE p \in Policies : TRUE     \* they are deployed in any order
    /\ FormsInit
    /\ service # "forms" => editing.kind = "member" /\ ~editing.self
                           /\ row["profile"] = CHOOSE t \in Texts : TRUE
    /\ DialogsInit
    /\ service # "dialogs" => subject = "organization" /\ status = {}
    /\ NavInit
    /\ service # "navigation" => signedIn = Guest
    /\ BranchInit
    /\ service # "branches" => database = [i \in Issues |-> Absent]
    /\ TreeInit
    /\ service # "tree" => orgRow = [n \in Nodes |-> [parent |-> NoParent, archived |-> FALSE]]
    /\ ThemeInit
    /\ service # "themes" => kept = Nothing
    /\ RenameInit
    /\ ListInit

WithLimiter ==
    /\ service = "limiter" /\ LimiterNext
    /\ UNCHANGED <<service, inviteVars, flagVars, cursorVars, settingsVars, tenantVars,
                   consentVars, formVars, dialogVars, navVars, branchVars, treeVars, themeVars,
                   renameVars, listVars>>

WithInvitations ==
    /\ service = "invitations" /\ InviteNext
    /\ UNCHANGED <<service, limiterVars, flagVars, cursorVars, settingsVars, tenantVars,
                   consentVars, formVars, dialogVars, navVars, branchVars, treeVars, themeVars,
                   renameVars, listVars>>

WithFlags ==
    /\ service = "flags" /\ FlagNext
    /\ UNCHANGED <<service, limiterVars, inviteVars, cursorVars, settingsVars, tenantVars,
                   consentVars, formVars, dialogVars, navVars, branchVars, treeVars, themeVars,
                   renameVars, listVars>>

WithLists ==
    /\ service = "lists" /\ CursorNext
    /\ UNCHANGED <<service, limiterVars, inviteVars, flagVars, settingsVars, tenantVars,
                   consentVars, formVars, dialogVars, navVars, branchVars, treeVars, themeVars,
                   renameVars, listVars>>

WithSettings ==
    /\ service = "settings" /\ SettingsNext
    /\ UNCHANGED <<service, limiterVars, inviteVars, flagVars, cursorVars, tenantVars,
                   consentVars, formVars, dialogVars, navVars, branchVars, treeVars, themeVars,
                   renameVars, listVars>>

WithTenants ==
    /\ service = "tenants" /\ TenantNext
    /\ UNCHANGED <<service, limiterVars, inviteVars, flagVars, cursorVars, settingsVars,
                   consentVars, formVars, dialogVars, navVars, branchVars, treeVars, themeVars,
                   renameVars, listVars>>

WithConsent ==
    /\ service = "consent" /\ ConsentNext
    /\ UNCHANGED <<service, limiterVars, inviteVars, flagVars, cursorVars, settingsVars,
                   tenantVars, formVars, dialogVars, navVars, branchVars, treeVars, themeVars,
                   renameVars, listVars>>

WithForms ==
    /\ service = "forms" /\ FormsNext
    /\ UNCHANGED <<service, limiterVars, inviteVars, flagVars, cursorVars, settingsVars,
                   tenantVars, consentVars, dialogVars, navVars, branchVars, treeVars, themeVars,
                   renameVars, listVars>>

WithDialogs ==
    /\ service = "dialogs" /\ DialogsNext
    /\ UNCHANGED <<service, limiterVars, inviteVars, flagVars, cursorVars, settingsVars,
                   tenantVars, consentVars, formVars, navVars, branchVars, treeVars, themeVars,
                   renameVars, listVars>>

WithNavigation ==
    /\ service = "navigation" /\ NavNext
    /\ UNCHANGED <<service, limiterVars, inviteVars, flagVars, cursorVars, settingsVars,
                   tenantVars, consentVars, formVars, dialogVars, branchVars, treeVars, themeVars,
                   renameVars, listVars>>

WithBranches ==
    /\ service = "branches" /\ BranchNext
    /\ UNCHANGED <<service, limiterVars, inviteVars, flagVars, cursorVars, settingsVars,
                   tenantVars, consentVars, formVars, dialogVars, navVars, treeVars, themeVars,
                   renameVars, listVars>>

WithTree ==
    /\ service = "tree" /\ TreeNext
    /\ UNCHANGED <<service, limiterVars, inviteVars, flagVars, cursorVars, settingsVars,
                   tenantVars, consentVars, formVars, dialogVars, navVars, branchVars, themeVars,
                   renameVars, listVars>>

WithThemes ==
    /\ service = "themes" /\ ThemeNext
    /\ UNCHANGED <<service, limiterVars, inviteVars, flagVars, cursorVars, settingsVars,
                   tenantVars, consentVars, formVars, dialogVars, navVars, branchVars, treeVars,
                   renameVars, listVars>>

WithRenames ==
    /\ service = "renames" /\ RenameNext
    /\ UNCHANGED <<service, limiterVars, inviteVars, flagVars, cursorVars, settingsVars,
                   tenantVars, consentVars, formVars, dialogVars, navVars, branchVars, treeVars,
                   themeVars, listVars>>

WithListPage ==
    /\ service = "rows" /\ ListNext
    /\ UNCHANGED <<service, limiterVars, inviteVars, flagVars, cursorVars, settingsVars,
                   tenantVars, consentVars, formVars, dialogVars, navVars, branchVars, treeVars,
                   themeVars, renameVars>>

Next ==
    \/ WithLimiter \/ WithInvitations \/ WithFlags \/ WithLists
    \/ WithSettings \/ WithTenants \/ WithConsent \/ WithForms
    \/ WithDialogs \/ WithNavigation \/ WithBranches \/ WithTree \/ WithThemes
    \/ WithRenames \/ WithListPage

Spec == Init /\ [][Next]_allVars

-----------------------------------------------------------------------------
(* What several modules promise, each asked of the behaviours of its module  *)

\* Lists show every row once, page by page or as a tree, and the answer to what
\* their filters say.
ListsInv ==
    /\ service = "lists" => PagesInv
    /\ service = "tree" => OrgTreeViewInv
    /\ service = "rows" => ListPageInv

\* A request that changes settings, or works for one tenant, does so wholly or
\* says so, whatever other requests do between its statements.
RequestsInv ==
    /\ service = "settings" => SettingsInv
    /\ service = "tenants" => TenantInv

\* What a browser keeps of somebody's choices is what its pages apply: the
\* consent and the theme.
PreferencesInv ==
    /\ service = "consent" => ConsentInv
    /\ service = "themes" => ThemeInv

\* The console writes and does what its administrators saw and confirmed.
ConsoleForCause == EditedForCause /\ ActsForCause

\* The scripts of developers leave behind what they say they did.
ScriptsInv ==
    /\ service = "branches" => BranchInv
    /\ service = "renames" => RenameInv
=============================================================================
