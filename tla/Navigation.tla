------------------------------ MODULE Navigation ------------------------------
(***************************************************************************)
(* The pages of the web application and who is let in: the root route      *)
(* fetches the session for every navigation, the guards of the routes send *)
(* visitors on to other pages, whose guards ask again.  The session may    *)
(* end or change between two fetches, and a fetch that fails looks like    *)
(* nobody being signed in.                                                 *)
(*                                                                         *)
(* One browser window.  A session is known by what its user may do.        *)
(***************************************************************************)
EXTENDS Naturals

CONSTANT MaxHops    \* bounds the redirections

ASSUME NavAssumption == MaxHops \in Nat

VARIABLES
    signedIn,       \* the session on the server
    closing,        \* the account of the user is soft-deleted
    window,         \* the page, or the navigation under way
    storedRedirect  \* auth_redirect in sessionStorage

navVars == <<signedIn, closing, window, storedRedirect>>

Guest == "guest"
Visitors == {"plain", "reader", "manager", "superadmin"}

GuestPages == {"/login", "/register"}
AccountPages == {"/dashboard", "/settings", "/settings/api-keys"}
AdminPages == {"/admin", "/admin/members", "/admin/users"}
Pages == {"/", "/org", "/account-reactivation"}
           \cup GuestPages \cup AccountPages \cup AdminPages

Nowhere == "nowhere"

NavTypeOK ==
    /\ signedIn \in Visitors \cup {Guest}
    /\ closing \in BOOLEAN
    /\ window \in [state : {"shown", "moving", "signing", "provider"},
                   page : Pages, hops : 0..MaxHops,
                   back : Pages \cup {Nowhere},     \* search.redirect
                   wanted : Pages \cup {Nowhere},   \* the page that asked to sign in
                   social : BOOLEAN,                \* signed in with a provider
                   steady : BOOLEAN]    \* every fetch had the same answer
    /\ storedRedirect \in Pages \cup {Nowhere}

NavInit ==
    /\ signedIn \in Visitors \cup {Guest}
    /\ closing = FALSE
    /\ window = [state |-> "shown", page |-> "/", hops |-> 0, back |-> Nowhere,
                 wanted |-> Nowhere, social |-> FALSE, steady |-> TRUE]
    /\ storedRedirect = Nowhere

-----------------------------------------------------------------------------
(* Guards of the routes                                                    *)

\* staticData.permission of the route and of the routes around it
Required(page) ==
    CASE page = "/settings/api-keys" -> {"api_keys:read"}
      [] page \in {"/admin", "/admin/members"} -> {"members:write"}
      [] page = "/admin/users" -> {"members:write", "role:superadmin"}
      [] OTHER -> {}

\* enforceRoutePermission: what the session has
Has(who, permission) ==
    \/ who = "superadmin"
    \/ who = "manager" /\ permission \in {"members:write", "api_keys:read"}
    \/ who = "reader" /\ permission = "api_keys:read"

\* Where the guards send who asks for the page, the outer route before the
\* inner one, and where to go back to after signing in.
Stays(page) == [to |-> page, back |-> Nowhere]
SendTo(page) == [to |-> page, back |-> Nowhere]

\* mutant: who lacks a permission is sent to /admin, whatever the permission
RedirectionToAdmin(page, who) ==
    IF page \in GuestPages THEN IF who = Guest THEN Stays(page) ELSE SendTo("/dashboard")
    ELSE IF page = "/org" THEN SendTo("/admin")
    ELSE IF page \in AccountPages /\ who = Guest THEN [to |-> "/login", back |-> page]
    ELSE IF page \in AdminPages /\ who = Guest THEN SendTo("/login")
    ELSE IF \E p \in Required(page) : ~Has(who, p) THEN SendTo("/admin")
    ELSE IF page = "/admin" THEN SendTo("/admin/members")
    ELSE Stays(page)

\* requireGuest, requireAuth, enforceRoutePermission and the pages that only redirect
Redirection(page, who) ==
    IF page \in GuestPages THEN IF who = Guest THEN Stays(page) ELSE SendTo("/dashboard")
    ELSE IF page = "/org" THEN SendTo("/admin")
    ELSE IF page \in AccountPages /\ who = Guest THEN [to |-> "/login", back |-> page]
    ELSE IF page \in AdminPages /\ who = Guest THEN SendTo("/login")
    ELSE IF \E p \in Required(page) \ {"role:superadmin"} : ~Has(who, p) THEN SendTo("/dashboard")
    ELSE IF "role:superadmin" \in Required(page) /\ who # "superadmin" THEN SendTo("/admin")
    ELSE IF page = "/admin" THEN SendTo("/admin/members")
    ELSE Stays(page)

-----------------------------------------------------------------------------
Moving(page) == [window EXCEPT !.state = "moving", !.page = page, !.hops = 0,
                               !.back = Nowhere, !.steady = TRUE]

\* nobody waits for the page that asked to sign in any more
Elsewhere(page) == [Moving(page) EXCEPT !.wanted = Nowhere, !.social = FALSE]

\* a link, an address typed, a reload
Visit(page) ==
    /\ window.state = "shown"
    /\ window' = Elsewhere(page)
    /\ UNCHANGED <<signedIn, closing, storedRedirect>>

\* beforeLoad of the root, with the session or without, and of the routes below
BeforeLoad(who) ==
    /\ window.state = "moving"
    /\ who \in {signedIn, Guest}
    /\ LET r == Redirection(window.page, who)
           steady == window.steady /\ who = signedIn
       IN  IF r.to = window.page
           THEN window' = [window EXCEPT !.state = "shown", !.steady = steady]
           ELSE /\ window.hops < MaxHops
                /\ window' = [window EXCEPT
                     !.page = r.to, !.back = r.back, !.hops = @ + 1, !.steady = steady,
                     !.wanted = IF r.back # Nowhere THEN r.back ELSE @]
    /\ UNCHANGED <<signedIn, closing, storedRedirect>>

AtLogin == window.state = "shown" /\ window.page = "/login" /\ signedIn = Guest

\* useStoredRedirect, when the login page is mounted
TakeStored ==
    /\ AtLogin /\ storedRedirect # Nowhere
    /\ storedRedirect' = Nowhere
    /\ window' = IF storedRedirect = "/dashboard" THEN window
                 ELSE Elsewhere(storedRedirect)
    /\ UNCHANGED <<signedIn, closing>>

\* handleEmailLogin
SignInByPassword(who) ==
    /\ AtLogin
    /\ signedIn' = who
    /\ closing' \in BOOLEAN
    /\ window' = [window EXCEPT !.state = "signing", !.social = FALSE]
    /\ UNCHANGED storedRedirect

\* handleSignInSuccess: checkSoftDeletedAccount, whose request may fail, then
\* safeRedirect
SignInSuccess(profileKnown) ==
    /\ window.state = "signing"
    /\ window' = IF profileKnown /\ closing THEN Moving("/account-reactivation")
                 ELSE IF window.back = Nowhere THEN Moving("/dashboard")
                 ELSE Moving(window.back)
    /\ UNCHANGED <<signedIn, closing, storedRedirect>>

\* handleOAuth: the browser leaves for the provider
SignInWithProvider ==
    /\ AtLogin
    /\ storedRedirect' = IF window.back = Nowhere THEN storedRedirect ELSE window.back
    /\ window' = [window EXCEPT !.state = "provider", !.social = TRUE]
    /\ UNCHANGED <<signedIn, closing>>

\* callbackURL: the login page again, or where better-auth sends by default
ProviderReturns(who) ==
    /\ window.state = "provider"
    /\ signedIn' = who
    /\ closing' \in BOOLEAN
    /\ window' = IF window.back = Nowhere THEN Moving("/")
                 ELSE [Moving("/login") EXCEPT !.back = window.back]
    /\ UNCHANGED storedRedirect

\* useAccountDeletionCheck of the dashboard
DeletionCheck ==
    /\ window.state = "shown" /\ window.page = "/dashboard"
    /\ signedIn # Guest /\ closing
    /\ window' = Elsewhere("/account-reactivation")
    /\ UNCHANGED <<signedIn, closing, storedRedirect>>

\* useReactivation
Reactivated ==
    /\ window.state = "shown" /\ window.page = "/account-reactivation"
    /\ signedIn # Guest /\ closing
    /\ closing' = FALSE
    /\ window' = Elsewhere("/dashboard")
    /\ UNCHANGED <<signedIn, storedRedirect>>

\* signOut of the menu, or purgeAccount; handleConfirmDelete goes to the
\* reactivation page
SignOutFrom(page) ==
    /\ window.state = "shown" /\ signedIn # Guest
    /\ \/ page = "/login"
       \/ page = "/" /\ window.page = "/account-reactivation" /\ closing
    /\ signedIn' = Guest
    /\ window' = Elsewhere(page)
    /\ UNCHANGED <<closing, storedRedirect>>

DeleteAccount ==
    /\ window.state = "shown" /\ window.page = "/settings" /\ signedIn # Guest
    /\ closing' = TRUE
    /\ window' = Elsewhere("/account-reactivation")
    /\ UNCHANGED <<signedIn, storedRedirect>>

\* the session expires or is revoked, or its user has another role
SessionChanges(who) ==
    /\ signedIn # Guest
    /\ who # signedIn
    /\ signedIn' = who
    /\ window' = [window EXCEPT !.steady = FALSE]
    /\ UNCHANGED <<closing, storedRedirect>>

NavNext ==
    \/ TakeStored \/ SignInWithProvider \/ DeletionCheck \/ Reactivated \/ DeleteAccount
    \/ \E page \in Pages : Visit(page) \/ SignOutFrom(page)
    \/ \E known \in BOOLEAN : SignInSuccess(known)
    \/ \E who \in Visitors :
         SignInByPassword(who) \/ ProviderReturns(who)
    \/ \E who \in Visitors \cup {Guest} : BeforeLoad(who) \/ SessionChanges(who)

NavSpec == NavInit /\ [][NavNext]_navVars

-----------------------------------------------------------------------------
(* Properties                                                              *)

\* at the end of a navigation, signed in, which began by asking for the page
Arrived(page) ==
    /\ window.state = "shown" /\ window.steady
    /\ signedIn # Guest /\ ~closing
    /\ window.wanted = page
    /\ Redirection(page, signedIn).to = page

\* The guards send nobody in circles: while the session stays the same, no
\* more than two redirections follow one another, and the page they end at
\* is one whose guards let that session in.  Who was sent to sign in and
\* does so by password gets to the page that asked, if the guards let the
\* session in there and the account is not about to be deleted.
NavInv ==
    /\ NavTypeOK
    /\ window.steady => window.hops <= 2
    /\ window.state = "shown" /\ window.steady =>
         Redirection(window.page, signedIn).to = window.page
    /\ ~window.social /\ window.wanted # Nowhere /\ Arrived(window.wanted) =>
         window.page = window.wanted
===============================================================================
