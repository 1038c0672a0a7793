------------------------------- MODULE MailLinks -------------------------------
(***************************************************************************)
(* Registration, sign-in and password reset: what the pages ask of         *)
(* better-auth, the links it mails, and the pages those links open, in one *)
(* tab of a browser whose other tabs sign in and out as well.  better-auth *)
(* reports what it refuses as a value; only a request that gets no answer  *)
(* throws.  An answer may come when the tab shows another page.            *)
(***************************************************************************)
EXTENDS Naturals, FiniteSets

CONSTANTS
    Addresses,      \* who registers and gets mail
    Others,         \* who else signs in on this browser
    Cooldown,       \* COOLDOWN_SECONDS
    MaxAsked        \* bound: requests of the tab under way

VARIABLES
    standing,       \* users: known, and email_verified
    mailbox,        \* links that were mailed, until they are used
    sessionCookie,  \* whose session the browser has
    mailTab,        \* the page shown
    asked,          \* requests of the tab under way
    replaced        \* history: a link took the place of a session the page had seen

mailVars == <<standing, mailbox, sessionCookie, mailTab, asked, replaced>>

NoSession == "nobody"
Someone == Addresses \cup Others

ASSUME MailAssumption == {NoSession, "pending"} \cap Someone = {} /\ Cooldown \in Nat

\* The page of each request, and the flag that disables its button meanwhile.
PageOf == [register |-> "/register", signIn |-> "/login", magicLink |-> "/login",
           provider |-> "/login", resendAtLogin |-> "/login",
           resendLink |-> "/magic-link-sent", resend |-> "/verify-email",
           resendUnknown |-> "/verify-email", requestReset |-> "/reset-password",
           setPassword |-> "/reset-password/confirm", verify |-> "/verify-email",
           useLink |-> "/magic-link/verify"]
Askable == DOMAIN PageOf
FlagOf == [a \in Askable |->
    CASE a = "provider" -> "oauthLoading"
      [] a = "resendAtLogin" -> "resendLoading"
      [] OTHER -> "loading"]
Cooled == {"resendAtLogin", "resendLink", "resend", "resendUnknown", "requestReset"}

GuestOnly == {"/register", "/login", "/reset-password", "/reset-password/confirm"}
AllPages == {PageOf[a] : a \in Askable} \cup {"/dashboard"}

\* A link, by what its token is for, and the page it opens.
Link == [kind : {"verify", "magic", "reset"}, to : Addresses]
NoLink == [kind |-> "none", to |-> NoSession]
LinkPage == [verify |-> "/verify-email", magic |-> "/magic-link/verify",
             reset |-> "/reset-password/confirm"]

MailTabs ==
    [page : AllPages, link : Link \cup {NoLink},
     busy : SUBSET {FlagOf[a] : a \in Askable},
     cooldown : 0..Cooldown,
     said : {"nothing", "sent", "if known", "error", "verified"},
     because : {"nothing", "mailed", "refused", "no need"},     \* history
     after : Askable \cup {"none"},                              \* history
     notVerified : BOOLEAN,                                      \* UnverifiedEmailAlert
     saw : Someone \cup {NoSession, "pending"},                  \* useSession
     steady : BOOLEAN]          \* history: what was seen is the session, still

\* at: the handler of a request is with its page, in the application, or gone
MailCalls ==
    [ask : Askable, to : Someone \cup {NoSession}, link : Link \cup {NoLink},
     answer : {"waiting", "ok", "unverified", "refused", "limited"},
     mailed : BOOLEAN, at : {"page", "app", "nowhere"}]

MailTypeOK ==
    /\ standing \in [Addresses -> {"unknown", "unverified", "verified"}]
    /\ mailbox \subseteq Link
    /\ sessionCookie \in Someone \cup {NoSession}
    /\ mailTab \in MailTabs /\ asked \subseteq MailCalls
    /\ replaced \in BOOLEAN

FreshPage(page, link) ==
    [page |-> page, link |-> link, busy |-> {}, cooldown |-> 0, said |-> "nothing",
     because |-> "nothing", after |-> "none", notVerified |-> FALSE, saw |-> "pending",
     steady |-> TRUE]

Outgoing(a, to, link) ==
    [ask |-> a, to |-> to, link |-> link, answer |-> "waiting", mailed |-> FALSE,
     at |-> "page"]

MailInit ==
    /\ standing = [a \in Addresses |-> "unknown"]
    /\ mailbox = {} /\ asked = {} /\ sessionCookie = NoSession /\ replaced = FALSE
    /\ mailTab = FreshPage("/login", NoLink)

-----------------------------------------------------------------------------
(* The tab                                                                 *)

\* the browser is leaving for the API
Leaving == \E q \in asked : q.ask = "useLink"

\* Where an answer sends the tab, though it left the page.
Destination(q) ==
    CASE q.ask = "signIn" /\ q.answer = "ok" -> "/dashboard"
      [] q.ask = "magicLink" /\ q.answer = "ok" -> "/magic-link-sent"
      [] q.ask = "setPassword" /\ q.answer = "ok" -> "/login"
      [] q.ask = "useLink" ->
           IF q.answer = "ok" THEN "/dashboard" ELSE "/magic-link/verify"
      [] OTHER -> "none"

\* an answer nobody will notice
Lost(q) ==
    /\ q.answer # "waiting"
    /\ q.at = "nowhere" \/ (q.at = "app" /\ Destination(q) = "none")

\* The requests left behind: handlers live on in the application, unless a
\* document is loaded.
Behind(at, rest) ==
    LET moved == {[q EXCEPT !.at = IF @ = "nowhere" THEN @ ELSE at] : q \in rest}
    IN  {q \in moved : ~Lost(q)}

\* The page changes: requireGuest sends those with a session on, and the effect
\* of useVerifyToken asks at once.
Go(page, link, who, rest, said) ==
    LET there == IF page \in GuestOnly /\ who # NoSession THEN "/dashboard" ELSE page
        verifies == there = "/verify-email" /\ link # NoLink
    IN  /\ mailTab' = [FreshPage(there, link) EXCEPT
                     !.steady = Leaving => mailTab.steady,
                     !.said = IF there = "/verify-email" /\ ~verifies THEN "error" ELSE said]
        /\ asked' = rest \cup (IF verifies THEN {Outgoing("verify", link.to, link)} ELSE {})

\* a link of the application, or of a mail without its token (those whom
\* requireGuest would send to the dashboard go there as well)
VisitPage(page) ==
    /\ page \in GuestOnly => sessionCookie = NoSession
    /\ page \notin {mailTab.page, "/magic-link-sent", "/reset-password/confirm"}
    /\ ~Leaving /\ Cardinality(asked) < MaxAsked
    /\ Go(page, NoLink, sessionCookie, Behind("app", asked), "nothing")
    /\ UNCHANGED <<standing, mailbox, sessionCookie, replaced>>

\* the link of any mail there ever was
Follow(link) ==
    /\ ~Leaving /\ Cardinality(asked) < MaxAsked
    /\ Go(LinkPage[link.kind], link, sessionCookie, Behind("nowhere", asked), "nothing")
    /\ UNCHANGED <<standing, mailbox, sessionCookie, replaced>>

Unsteady ==
    mailTab' = [mailTab EXCEPT !.steady = @ /\ ~Leaving /\ mailTab.page # "/magic-link/verify"]

\* sign-in and sign-out in another tab; from one user to another in two steps
OtherTab(who) ==
    /\ who # sessionCookie /\ NoSession \in {who, sessionCookie}
    /\ sessionCookie' = who
    /\ Unsteady
    /\ UNCHANGED <<standing, mailbox, asked, replaced>>

\* useSession has an answer, or another one; a lookup that failed is no session,
\* like that of a guest
SessionSeen(seen) ==
    /\ mailTab.page \in {"/verify-email", "/magic-link/verify"} /\ mailTab.saw # seen
    /\ seen \in {sessionCookie, NoSession}
    /\ ~Leaving
    /\ mailTab' = [mailTab EXCEPT !.saw = seen, !.steady = seen = sessionCookie]
    /\ UNCHANGED <<standing, mailbox, sessionCookie, asked, replaced>>

Tick ==
    /\ mailTab.cooldown > 0
    /\ mailTab' = [mailTab EXCEPT !.cooldown = @ - 1]
    /\ UNCHANGED <<standing, mailbox, sessionCookie, asked, replaced>>

\* ErrorState of the page that verifies an address
VerifyFailed == mailTab.said # "verified" /\ \A q \in asked : q.ask = "verify" => q.at # "page"

\* a button of the page, submitStart
Press(a, to) ==
    /\ mailTab.page = PageOf[a] /\ FlagOf[a] \notin mailTab.busy
    /\ a \in Cooled => mailTab.cooldown = 0
    /\ a = "provider" => "loading" \notin mailTab.busy
    /\ a = "resendAtLogin" => mailTab.notVerified
    /\ a = "resend" => VerifyFailed /\ to = mailTab.saw
    /\ a = "resendUnknown" => VerifyFailed /\ mailTab.saw = NoSession
    /\ a = "setPassword" => mailTab.link # NoLink /\ to = mailTab.link.to
    /\ a = "register" => mailTab.said # "sent"
    /\ a \notin {"verify", "useLink"} /\ (to \in Addresses \/ a \in {"signIn", "resend"})
    /\ Cardinality(asked) < MaxAsked
    /\ asked' = asked \cup {Outgoing(a, to, mailTab.link)}
    /\ mailTab' = [mailTab EXCEPT
         !.busy = @ \cup {FlagOf[a]}, !.said = "nothing", !.because = "nothing",
         !.after = "none",
         !.notVerified = IF a \in {"signIn", "magicLink"} THEN FALSE ELSE @]
    /\ UNCHANGED <<standing, mailbox, sessionCookie, replaced>>

\* mutant: it does not wait for the session
LeaveWithLinkAtOnce ==
    /\ mailTab.page = "/magic-link/verify" /\ mailTab.link # NoLink /\ ~Leaving
    /\ mailTab.saw \in {NoSession, "pending"}
    /\ asked' = asked \cup {Outgoing("useLink", mailTab.link.to, mailTab.link)}
    /\ UNCHANGED <<standing, mailbox, sessionCookie, mailTab, replaced>>

\* GuestVerifyFlow: the browser goes to the API, once nobody is signed in
LeaveWithLink ==
    /\ mailTab.page = "/magic-link/verify" /\ mailTab.link # NoLink /\ ~Leaving
    /\ mailTab.saw = NoSession
    /\ asked' = asked \cup {Outgoing("useLink", mailTab.link.to, mailTab.link)}
    /\ UNCHANGED <<standing, mailbox, sessionCookie, mailTab, replaced>>

\* handleSignOut of WarningState: the page is loaded again, signed out or refused
SignOutFirst ==
    /\ mailTab.page = "/magic-link/verify" /\ mailTab.link # NoLink /\ mailTab.saw \in Someone
    /\ sessionCookie' \in {sessionCookie, NoSession}
    /\ Go(mailTab.page, mailTab.link, sessionCookie', Behind("nowhere", asked), "nothing")
    /\ UNCHANGED <<standing, mailbox, replaced>>

\* the effect of MagicLinkVerifyPage, and the timer of SuccessState
ToDashboard ==
    /\ \/ mailTab.page = "/magic-link/verify" /\ mailTab.link = NoLink /\ mailTab.said # "error"
       \/ mailTab.page = "/verify-email" /\ mailTab.said = "verified"
    /\ mailTab.saw \in Someone
    /\ Go("/dashboard", NoLink, sessionCookie, Behind("app", asked), "nothing")
    /\ UNCHANGED <<standing, mailbox, sessionCookie, replaced>>

-----------------------------------------------------------------------------
(* better-auth, with the hooks of auth.instance                            *)

Answered(q, answer, mailed) ==
    LET a == [q EXCEPT !.answer = answer, !.mailed = mailed]
    IN  asked' = (asked \ {q}) \cup (IF Lost(a) THEN {} ELSE {a})

Standing(q) == IF q.to \in Addresses THEN standing[q.to] ELSE "verified"

NoMail(q, answer) == UNCHANGED mailbox /\ Answered(q, answer, FALSE)

\* sendVerificationEmail, sendMagicLink, sendResetPassword: a link is enqueued,
\* or that fails and the request with it
MailOut(q, kind, answer) ==
    \/ /\ mailbox' = mailbox \cup {[kind |-> kind, to |-> q.to]}
       /\ Answered(q, answer, TRUE)
    \/ NoMail(q, "refused")

\* the user is created first; onExistingUserSignUp mails without a link and
\* never fails
Registers(q) ==
    /\ standing' = IF Standing(q) = "unknown" THEN [standing EXCEPT ![q.to] = "unverified"]
                   ELSE standing
    /\ IF Standing(q) = "unknown" THEN MailOut(q, "verify", "ok") ELSE NoMail(q, "ok")
    /\ UNCHANGED <<sessionCookie, mailTab, replaced>>

\* the session begins
Begins(who) ==
    /\ sessionCookie' = who
    /\ IF who = sessionCookie THEN UNCHANGED mailTab ELSE Unsteady

\* requireEmailVerification, sendOnSignIn
SignsIn(q) ==
    /\ \/ Standing(q) = "unverified" /\ MailOut(q, "verify", "unverified")
          /\ UNCHANGED <<sessionCookie, mailTab>>
       \/ Standing(q) = "verified" /\ NoMail(q, "ok") /\ Begins(q.to)
       \/ NoMail(q, "refused") /\ UNCHANGED <<sessionCookie, mailTab>>
    /\ UNCHANGED <<standing, replaced>>

\* sendMagicLink looks for the user, sendVerificationEmail for one who is not
\* verified, sendResetPassword is called for a user
AsksForMail(q) ==
    /\ CASE q.ask \in {"magicLink", "resendLink"} ->
              IF Standing(q) = "unknown" THEN NoMail(q, "refused")
              ELSE MailOut(q, "magic", "ok")
         [] q.ask = "requestReset" ->
              IF Standing(q) = "unknown" THEN NoMail(q, "ok") ELSE MailOut(q, "reset", "ok")
         [] OTHER ->
              IF Standing(q) = "unverified" THEN MailOut(q, "verify", "ok")
              ELSE NoMail(q, "ok") \/ NoMail(q, "refused")
    /\ UNCHANGED <<standing, sessionCookie, mailTab, replaced>>

\* A token is refused when it was used before, and sooner or later: it expires.
Refuses(q) == NoMail(q, "refused") /\ UNCHANGED <<standing, sessionCookie, replaced>>

\* verifyEmail and resetPassword with the token of the link
Verifies(q) ==
    /\ \/ Refuses(q)
       \/ /\ q.link \in mailbox
          /\ standing' = IF q.ask = "verify" THEN [standing EXCEPT ![q.to] = "verified"]
                         ELSE standing
          /\ mailbox' = IF q.ask = "verify" THEN mailbox ELSE mailbox \ {q.link}
          /\ Answered(q, "ok", FALSE)
          /\ UNCHANGED <<sessionCookie, replaced>>
    /\ UNCHANGED mailTab

\* magic-link/verify: the session of the link takes the place of any other
UsesLink(q) ==
    /\ \/ Refuses(q)
       \/ /\ q.link \in mailbox
          /\ mailbox' = mailbox \ {q.link}
          /\ standing' = [standing EXCEPT ![q.to] = "verified"]
          /\ sessionCookie' = q.to
          /\ replaced' = (replaced \/ (sessionCookie \notin {q.to, NoSession} /\ mailTab.steady))
          /\ Answered(q, "ok", FALSE)
    /\ UNCHANGED mailTab

Serve(q) ==
    /\ q.answer = "waiting"
    /\ \/ q.ask = "register" /\ Registers(q)
       \/ q.ask = "signIn" /\ SignsIn(q)
       \/ q.ask \in Cooled \cup {"magicLink"} /\ AsksForMail(q)
       \/ q.ask \in {"verify", "setPassword"} /\ Verifies(q)
       \/ q.ask = "useLink" /\ UsesLink(q)
       \/ q.ask = "provider" /\ NoMail(q, "ok") /\ UNCHANGED <<standing, sessionCookie, mailTab, replaced>>

\* a limit was reached, which one handler tells apart, or the provider is not
\* configured
TurnDown(q) ==
    /\ q.answer = "waiting" /\ q.ask # "useLink"
    /\ NoMail(q, IF q.ask = "requestReset" THEN "limited" ELSE "refused")
    /\ UNCHANGED <<standing, sessionCookie, mailTab, replaced>>

-----------------------------------------------------------------------------
(* Answers                                                                 *)

\* mutant: the page that sends a link again says so whatever comes
VerdictNoError(q) ==
    CASE q.ask = "verify" -> IF q.answer = "ok" THEN "verified" ELSE "error"
      [] q.ask = "resendUnknown" -> "if known"
      [] q.ask = "provider" -> "nothing"
      [] q.ask \in {"resendAtLogin", "resendLink"} -> "sent"
      [] q.ask = "requestReset" -> IF q.answer = "limited" THEN "error" ELSE "sent"
      [] q.ask = "signIn" -> IF q.answer = "unverified" THEN "sent" ELSE "error"
      [] OTHER -> IF q.answer = "ok" THEN "sent" ELSE "error"

\* What the handlers say.  handleResendVerification does not look at the error,
\* handleRequestReset only at its status, handleSessionlessResend says the same
\* whatever comes.
Verdict(q) ==
    CASE q.ask = "verify" -> IF q.answer = "ok" THEN "verified" ELSE "error"
      [] q.ask = "resendUnknown" -> "if known"
      [] q.ask = "provider" -> "nothing"
      [] q.ask = "resendAtLogin" -> "sent"
      [] q.ask = "requestReset" -> IF q.answer = "limited" THEN "error" ELSE "sent"
      [] q.ask = "signIn" -> IF q.answer = "unverified" THEN "sent" ELSE "error"
      [] OTHER -> IF q.answer = "ok" THEN "sent" ELSE "error"

Because(q) == IF q.mailed THEN "mailed" ELSE IF q.answer = "ok" THEN "no need" ELSE "refused"

\* mutant: the flag is reset on success only
ReleasedOnSuccess(q) ==
    IF q.ask = "provider" \/ q.answer \notin {"ok", "unverified"} THEN mailTab.busy
    ELSE mailTab.busy \ {FlagOf[q.ask]}

\* The finally of the handlers; handleOAuth has none, and the browser leaves.
Released(q) == IF q.ask = "provider" THEN mailTab.busy ELSE mailTab.busy \ {FlagOf[q.ask]}

Receive(q) ==
    /\ q.answer # "waiting"
    /\ CASE Destination(q) # "none" ->
              Go(Destination(q), NoLink, sessionCookie,
                 Behind(IF q.ask = "useLink" THEN "nowhere" ELSE "app", asked \ {q}),
                 IF q.answer = "ok" THEN "nothing" ELSE "error")
         [] OTHER ->
              /\ asked' = asked \ {q}
              /\ mailTab' = [mailTab EXCEPT
                   !.busy = Released(q), !.said = Verdict(q),
                   !.because = IF Verdict(q) = "sent" THEN Because(q) ELSE "nothing",
                   !.after = IF Verdict(q) = "sent" THEN q.ask ELSE "none",
                   !.notVerified = @ \/ q.answer = "unverified",
                   !.cooldown = IF q.ask \in Cooled /\ Verdict(q) # "error" THEN Cooldown
                                ELSE @]
    /\ UNCHANGED <<standing, mailbox, sessionCookie, replaced>>

\* The request throws: every handler catches that.
Throws(q) ==
    /\ q.ask # "useLink"
    /\ asked' = asked \ {q}
    /\ mailTab' = IF q.at # "page" THEN mailTab
              ELSE [mailTab EXCEPT
                     !.busy = @ \ {FlagOf[q.ask]},
                     !.said = IF q.ask = "resendUnknown" THEN "if known" ELSE "error",
                     !.because = "nothing", !.after = "none",
                     !.cooldown = IF q.ask = "resendUnknown" THEN Cooldown ELSE @]
    /\ UNCHANGED <<standing, mailbox, sessionCookie, replaced>>

MailNext ==
    \/ \E page \in AllPages : VisitPage(page)
    \/ \E link \in Link : Follow(link)
    \/ \E who \in Someone \cup {NoSession} : OtherTab(who) \/ SessionSeen(who)
    \/ Tick \/ LeaveWithLink \/ SignOutFirst \/ ToDashboard
    \/ \E a \in Askable, to \in Someone : Press(a, to)
    \/ \E q \in asked : Serve(q) \/ TurnDown(q) \/ Receive(q) \/ Throws(q)

MailSpec == MailInit /\ [][MailNext]_mailVars

-----------------------------------------------------------------------------
(* Properties                                                              *)

\* A page says that a link was sent when one was; when there was none to send;
\* or when its handler drops the error: the two that do.  What the pages of
\* magic links say is never wrong.
SaidForCause ==
    mailTab.said = "sent" =>
        \/ mailTab.because = "mailed"
        \/ mailTab.because = "no need" /\ mailTab.after \notin {"magicLink", "resendLink", "signIn"}
        \/ mailTab.because = "refused" /\ mailTab.after \in {"resendAtLogin", "requestReset"}

\* A magic link silently takes the place of somebody else's session only when the
\* page did not see that one: its lookup had failed, or the session began, here or
\* in another tab, after the page had looked.
SessionKept == ~replaced

\* The page says verified only of an address that is.
VerifiedForCause == mailTab.said = "verified" => standing[mailTab.link.to] = "verified"

\* A button is disabled while a request of it is under way and no longer, but
\* for the buttons of the providers once better-auth refused one.
BusyForCause ==
    \A f \in mailTab.busy \ {"oauthLoading"} : \E q \in asked : FlagOf[q.ask] = f /\ q.at = "page"

MailLinkInv ==
    MailTypeOK /\ SaidForCause /\ SessionKept /\ VerifiedForCause /\ BusyForCause
=============================================================================
