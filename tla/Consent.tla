------------------------------- MODULE Consent -------------------------------
(***************************************************************************)
(* Cookie consent: the page keeps it, with the banner, in React state, the *)
(* browser in a cookie and, for who is signed in, the server in a table of *)
(* which the newest record counts.  A choice is written to page and cookie *)
(* and posted; the answer sets the cookie again.  When somebody signs in,  *)
(* or a page is loaded for a session, the record is fetched and replaces   *)
(* page and cookie.  No request is awaited or cancelled.                   *)
(*                                                                         *)
(* One browser; the other devices of its users are OtherDevice.  What is   *)
(* chosen does not matter, only which choice it is: choices are numbered.  *)
(***************************************************************************)
EXTENDS Naturals, Sequences

CONSTANTS
    Persons,
    Anonymous,      \* no session
    Policies,       \* values of consentPolicyVersion
    MaxChoices      \* bounds the choices

ASSUME ConsentAssumption ==
    /\ Anonymous \notin Persons
    /\ Policies # {} /\ MaxChoices \in Nat

VARIABLES
    made,           \* made[n]: who made choice n, under which policy
    aged,           \* choices older than six months
    policy,         \* of the deployed site
    page,           \* state of ConsentProvider
    cookie,
    records,        \* the newest consent_records row of each user
    session,        \* who is signed in in this browser
    posts, gets,    \* requests under way
    disturbed       \* something came between a choice and its record

consentVars == <<made, aged, policy, page, cookie, records, session, posts, gets,
                 disturbed>>

NoConsent == 0
Choices == 1..MaxChoices
MadeSoFar == 1..Len(made)
Consents == {NoConsent} \cup Choices

ConsentTypeOK ==
    /\ made \in Seq([by : Persons \cup {Anonymous}, under : Policies])
    /\ Len(made) <= MaxChoices
    /\ aged \subseteq MadeSoFar
    /\ policy \in Policies
    /\ page \in [consent : Consents, banner : BOOLEAN, policy : Policies]
    /\ cookie \in Consents
    /\ records \in [Persons -> Consents]
    /\ session \in Persons \cup {Anonymous}
    /\ posts \subseteq [choice : Choices, user : Persons \cup {Anonymous},
                        handled : BOOLEAN]
    /\ gets \subseteq [user : Persons, answered : BOOLEAN, record : Consents]
    /\ disturbed \in BOOLEAN

ConsentInit ==
    /\ made = <<>>
    /\ aged = {}
    /\ policy \in Policies
    /\ page = [consent |-> NoConsent, banner |-> TRUE, policy |-> policy]
    /\ cookie = NoConsent
    /\ records = [u \in Persons |-> NoConsent]
    /\ session = Anonymous
    /\ posts = {} /\ gets = {}
    /\ disturbed = FALSE

Quiet == posts = {} /\ gets = {}

\* computeShowBanner, of a page of that policy version
ShowBanner(n, version) ==
    n = NoConsent \/ n \in aged \/ made[n].under # version

Ask(u) == [user |-> u, answered |-> FALSE, record |-> NoConsent]

\* useDbReconciliation, when the user of the session is another one
Reconciling(u) == IF u \in Persons THEN gets \cup {Ask(u)} ELSE gets

\* A page is loaded; what the old page asked for may still reach the server,
\* but nobody applies the answers.
Load ==
    /\ page' = [consent |-> cookie, banner |-> ShowBanner(cookie, policy),
                policy |-> policy]
    /\ gets' = IF session \in Persons THEN {Ask(session)} ELSE {}
    /\ disturbed' = (posts # {})
    /\ UNCHANGED <<made, aged, policy, cookie, records, session, posts>>

\* signing in and out without a load of the page
SignIn(u) ==
    /\ session = Anonymous
    /\ session' = u
    /\ gets' = Reconciling(u)
    /\ disturbed' = ~Quiet
    /\ UNCHANGED <<made, aged, policy, page, cookie, records, posts>>

SignOut ==
    /\ session # Anonymous
    /\ session' = Anonymous
    /\ UNCHANGED <<made, aged, policy, page, cookie, records, posts, gets, disturbed>>

New == Len(made) + 1

MakeChoice(by, under) ==
    /\ New <= MaxChoices
    /\ made' = Append(made, [by |-> by, under |-> under])

\* saveConsent: accept, reject or customize
SaveConsent ==
    /\ MakeChoice(session, page.policy)
    /\ cookie' = New
    /\ page' = [page EXCEPT !.consent = New, !.banner = FALSE]
    /\ posts' = posts \cup {[choice |-> New, user |-> session, handled |-> FALSE]}
    /\ disturbed' = (disturbed \/ ~Quiet)
    /\ UNCHANGED <<aged, policy, records, session, gets>>

\* mutant: the answer of the request is not written to the cookie
ReconcileKeepsCookie(g) ==
    /\ g \in gets /\ g.answered
    /\ gets' = gets \ {g}
    /\ IF g.record = NoConsent THEN UNCHANGED page
       ELSE page' = [page EXCEPT !.consent = g.record,
                                 !.banner = ShowBanner(g.record, page.policy)]
    /\ UNCHANGED <<made, aged, policy, cookie, records, session, posts, disturbed>>

\* reconcile has its answer, for whoever was signed in when it asked
Reconcile(g) ==
    /\ g \in gets /\ g.answered
    /\ gets' = gets \ {g}
    /\ IF g.record = NoConsent THEN UNCHANGED <<page, cookie>>
       ELSE /\ cookie' = g.record
            /\ page' = [page EXCEPT !.consent = g.record,
                                    !.banner = ShowBanner(g.record, page.policy)]
    /\ UNCHANGED <<made, aged, policy, records, session, posts, disturbed>>

-----------------------------------------------------------------------------
(* ConsentController                                                       *)

\* POST: the record of who was signed in, none for an anonymous visitor
HandlePost(p) ==
    /\ p \in posts /\ ~p.handled
    /\ posts' = (posts \ {p}) \cup {[p EXCEPT !.handled = TRUE]}
    /\ records' = IF p.user \in Persons THEN [records EXCEPT ![p.user] = p.choice]
                  ELSE records
    /\ UNCHANGED <<made, aged, policy, page, cookie, session, gets, disturbed>>

\* Set-Cookie of the answer
PostAnswered(p) ==
    /\ p \in posts /\ p.handled
    /\ posts' = posts \ {p}
    /\ cookie' = p.choice
    /\ UNCHANGED <<made, aged, policy, page, records, session, gets, disturbed>>

HandleGet(g) ==
    /\ g \in gets /\ ~g.answered
    /\ gets' = (gets \ {g}) \cup
                 {[g EXCEPT !.answered = TRUE, !.record = records[g.user]]}
    /\ UNCHANGED <<made, aged, policy, page, cookie, records, session, posts, disturbed>>

\* a request or its answer is lost; syncToServer and reconcile say nothing (of
\* a GET it does not matter which: it changes nothing)
RequestLost ==
    /\ \/ \E p \in posts : posts' = posts \ {p} /\ UNCHANGED gets
       \/ \E g \in gets : ~g.answered /\ gets' = gets \ {g} /\ UNCHANGED posts
    /\ disturbed' = TRUE
    /\ UNCHANGED <<made, aged, policy, page, cookie, records, session>>

-----------------------------------------------------------------------------
(* Surroundings                                                            *)

OtherDevice(u) ==
    /\ MakeChoice(u, policy)
    /\ records' = [records EXCEPT ![u] = New]
    /\ disturbed' = (disturbed \/ u = session)
    /\ UNCHANGED <<aged, policy, page, cookie, session, posts, gets>>

\* of choice n and of those before it; Max-Age of the cookie
SixMonths(n) ==
    /\ n \in MadeSoFar \ aged
    /\ aged' = 1..n
    /\ cookie' = IF cookie \in 1..n THEN NoConsent ELSE cookie
    /\ UNCHANGED <<made, policy, page, records, session, posts, gets, disturbed>>

Deploy(version) ==
    /\ version # policy
    /\ policy' = version
    /\ UNCHANGED <<made, aged, page, cookie, records, session, posts, gets, disturbed>>

ConsentNext ==
    \/ Load \/ SignOut \/ SaveConsent \/ RequestLost
    \/ \E u \in Persons : SignIn(u) \/ OtherDevice(u)
    \/ \E p \in posts : HandlePost(p) \/ PostAnswered(p)
    \/ \E g \in gets : HandleGet(g) \/ Reconcile(g)
    \/ \E n \in Choices : SixMonths(n)
    \/ \E v \in Policies : Deploy(v)

ConsentSpec == ConsentInit /\ [][ConsentNext]_consentVars

-----------------------------------------------------------------------------
(* Properties                                                              *)

\* Through sign-ins, deployments and answers in any order:
\*  - the banner is hidden only for a choice made under the policy version of
\*    the page;
\*  - a record belongs to who made the choice;
\*  - once no request is under way, page, cookie and record agree for who is
\*    signed in and has a record, unless a request was lost, a choice or a
\*    sign-in came while another request was under way, or the user chose on
\*    another device meanwhile (each of which sets disturbed).
ConsentInv ==
    /\ ConsentTypeOK
    /\ ~page.banner =>
         page.consent # NoConsent /\ made[page.consent].under = page.policy
    /\ \A u \in Persons : records[u] # NoConsent => made[records[u]].by = u
    /\ (Quiet /\ ~disturbed /\ session \in Persons /\ records[session] # NoConsent) =>
         /\ page.consent = records[session]
         /\ cookie = records[session] \/ records[session] \in aged
=============================================================================
