------------------------------ MODULE ApiKeysPage ------------------------------
(***************************************************************************)
(* The page on which a member looks after the API keys of an organization. *)
(* Its list is what one answer held plus what later answers added and      *)
(* struck out; the server answers for the organization of the session,     *)
(* which other tabs change, and the page has its own copy of that.  The    *)
(* secret of a new key is in the answer of its creation and nowhere else.  *)
(***************************************************************************)
EXTENDS FiniteSets, Naturals

CONSTANTS
    Offices,        \* organizations of the user
    MaxKeys,        \* bound: keys that can be created
    MaxSent,        \* bound: requests of the dialogs under way
    MaxSwitches     \* bound: switches of the organization

VARIABLES
    switches,
    office,         \* activeOrganizationId of the session
    pageOffice,     \* the page's copy: useActiveOrganization
    apiKeys,        \* table api_keys
    list,           \* keys of useApiKeys; of: whose keys the answer held (history)
    fetch,          \* the request for the list, error and loading
    creation,       \* CreateKeyDialog
    submissions,    \* requests to create a key
    oneTimeKey,     \* OneTimeKeyDisplay
    revokeTarget,   \* RevokeKeyDialog
    revocations,    \* requests to revoke a key
    keyPast         \* history, see KeysTypeOK

serverVars == <<switches, office, apiKeys>>
keysVars == <<serverVars, pageOffice, list, fetch, creation, submissions, oneTimeKey,
              revokeTarget, revocations, keyPast>>

NoOffice == "none"

ASSUME KeysAssumption == NoOffice \notin Offices /\ MaxKeys \in Nat /\ MaxSwitches \in Nat

SomeOffice == Offices \cup {NoOffice}
KeyIds == 1..MaxKeys
NoId == 0

Submission == [id : KeyIds \cup {NoId}, state : {"asked", "created"},
               from : SomeOffice,      \* what the page has shown since
               together : BOOLEAN]      \* with another one under way

\* What became of the secret of a key: its owner was done with it, the answer with
\* it did not come, a display replaced its own, or the error message hid it until
\* the page was loaded anew.
Fates == {"kept", "done", "unanswered", "replaced", "reloaded"}

KeysTypeOK ==
    /\ switches \in 0..MaxSwitches
    /\ office \in Offices /\ pageOffice \in Offices
    /\ apiKeys \in [KeyIds -> [of : SomeOffice, live : BOOLEAN]]
    /\ list \in [rows : [KeyIds -> 0..2], struck : SUBSET KeyIds, of : SomeOffice]
    /\ fetch \in [state : {"none", "asked", "read", "failed"}, of : SomeOffice,
                  rows : SUBSET KeyIds, struck : SUBSET KeyIds]
    /\ creation \in [open : BOOLEAN, submitting : BOOLEAN]
    /\ submissions \subseteq Submission
    /\ {oneTimeKey, revokeTarget} \subseteq KeyIds \cup {NoId}
    /\ revocations \subseteq [id : KeyIds, state : {"asked", "revoked"}]
    /\ keyPast \in [secret : [KeyIds -> Fates],
                    together : SUBSET KeyIds,   \* displayed, created with another one
                                                \* under way
                    crossed : SUBSET KeyIds,    \* created across a switch
                    told : SUBSET KeyIds,       \* revoked, as the page was told
                    outrun : SUBSET KeyIds]     \* ... before it got an older list

Asked == [state |-> "asked", of |-> NoOffice, rows |-> {}, struck |-> {}]
Fetched == [Asked EXCEPT !.state = "none"]

KeysInit ==
    /\ switches = 0
    /\ office \in Offices /\ pageOffice = office
    /\ apiKeys = [k \in KeyIds |-> [of |-> NoOffice, live |-> FALSE]]
    /\ list = [rows |-> [k \in KeyIds |-> 0], struck |-> {}, of |-> NoOffice]
    /\ fetch = Asked
    /\ creation = [open |-> FALSE, submitting |-> FALSE]
    /\ submissions = {} /\ revocations = {}
    /\ oneTimeKey = NoId /\ revokeTarget = NoId
    /\ keyPast = [secret |-> [k \in KeyIds |-> "kept"], together |-> {}, crossed |-> {},
                  told |-> {}, outrun |-> {}]

-----------------------------------------------------------------------------
(* The organization and the list                                           *)

\* setActive, of the switcher or of another tab
SwitchOffice(o) ==
    /\ switches < MaxSwitches /\ switches' = switches + 1
    /\ o # office /\ office' = o
    /\ UNCHANGED <<pageOffice, apiKeys, list, fetch, creation, submissions, oneTimeKey,
                   revokeTarget, revocations, keyPast>>

\* useActiveOrganization has the news; the effect of useApiKeys drops the
\* request under way and sends another.  The skeleton replaces the dialogs, and
\* the form of a new key goes with them.
PageFollows ==
    /\ pageOffice # office /\ pageOffice' = office
    /\ fetch' = Asked
    /\ creation' = [creation EXCEPT !.submitting = FALSE]
    /\ submissions' = {[s EXCEPT !.from = NoOffice] : s \in submissions}
    /\ UNCHANGED <<serverVars, list, oneTimeKey, revokeTarget, revocations, keyPast>>

\* list of ApiKeyService
ListRead ==
    /\ fetch.state = "asked"
    /\ LET mine == {k \in KeyIds : apiKeys[k].of = office}
       IN  fetch' = [state |-> "read", of |-> office, rows |-> mine,
                     struck |-> {k \in mine : ~apiKeys[k].live}]
    /\ UNCHANGED <<serverVars, pageOffice, list, creation, submissions, oneTimeKey,
                   revokeTarget, revocations, keyPast>>

ListArrives ==
    /\ fetch.state = "read"
    /\ list' = [rows |-> [k \in KeyIds |-> IF k \in fetch.rows THEN 1 ELSE 0],
                struck |-> fetch.struck, of |-> fetch.of]
    /\ keyPast' = [keyPast EXCEPT !.outrun = @ \cup (keyPast.told \ fetch.struck)]
    /\ fetch' = Fetched
    /\ UNCHANGED <<serverVars, pageOffice, creation, submissions, oneTimeKey, revokeTarget,
                   revocations>>

ListFails ==
    /\ fetch.state = "asked"       \* or its answer is lost, which is the same
    /\ fetch' = [Fetched EXCEPT !.state = "failed"]
    /\ UNCHANGED <<serverVars, pageOffice, list, creation, submissions, oneTimeKey,
                   revokeTarget, revocations, keyPast>>

-----------------------------------------------------------------------------
(* Creating a key                                                          *)

Shown == fetch.state = "none"
NoDialog == ~creation.open /\ oneTimeKey = NoId /\ revokeTarget = NoId

OpenCreate ==
    /\ Shown /\ NoDialog
    /\ creation' = [open |-> TRUE, submitting |-> FALSE]
    /\ UNCHANGED <<serverVars, pageOffice, list, fetch, submissions, oneTimeKey,
                   revokeTarget, revocations, keyPast>>

\* Cancel is disabled during a submission, the Escape key is not; the effect of
\* useCreateKeyForm resets the form
CloseCreate ==
    /\ Shown /\ creation.open
    /\ creation' = [open |-> FALSE, submitting |-> FALSE]
    /\ UNCHANGED <<serverVars, pageOffice, list, fetch, submissions, oneTimeKey,
                   revokeTarget, revocations, keyPast>>

\* handleSubmit of CreateKeyDialog
SubmitKey ==
    /\ Shown /\ creation.open /\ ~creation.submitting
    /\ Cardinality(submissions) + Cardinality(revocations) < MaxSent
    /\ creation' = [creation EXCEPT !.submitting = TRUE]
    /\ submissions' = {[s EXCEPT !.together = TRUE] : s \in submissions}
                      \cup {[id |-> NoId, state |-> "asked", from |-> pageOffice,
                             together |-> submissions # {}]}
    /\ UNCHANGED <<serverVars, pageOffice, list, fetch, oneTimeKey, revokeTarget,
                   revocations, keyPast>>

Answer(s, t) == submissions' = (submissions \ {s}) \cup {t}

\* create of ApiKeyService, for the organization of the session
InsertKey(s, k) ==
    /\ s.state = "asked"
    /\ k = Cardinality({j \in KeyIds : apiKeys[j].of # NoOffice}) + 1
    /\ apiKeys' = [apiKeys EXCEPT ![k] = [of |-> office, live |-> TRUE]]
    /\ Answer(s, [s EXCEPT !.state = "created", !.id = k])
    /\ UNCHANGED <<switches, office, pageOffice, list, fetch, creation, oneTimeKey, revokeTarget,
                   revocations, keyPast>>

Becomes(K, fate) == [k \in KeyIds |-> IF k \in K THEN fate ELSE keyPast.secret[k]]

\* mutant: the answer is dropped when the dialog was closed meanwhile
KeyArrivesIfOpen(s) ==
    /\ s.state = "created"
    /\ list' = [list EXCEPT !.rows[s.id] = IF creation.open THEN @ + 1 ELSE @]
    /\ oneTimeKey' = IF creation.open THEN s.id ELSE oneTimeKey
    /\ creation' = [open |-> FALSE, submitting |-> FALSE]
    /\ submissions' = submissions \ {s}
    /\ UNCHANGED <<serverVars, pageOffice, fetch, revokeTarget, revocations, keyPast>>

\* onCreated, onOpenChange(false) and the finally of handleSubmit, whatever the
\* dialog is about by now
KeyArrives(s) ==
    /\ s.state = "created"
    /\ list' = [list EXCEPT !.rows[s.id] = @ + 1]
    /\ oneTimeKey' = s.id
    /\ creation' = [open |-> FALSE, submitting |-> FALSE]
    /\ submissions' = submissions \ {s}
    /\ keyPast' = [keyPast EXCEPT
         !.secret = Becomes({oneTimeKey} \cap keyPast.together, "replaced"),
         !.together = IF s.together THEN {s.id} ELSE {},
         !.crossed = IF s.from = apiKeys[s.id].of THEN @
                     ELSE @ \cup {s.id}]
    /\ UNCHANGED <<serverVars, pageOffice, fetch, revokeTarget, revocations>>

\* it was refused, or the answer did not come
SubmissionFails(s) ==
    /\ submissions' = submissions \ {s}
    /\ creation' = [creation EXCEPT !.submitting = FALSE]
    /\ keyPast' = [keyPast EXCEPT !.secret = Becomes({s.id}, "unanswered")]
    /\ UNCHANGED <<serverVars, pageOffice, list, fetch, oneTimeKey, revokeTarget,
                   revocations>>

\* handleOneTimeClose
Done ==
    /\ Shown /\ oneTimeKey # NoId
    /\ oneTimeKey' = NoId
    /\ keyPast' = [keyPast EXCEPT !.together = {},
                                  !.secret = Becomes({oneTimeKey}, "done")]
    /\ UNCHANGED <<serverVars, pageOffice, list, fetch, creation, submissions, revokeTarget,
                   revocations>>

-----------------------------------------------------------------------------
(* Revoking a key                                                          *)

\* the button of a row
RevokeClick(k) ==
    /\ Shown /\ NoDialog /\ list.rows[k] > 0 /\ k \notin list.struck
    /\ revokeTarget' = k
    /\ UNCHANGED <<serverVars, pageOffice, list, fetch, creation, submissions, oneTimeKey,
                   revocations, keyPast>>

\* cancelled, or confirmed with the name: the dialog closes either way
RevokeClose ==
    /\ Shown /\ revokeTarget # NoId
    /\ revokeTarget' = NoId
    /\ \/ UNCHANGED revocations
       \/ /\ Cardinality(submissions) + Cardinality(revocations) < MaxSent
          /\ revocations' = revocations \cup {[id |-> revokeTarget, state |-> "asked"]}
    /\ UNCHANGED <<serverVars, pageOffice, list, fetch, creation, submissions, oneTimeKey,
                   keyPast>>

\* revoke of ApiKeyService: a key of another organization is not found, a
\* revoked one is revoked already
Revoke(v) ==
    /\ v.state = "asked"
    /\ apiKeys[v.id].of = office
    /\ apiKeys' = [apiKeys EXCEPT ![v.id].live = FALSE]
    /\ revocations' = (revocations \ {v}) \cup {[v EXCEPT !.state = "revoked"]}
    /\ UNCHANGED <<switches, office, pageOffice, list, fetch, creation, submissions, oneTimeKey,
                   revokeTarget, keyPast>>

\* updateKeyLocally, and the finally of handleRevokeConfirm: it closes the
\* dialog, which may be about another key by now
RevocationArrives(v) ==
    /\ revocations' = revocations \ {v}
    /\ revokeTarget' = NoId
    /\ \/ UNCHANGED <<list, keyPast>>      \* it was refused, or the answer did not come
       \/ /\ v.state = "revoked"
          /\ list' = [list EXCEPT !.struck = @ \cup {v.id}]
          /\ keyPast' = [keyPast EXCEPT !.told = @ \cup {v.id}]
    /\ UNCHANGED <<serverVars, pageOffice, fetch, creation, submissions, oneTimeKey>>

\* ErrorState, the only button of a page whose list failed: the page starts again,
\* answers on their way find nobody, and the dialog it hid is not there any more
Reload ==
    /\ fetch.state = "failed"
    /\ pageOffice' = office /\ fetch' = Asked
    /\ list' = [rows |-> [k \in KeyIds |-> 0], struck |-> {}, of |-> NoOffice]
    /\ creation' = [open |-> FALSE, submitting |-> FALSE]
    /\ submissions' = {} /\ revocations' = {}
    /\ oneTimeKey' = NoId /\ revokeTarget' = NoId
    /\ keyPast' = [keyPast EXCEPT
         !.secret = [k \in KeyIds |-> IF k = oneTimeKey THEN "reloaded"
                                      ELSE IF \E s \in submissions : s.id = k THEN "unanswered"
                                      ELSE @[k]],
         !.together = {}, !.told = {}, !.outrun = {}]
    /\ UNCHANGED serverVars

KeysNext ==
    \/ \E o \in Offices : SwitchOffice(o)
    \/ PageFollows \/ ListRead \/ ListArrives \/ ListFails \/ Reload
    \/ OpenCreate \/ CloseCreate \/ SubmitKey \/ Done
    \/ \E s \in submissions : \/ \E k \in KeyIds : InsertKey(s, k)
                              \/ KeyArrives(s) \/ SubmissionFails(s)
    \/ \E k \in KeyIds : RevokeClick(k)
    \/ RevokeClose
    \/ \E v \in revocations : Revoke(v) \/ RevocationArrives(v)

KeysSpec == KeysInit /\ [][KeysNext]_keysVars

-----------------------------------------------------------------------------
(* Properties                                                              *)

\* The secret of a key is on its way to the page or in its display, hidden or not,
\* until its owner is done with it - but for the ways in which the page does lose
\* one.  A display is replaced only if its key and another one were being created at
\* once; the others are an answer that did not come, and the button of the error
\* message, which stands in place of the display when the list fails.
SecretKept ==
    \A k \in KeyIds : apiKeys[k].of # NoOffice /\ keyPast.secret[k] = "kept" =>
        k = oneTimeKey \/ \E s \in submissions : s.id = k

\* The page shows no key of another organization, and none twice, unless the
\* session changed while the list was asked for or the key was created.
RowsForCause ==
    Shown => \A k \in KeyIds :
        /\ list.rows[k] > 0 => \/ apiKeys[k].of = pageOffice
                               \/ k \in keyPast.crossed \/ list.of # pageOffice
        /\ list.rows[k] > 1 => k \in keyPast.crossed

\* A key that the page was told is revoked is listed as live only when the list
\* was read before and came later; and no other key is ever struck out.
StruckForCause ==
    /\ \A k \in keyPast.told :
         list.rows[k] > 0 => k \in list.struck \cup keyPast.outrun
    /\ \A k \in list.struck : ~apiKeys[k].live

KeysPageInv == KeysTypeOK /\ SecretKept /\ RowsForCause /\ StruckForCause
=============================================================================
