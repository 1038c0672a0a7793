---------------------------- MODULE OrgPagesProofs ----------------------------
(* Proofs about the pages of an organization in MCAccess: ActiveOrgInv and   *)
(* KeysPageInv, for any number of organizations, names, keys and calls.      *)
EXTENDS MCAccess, FiniteSetTheorems, TLAPS

(***************************************************************************)
(* The active organization.  A tab knows where its session is unless it    *)
(* is told to look (due) or nothing told it (unaware); a name it hopes for *)
(* stands for a switch under way.                                          *)
(***************************************************************************)

\* What calls name exists, and no deletion is under way that its dialog
\* misled about.
CallsKept ==
    /\ IsFiniteSet(calls)
    /\ \A c \in calls :
         /\ c.kind \in {"switch", "delete", "commit"} => c.org \in DOMAIN name
         /\ c.kind \in {"delete", "commit"} => ~c.misled

TabKept ==
    /\ active \in DOMAIN name \cup {NoOrg}
    /\ tab.org \in DOMAIN name \cup {NoOrg}
    /\ tab.list \subseteq DOMAIN name
    /\ tab.org # NoOrg => tab.orgName \in Texts

\* While the impact is asked for and told, the page shows the organization of the
\* click and of the session, unless the session moved meanwhile or had moved before.
DangerKept ==
    /\ danger.open => Editable(tab)
    /\ (danger.open \/ Counting) /\ ~danger.behind => tab.org = active
    /\ danger.open /\ ~danger.behind => danger.of = tab.org
    /\ \A c \in calls : c.kind = "count" =>
         /\ Editable(tab) /\ ~danger.open
         /\ ~danger.behind => c.org = tab.org
         /\ \A d \in calls : d.kind = "count" => d = c

HopeKept ==
    ~tab.due /\ ~unaware =>
        /\ tab.org = active
        /\ tab.optimistic # NoOrg /\ ~tab.stuck => Switching \/ tab.optimistic = active

ActiveStrong == ActiveTypeOK /\ CallsKept /\ TabKept /\ DangerKept /\ HopeKept

(***************************************************************************)
(* The API keys                                                            *)
(***************************************************************************)

\* Keys are numbered as they are created.
NumberedKeys ==
    \E n \in 0..MaxKeys : \A j \in KeyIds : apiKeys[j].of # NoOffice <=> j <= n

Made(k) == apiKeys[k].of # NoOffice

\* A creation that the page has shown since it began is of this organization, no
\* list was asked for meanwhile, and its key is in no row.
SubmissionsKept ==
    \A s \in submissions :
        /\ s.state = "created" <=> s.id # NoId
        /\ s.id # NoId => Made(s.id) /\ list.rows[s.id] <= 1
        /\ s.from # NoOffice => /\ fetch.state = "none" /\ s.from = pageOffice
                                /\ s.id # NoId => list.rows[s.id] = 0
        /\ ~s.together => submissions = {s}
        /\ \A t \in submissions : s.id # NoId /\ s.id = t.id => s = t

DisplayKept ==
    oneTimeKey # NoId =>
        /\ ~creation.open
        /\ submissions # {} => oneTimeKey \in keyPast.together

RowsKept ==
    \A k \in KeyIds :
        /\ list.rows[k] > 0 => Made(k)
        /\ list.rows[k] > 1 => k \in keyPast.crossed

FetchKept ==
    fetch.state = "read" =>
        /\ \A k \in fetch.rows : apiKeys[k].of = fetch.of /\ Made(k)
        /\ \A k \in fetch.struck : Made(k) /\ ~apiKeys[k].live

StruckKept ==
    /\ keyPast.told \subseteq list.struck \cup keyPast.outrun
    /\ \A k \in list.struck : Made(k) /\ ~apiKeys[k].live
    /\ \A v \in revocations : v.state = "revoked" => Made(v.id) /\ ~apiKeys[v.id].live

KeysStrong ==
    /\ KeysTypeOK /\ SecretKept /\ RowsForCause
    /\ NumberedKeys /\ SubmissionsKept /\ DisplayKept /\ RowsKept /\ FetchKept /\ StruckKept

PagesStrong == ActiveStrong /\ KeysStrong

LEMMA KeysParts ==
    ASSUME KeysTypeOK
    PROVE  /\ apiKeys \in [KeyIds -> [of : SomeOffice, live : BOOLEAN]]
           /\ list \in [rows : [KeyIds -> 0..2], struck : SUBSET KeyIds, of : SomeOffice]
           /\ list.rows \in [KeyIds -> 0..2] /\ list.struck \subseteq KeyIds
           /\ fetch \in [state : {"none", "asked", "read", "failed"}, of : SomeOffice,
                          rows : SUBSET KeyIds, struck : SUBSET KeyIds]
           /\ fetch.rows \subseteq KeyIds /\ fetch.struck \subseteq KeyIds
           /\ submissions \subseteq Submission /\ pageOffice # NoOffice
           /\ \A s \in submissions : s.id \in KeyIds \cup {NoId} /\ s.from \in SomeOffice
           /\ revocations \subseteq [id : KeyIds, state : {"asked", "revoked"}]
           /\ NoOffice \in SomeOffice /\ Offices \subseteq SomeOffice
           /\ office # NoOffice /\ office \in Offices /\ pageOffice \in Offices
BY KeysAssumption DEF KeysTypeOK, Submission, SomeOffice

Pasts == [secret : [KeyIds -> Fates], together : SUBSET KeyIds, crossed : SUBSET KeyIds,
          told : SUBSET KeyIds, outrun : SUBSET KeyIds]

LEMMA Becoming ==
    ASSUME keyPast \in Pasts, NEW K, NEW fate \in Fates
    PROVE  Becomes(K, fate) \in [KeyIds -> Fates]
BY DEF Pasts, Becomes

LEMMA KeysBegin == KeysInit => KeysStrong
<1> SUFFICES ASSUME KeysInit PROVE KeysStrong
  OBVIOUS
<1>0. NoOffice \in SomeOffice /\ office \in SomeOffice
  BY DEF KeysInit, SomeOffice
<1>1. KeysTypeOK
  <2>1. keyPast \in Pasts /\ fetch = Asked
    BY DEF KeysInit, Pasts, Fates
  <2>2. /\ apiKeys \in [KeyIds -> [of : SomeOffice, live : BOOLEAN]]
        /\ list \in [rows : [KeyIds -> 0..2], struck : SUBSET KeyIds, of : SomeOffice]
        /\ fetch \in [state : {"none", "asked", "read", "failed"}, of : SomeOffice,
                       rows : SUBSET KeyIds, struck : SUBSET KeyIds]
    BY <1>0, <2>1 DEF KeysInit, Asked
  <2> QED BY <2>1, <2>2, KeysAssumption DEF KeysInit, KeysTypeOK, Pasts
<1>2. NumberedKeys
  <2>1. \A j \in KeyIds : apiKeys[j].of # NoOffice <=> j <= 0
    BY KeysAssumption DEF KeysInit, KeyIds
  <2> QED BY <2>1, KeysAssumption DEF NumberedKeys
<1>3. RowsForCause /\ RowsKept
  BY DEF KeysInit, RowsForCause, RowsKept, Shown, Asked
<1>4. SecretKept /\ SubmissionsKept /\ DisplayKept /\ FetchKept /\ StruckKept
  BY DEF KeysInit, SecretKept, SubmissionsKept, DisplayKept, FetchKept, StruckKept, Asked
<1> QED BY <1>1, <1>2, <1>3, <1>4 DEF KeysStrong

LEMMA FetchStates ==
    /\ Asked.state = "asked" /\ Asked.of = NoOffice /\ Asked.rows = {} /\ Asked.struck = {}
    /\ Fetched = [state |-> "none", of |-> NoOffice, rows |-> {}, struck |-> {}]
    /\ {Asked, Fetched} \subseteq [state : {"none", "asked", "read", "failed"}, of : SomeOffice,
                                  rows : SUBSET KeyIds, struck : SUBSET KeyIds]
BY DEF Asked, Fetched, SomeOffice

LEMMA SwitchOfficeKeysKeep ==
    ASSUME KeysStrong, NEW o \in Offices, SwitchOffice(o)
    PROVE  KeysStrong'
<1>1. KeysTypeOK
  BY DEF KeysStrong
<1>2. KeysTypeOK'
  BY <1>1, KeysAssumption, KeysParts DEF KeysTypeOK, SwitchOffice
<1>3. SecretKept'
  BY <1>1, KeysParts, KeysAssumption DEF KeysStrong, SecretKept, SwitchOffice
<1>4. RowsForCause'
  BY <1>1, KeysParts, KeysAssumption DEF KeysStrong, RowsForCause, Shown, SwitchOffice
<1>5. NumberedKeys'
  BY <1>1, KeysParts, KeysAssumption DEF KeysStrong, NumberedKeys, SwitchOffice
<1>6. SubmissionsKept'
  BY <1>1, KeysParts, KeysAssumption DEF KeysStrong, SubmissionsKept, Made, Shown, SwitchOffice
<1>7. DisplayKept'
  BY <1>1, KeysParts, KeysAssumption DEF KeysStrong, DisplayKept, SwitchOffice
<1>8. RowsKept'
  BY <1>1, KeysParts, KeysAssumption DEF KeysStrong, RowsKept, Made, SwitchOffice
<1>9. FetchKept'
  BY <1>1, KeysParts, KeysAssumption DEF KeysStrong, FetchKept, Made, SwitchOffice
<1>10. StruckKept'
  BY <1>1, KeysParts, KeysAssumption DEF KeysStrong, StruckKept, Made, SwitchOffice
<1> QED BY <1>2, <1>3, <1>4, <1>5, <1>6, <1>7, <1>8, <1>9, <1>10 DEF KeysStrong

LEMMA PageFollowsKeysKeep ==
    ASSUME KeysStrong, PageFollows
    PROVE  KeysStrong'
<1>1. KeysTypeOK
  BY DEF KeysStrong
<1>2. KeysTypeOK'
  <2>1. submissions' \subseteq Submission
    BY <1>1, KeysParts DEF PageFollows, Submission
  <2>2. pageOffice' \in Offices /\ fetch' = Asked
    BY <1>1, KeysParts DEF PageFollows
  <2> QED BY <1>1, <2>1, <2>2, KeysParts, FetchStates DEF KeysTypeOK, PageFollows, serverVars
<1>3. SecretKept'
  <2>1. submissions' = {[x EXCEPT !.from = NoOffice] : x \in submissions}
    BY DEF PageFollows
  <2>2. \A x \in submissions : [x EXCEPT !.from = NoOffice].id = x.id
    BY <1>1, KeysParts DEF Submission
  <2>3. \A x \in submissions : \E y \in submissions' : y.id = x.id
    BY <2>1, <2>2
  <2>4. SecretKept /\ UNCHANGED <<apiKeys, oneTimeKey, keyPast>>
    BY DEF KeysStrong, PageFollows, serverVars
  <2> QED BY <2>3, <2>4 DEF SecretKept
<1>4. RowsForCause'
  BY <1>1, KeysParts, KeysAssumption DEF KeysStrong, RowsForCause, Shown, PageFollows, Asked, serverVars
<1>5. NumberedKeys'
  BY <1>1, KeysParts, KeysAssumption DEF KeysStrong, NumberedKeys, PageFollows, Asked, serverVars
<1>6. SubmissionsKept'
  <2> SUFFICES ASSUME NEW s \in submissions'
               PROVE  /\ s.state = "created" <=> s.id # NoId
                      /\ s.id # NoId => Made(s.id)' /\ list'.rows[s.id] <= 1
                      /\ s.from = NoOffice
                      /\ ~s.together => submissions' = {s}
                      /\ \A t \in submissions' : s.id # NoId /\ s.id = t.id => s = t
    BY DEF SubmissionsKept
  <2>1. submissions' = {[x EXCEPT !.from = NoOffice] : x \in submissions}
    BY DEF PageFollows
  <2>2. \A x \in submissions :
          /\ [x EXCEPT !.from = NoOffice].id = x.id
          /\ [x EXCEPT !.from = NoOffice].state = x.state
          /\ [x EXCEPT !.from = NoOffice].together = x.together
          /\ [x EXCEPT !.from = NoOffice].from = NoOffice
    BY <1>1, KeysParts DEF Submission
  <2>3. PICK x \in submissions : s = [x EXCEPT !.from = NoOffice]
    BY <2>1
  <2>4. /\ x.state = "created" <=> x.id # NoId
        /\ x.id # NoId => Made(x.id) /\ list.rows[x.id] <= 1
        /\ ~x.together => submissions = {x}
        /\ \A t \in submissions : x.id # NoId /\ x.id = t.id => x = t
    BY DEF KeysStrong, SubmissionsKept
  <2>5. /\ s.id = x.id /\ s.state = x.state /\ s.together = x.together /\ s.from = NoOffice
    BY <2>2, <2>3
  <2>6. Made(x.id)' <=> Made(x.id)
    BY DEF Made, PageFollows, serverVars
  <2>7. list' = list
    BY DEF PageFollows
  <2>8. ~s.together => submissions' = {s}
    BY <2>1, <2>3, <2>4, <2>5
  <2>9. ASSUME NEW t \in submissions', s.id # NoId, s.id = t.id PROVE s = t
    <3>1. PICK y \in submissions : t = [y EXCEPT !.from = NoOffice]
      BY <2>1
    <3>2. y.id = x.id
      BY <2>2, <2>5, <2>9, <3>1
    <3> QED BY <2>3, <2>4, <2>5, <2>9, <3>1, <3>2
  <2> QED BY <2>4, <2>5, <2>6, <2>7, <2>8, <2>9
<1>7. DisplayKept'
  BY <1>1, KeysParts, KeysAssumption DEF KeysStrong, DisplayKept, PageFollows, Asked, serverVars
<1>8. RowsKept'
  BY <1>1, KeysParts, KeysAssumption DEF KeysStrong, RowsKept, Made, PageFollows, Asked, serverVars
<1>9. FetchKept'
  BY <1>1, KeysParts, KeysAssumption DEF KeysStrong, FetchKept, Made, PageFollows, Asked, serverVars
<1>10. StruckKept'
  BY <1>1, KeysParts, KeysAssumption DEF KeysStrong, StruckKept, Made, PageFollows, Asked, serverVars
<1> QED BY <1>2, <1>3, <1>4, <1>5, <1>6, <1>7, <1>8, <1>9, <1>10 DEF KeysStrong

LEMMA ListReadKeysKeep ==
    ASSUME KeysStrong, ListRead
    PROVE  KeysStrong'
<1>1. KeysTypeOK
  BY DEF KeysStrong
<1>2. KeysTypeOK'
  BY <1>1, KeysAssumption, KeysParts DEF KeysTypeOK, ListRead, serverVars
<1>3. SecretKept'
  BY <1>1, KeysParts, KeysAssumption DEF KeysStrong, SecretKept, ListRead, serverVars
<1>4. RowsForCause'
  BY <1>1, KeysParts, KeysAssumption DEF KeysStrong, RowsForCause, Shown, ListRead, serverVars
<1>5. NumberedKeys'
  BY <1>1, KeysParts, KeysAssumption DEF KeysStrong, NumberedKeys, ListRead, serverVars
<1>6. SubmissionsKept'
  BY <1>1, KeysParts, KeysAssumption DEF KeysStrong, SubmissionsKept, Made, Shown, ListRead, serverVars
<1>7. DisplayKept'
  BY <1>1, KeysParts, KeysAssumption DEF KeysStrong, DisplayKept, ListRead, serverVars
<1>8. RowsKept'
  BY <1>1, KeysParts, KeysAssumption DEF KeysStrong, RowsKept, Made, ListRead, serverVars
<1>9. FetchKept'
  BY <1>1, KeysParts, KeysAssumption DEF KeysStrong, FetchKept, Made, ListRead, serverVars
<1>10. StruckKept'
  BY <1>1, KeysParts, KeysAssumption DEF KeysStrong, StruckKept, Made, ListRead, serverVars
<1> QED BY <1>2, <1>3, <1>4, <1>5, <1>6, <1>7, <1>8, <1>9, <1>10 DEF KeysStrong

LEMMA ListArrivesKeysKeep ==
    ASSUME KeysStrong, ListArrives
    PROVE  KeysStrong'
<1>1. KeysTypeOK
  BY DEF KeysStrong
<1>2. KeysTypeOK'
  <2>1. list' \in [rows : [KeyIds -> 0..2], struck : SUBSET KeyIds, of : SomeOffice]
    <3>1. [k \in KeyIds |-> IF k \in fetch.rows THEN 1 ELSE 0] \in [KeyIds -> 0..2]
      OBVIOUS
    <3> QED BY <1>1, <3>1, KeysParts DEF ListArrives
  <2>2. keyPast.told \ fetch.struck \subseteq KeyIds
    BY <1>1 DEF KeysTypeOK
  <2>3. keyPast' \in Pasts
    BY <1>1, <2>2 DEF KeysTypeOK, ListArrives, Pasts
  <2>4. fetch' = Fetched
    BY DEF ListArrives
  <2> QED BY <1>1, <2>1, <2>3, <2>4, FetchStates DEF KeysTypeOK, ListArrives, serverVars, Pasts
<1>3. SecretKept'
  <2>1. SecretKept /\ keyPast \in Pasts
    BY <1>1 DEF KeysStrong, KeysTypeOK, Pasts
  <2>2. keyPast'.secret = keyPast.secret /\ UNCHANGED <<apiKeys, oneTimeKey, submissions>>
    BY <2>1 DEF ListArrives, Pasts, serverVars
  <2> QED BY <2>1, <2>2 DEF SecretKept
<1>4. RowsForCause'
  <2>1. /\ list'.of = fetch.of /\ apiKeys' = apiKeys /\ pageOffice' = pageOffice
        /\ \A k \in KeyIds : list'.rows[k] = IF k \in fetch.rows THEN 1 ELSE 0
        /\ fetch.state = "read"
    BY DEF ListArrives, serverVars
  <2>2. \A k \in fetch.rows : apiKeys[k].of = fetch.of
    BY <2>1 DEF KeysStrong, FetchKept
  <2> QED BY <2>1, <2>2 DEF RowsForCause
<1>5. NumberedKeys'
  BY <1>1, KeysParts, KeysAssumption DEF KeysStrong, NumberedKeys, ListArrives, Fetched, Asked, serverVars
<1>6. SubmissionsKept'
  BY <1>1, KeysParts, KeysAssumption DEF KeysStrong, SubmissionsKept, Made, Shown, ListArrives, Fetched, Asked, serverVars
<1>7. DisplayKept'
  BY <1>1, KeysParts, KeysAssumption DEF KeysStrong, DisplayKept, ListArrives, Fetched, Asked, serverVars
<1>8. RowsKept'
  <2>1. /\ apiKeys' = apiKeys /\ fetch.state = "read"
        /\ \A k \in KeyIds : list'.rows[k] = IF k \in fetch.rows THEN 1 ELSE 0
    BY DEF ListArrives, serverVars
  <2>2. \A k \in fetch.rows : apiKeys[k].of # NoOffice
    BY <2>1 DEF KeysStrong, FetchKept, Made
  <2> QED BY <2>1, <2>2 DEF RowsKept, Made
<1>9. FetchKept'
  BY <1>1, KeysParts, KeysAssumption DEF KeysStrong, FetchKept, Made, ListArrives, Fetched, Asked, serverVars
<1>10. StruckKept'
  <2>1. /\ list'.struck = fetch.struck /\ fetch.state = "read"
        /\ keyPast'.told = keyPast.told
        /\ keyPast'.outrun = keyPast.outrun \cup (keyPast.told \ fetch.struck)
        /\ apiKeys' = apiKeys /\ revocations' = revocations
    BY <1>1 DEF KeysTypeOK, ListArrives, serverVars
  <2>2. StruckKept /\ FetchKept
    BY DEF KeysStrong
  <2> QED BY <2>1, <2>2 DEF StruckKept, FetchKept, Made
<1> QED BY <1>2, <1>3, <1>4, <1>5, <1>6, <1>7, <1>8, <1>9, <1>10 DEF KeysStrong

LEMMA ListFailsKeysKeep ==
    ASSUME KeysStrong, ListFails
    PROVE  KeysStrong'
<1>1. KeysTypeOK
  BY DEF KeysStrong
<1>2. KeysTypeOK'
  <2>1. fetch' = [state |-> "failed", of |-> NoOffice, rows |-> {}, struck |-> {}]
    BY FetchStates DEF ListFails
  <2>2. fetch' \in [state : {"none", "asked", "read", "failed"}, of : SomeOffice,
                    rows : SUBSET KeyIds, struck : SUBSET KeyIds]
    BY <1>1, <2>1, KeysParts
  <2> QED BY <1>1, <2>2 DEF KeysTypeOK, ListFails, serverVars
<1>3. SecretKept'
  BY <1>1, KeysParts, KeysAssumption DEF KeysStrong, SecretKept, ListFails, Fetched, Asked, serverVars
<1>4. RowsForCause'
  BY <1>1, KeysParts, KeysAssumption DEF KeysStrong, RowsForCause, Shown, ListFails, Fetched, Asked, serverVars
<1>5. NumberedKeys'
  BY <1>1, KeysParts, KeysAssumption DEF KeysStrong, NumberedKeys, ListFails, Fetched, Asked, serverVars
<1>6. SubmissionsKept'
  BY <1>1, KeysParts, KeysAssumption DEF KeysStrong, SubmissionsKept, Made, Shown, ListFails, Fetched, Asked, serverVars
<1>7. DisplayKept'
  BY <1>1, KeysParts, KeysAssumption DEF KeysStrong, DisplayKept, ListFails, Fetched, Asked, serverVars
<1>8. RowsKept'
  BY <1>1, KeysParts, KeysAssumption DEF KeysStrong, RowsKept, Made, ListFails, Fetched, Asked, serverVars
<1>9. FetchKept'
  BY <1>1, KeysParts, KeysAssumption DEF KeysStrong, FetchKept, Made, ListFails, Fetched, Asked, serverVars
<1>10. StruckKept'
  BY <1>1, KeysParts, KeysAssumption DEF KeysStrong, StruckKept, Made, ListFails, Fetched, Asked, serverVars
<1> QED BY <1>2, <1>3, <1>4, <1>5, <1>6, <1>7, <1>8, <1>9, <1>10 DEF KeysStrong

LEMMA OpenCreateKeysKeep ==
    ASSUME KeysStrong, OpenCreate
    PROVE  KeysStrong'
<1>1. KeysTypeOK
  BY DEF KeysStrong
<1>2. KeysTypeOK'
  BY <1>1, KeysAssumption, KeysParts DEF KeysTypeOK, OpenCreate, NoDialog, serverVars
<1>3. SecretKept'
  BY <1>1, KeysParts, KeysAssumption DEF KeysStrong, SecretKept, OpenCreate, NoDialog, serverVars
<1>4. RowsForCause'
  BY <1>1, KeysParts, KeysAssumption DEF KeysStrong, RowsForCause, Shown, OpenCreate, NoDialog, serverVars
<1>5. NumberedKeys'
  BY <1>1, KeysParts, KeysAssumption DEF KeysStrong, NumberedKeys, OpenCreate, NoDialog, serverVars
<1>6. SubmissionsKept'
  BY <1>1, KeysParts, KeysAssumption DEF KeysStrong, SubmissionsKept, Made, Shown, OpenCreate, NoDialog, serverVars
<1>7. DisplayKept'
  BY <1>1, KeysParts, KeysAssumption DEF KeysStrong, DisplayKept, OpenCreate, NoDialog, serverVars
<1>8. RowsKept'
  BY <1>1, KeysParts, KeysAssumption DEF KeysStrong, RowsKept, Made, OpenCreate, NoDialog, serverVars
<1>9. FetchKept'
  BY <1>1, KeysParts, KeysAssumption DEF KeysStrong, FetchKept, Made, OpenCreate, NoDialog, serverVars
<1>10. StruckKept'
  BY <1>1, KeysParts, KeysAssumption DEF KeysStrong, StruckKept, Made, OpenCreate, NoDialog, serverVars
<1> QED BY <1>2, <1>3, <1>4, <1>5, <1>6, <1>7, <1>8, <1>9, <1>10 DEF KeysStrong

LEMMA CloseCreateKeysKeep ==
    ASSUME KeysStrong, CloseCreate
    PROVE  KeysStrong'
<1>1. KeysTypeOK
  BY DEF KeysStrong
<1>2. KeysTypeOK'
  BY <1>1, KeysAssumption, KeysParts DEF KeysTypeOK, CloseCreate, serverVars
<1>3. SecretKept'
  BY <1>1, KeysParts, KeysAssumption DEF KeysStrong, SecretKept, CloseCreate, serverVars
<1>4. RowsForCause'
  BY <1>1, KeysParts, KeysAssumption DEF KeysStrong, RowsForCause, Shown, CloseCreate, serverVars
<1>5. NumberedKeys'
  BY <1>1, KeysParts, KeysAssumption DEF KeysStrong, NumberedKeys, CloseCreate, serverVars
<1>6. SubmissionsKept'
  BY <1>1, KeysParts, KeysAssumption DEF KeysStrong, SubmissionsKept, Made, Shown, CloseCreate, serverVars
<1>7. DisplayKept'
  BY <1>1, KeysParts, KeysAssumption DEF KeysStrong, DisplayKept, CloseCreate, serverVars
<1>8. RowsKept'
  BY <1>1, KeysParts, KeysAssumption DEF KeysStrong, RowsKept, Made, CloseCreate, serverVars
<1>9. FetchKept'
  BY <1>1, KeysParts, KeysAssumption DEF KeysStrong, FetchKept, Made, CloseCreate, serverVars
<1>10. StruckKept'
  BY <1>1, KeysParts, KeysAssumption DEF KeysStrong, StruckKept, Made, CloseCreate, serverVars
<1> QED BY <1>2, <1>3, <1>4, <1>5, <1>6, <1>7, <1>8, <1>9, <1>10 DEF KeysStrong

LEMMA SubmitKeyKeysKeep ==
    ASSUME KeysStrong, SubmitKey
    PROVE  KeysStrong'
<1>1. KeysTypeOK
  BY DEF KeysStrong
<1>2. KeysTypeOK'
  <2> DEFINE new == [id |-> NoId, state |-> "asked", from |-> pageOffice,
                     together |-> submissions # {}]
             old(x) == [x EXCEPT !.together = TRUE]
  <2>1. submissions' = {old(x) : x \in submissions} \cup {new}
    BY DEF SubmitKey
  <2>2. \A x \in submissions :
          /\ old(x) \in Submission /\ old(x).together = TRUE
          /\ old(x).id = x.id /\ old(x).state = x.state /\ old(x).from = x.from
    BY <1>1, KeysParts DEF Submission
  <2>3. /\ new \in Submission /\ new.id = NoId /\ new.state = "asked" /\ new.from = pageOffice
        /\ (new.together <=> submissions # {})
    BY <1>1, KeysParts DEF Submission
  <2>4. submissions' \subseteq Submission
    BY <2>1, <2>2, <2>3
  <2> QED BY <1>1, <2>4 DEF KeysTypeOK, SubmitKey, serverVars
<1>3. SecretKept'
  <2>1. submissions' = {[x EXCEPT !.together = TRUE] : x \in submissions}
                       \cup {[id |-> NoId, state |-> "asked", from |-> pageOffice,
                              together |-> submissions # {}]}
    BY DEF SubmitKey
  <2>2. \A x \in submissions : [x EXCEPT !.together = TRUE].id = x.id
    BY <1>1, KeysParts DEF Submission
  <2>3. \A x \in submissions : \E y \in submissions' : y.id = x.id
    BY <2>1, <2>2
  <2>4. SecretKept /\ UNCHANGED <<apiKeys, oneTimeKey, keyPast>>
    BY DEF KeysStrong, SubmitKey, serverVars
  <2> QED BY <2>3, <2>4 DEF SecretKept
<1>4. RowsForCause'
  BY <1>1, KeysParts, KeysAssumption DEF KeysStrong, RowsForCause, Shown, SubmitKey, serverVars
<1>5. NumberedKeys'
  BY <1>1, KeysParts, KeysAssumption DEF KeysStrong, NumberedKeys, SubmitKey, serverVars
<1>6. SubmissionsKept'
  <2> DEFINE new == [id |-> NoId, state |-> "asked", from |-> pageOffice,
                     together |-> submissions # {}]
             old(x) == [x EXCEPT !.together = TRUE]
  <2>1. submissions' = {old(x) : x \in submissions} \cup {new}
    BY DEF SubmitKey
  <2>2. \A x \in submissions :
          /\ old(x) \in Submission /\ old(x).together = TRUE
          /\ old(x).id = x.id /\ old(x).state = x.state /\ old(x).from = x.from
    BY <1>1, KeysParts DEF Submission
  <2>3. /\ new \in Submission /\ new.id = NoId /\ new.state = "asked" /\ new.from = pageOffice
        /\ (new.together <=> submissions # {})
    BY <1>1, KeysParts DEF Submission
  <2> HIDE DEF new, old
  <2>4. /\ list' = list /\ fetch' = fetch /\ pageOffice' = pageOffice /\ fetch.state = "none"
        /\ \A k : Made(k)' <=> Made(k)
    BY DEF SubmitKey, Shown, Made, serverVars
  <2> SUFFICES ASSUME NEW s \in submissions'
               PROVE  /\ s.state = "created" <=> s.id # NoId
                      /\ s.id # NoId => Made(s.id)' /\ list'.rows[s.id] <= 1
                      /\ s.from # NoOffice => /\ fetch'.state = "none" /\ s.from = pageOffice'
                                              /\ s.id # NoId => list'.rows[s.id] = 0
                      /\ ~s.together => submissions' = {s}
                      /\ \A t \in submissions' : s.id # NoId /\ s.id = t.id => s = t
    BY DEF SubmissionsKept
  <2>5. ASSUME NEW x \in submissions
        PROVE  /\ x.state = "created" <=> x.id # NoId
               /\ x.id # NoId => Made(x.id) /\ list.rows[x.id] <= 1
               /\ x.from # NoOffice => /\ fetch.state = "none" /\ x.from = pageOffice
                                       /\ x.id # NoId => list.rows[x.id] = 0
               /\ \A t \in submissions : x.id # NoId /\ x.id = t.id => x = t
    BY DEF KeysStrong, SubmissionsKept
  <2>6. CASE s = new
    <3>1. ~s.together => submissions' = {s}
      BY <2>1, <2>3, <2>6
    <3> QED BY <2>3, <2>4, <2>6, <3>1
  <2>7. ASSUME NEW x \in submissions, s = old(x)
        PROVE  /\ s.state = "created" <=> s.id # NoId
               /\ s.id # NoId => Made(s.id)' /\ list'.rows[s.id] <= 1
               /\ s.from # NoOffice => /\ fetch'.state = "none" /\ s.from = pageOffice'
                                       /\ s.id # NoId => list'.rows[s.id] = 0
               /\ ~s.together => submissions' = {s}
               /\ \A t \in submissions' : s.id # NoId /\ s.id = t.id => s = t
    <3>1. s.id = x.id /\ s.state = x.state /\ s.from = x.from /\ s.together = TRUE
      BY <2>2, <2>7
    <3>2. ASSUME NEW t \in submissions', s.id # NoId, s.id = t.id PROVE s = t
      <4>1. PICK y \in submissions : t = old(y)
        BY <2>1, <2>3, <3>2
      <4>2. y = x
        <5>1. y.id = t.id /\ y.id = x.id /\ x.id # NoId
          BY <2>2, <3>1, <3>2, <4>1
        <5> QED BY <2>5, <5>1
      <4> QED BY <2>7, <4>1, <4>2
    <3> QED BY <2>4, <2>5, <3>1, <3>2
  <2> QED BY <2>1, <2>6, <2>7
<1>7. DisplayKept'
  BY <1>1, KeysParts, KeysAssumption DEF KeysStrong, DisplayKept, SubmitKey, serverVars
<1>8. RowsKept'
  BY <1>1, KeysParts, KeysAssumption DEF KeysStrong, RowsKept, Made, SubmitKey, serverVars
<1>9. FetchKept'
  BY <1>1, KeysParts, KeysAssumption DEF KeysStrong, FetchKept, Made, SubmitKey, serverVars
<1>10. StruckKept'
  BY <1>1, KeysParts, KeysAssumption DEF KeysStrong, StruckKept, Made, SubmitKey, serverVars
<1> QED BY <1>2, <1>3, <1>4, <1>5, <1>6, <1>7, <1>8, <1>9, <1>10 DEF KeysStrong

LEMMA SubmissionFailsIs ==
    ASSUME KeysStrong, NEW s \in submissions, SubmissionFails(s)
    PROVE  /\ keyPast' \in Pasts
           /\ \A k \in KeyIds : keyPast'.secret[k] =
                  IF k = s.id THEN "unanswered" ELSE keyPast.secret[k]
           /\ \A f \in {"together", "crossed", "told", "outrun"} : keyPast'[f] = keyPast[f]
<1>1. keyPast \in Pasts
  BY DEF KeysStrong, KeysTypeOK, Pasts
<1> DEFINE b == Becomes({s.id}, "unanswered")
<1>2. b \in [KeyIds -> Fates] /\ keyPast' = [keyPast EXCEPT !.secret = b]
  BY <1>1, Becoming DEF SubmissionFails, Fates
<1>3. \A k \in KeyIds : b[k] = IF k = s.id THEN "unanswered" ELSE keyPast.secret[k]
  BY DEF Becomes
<1> HIDE DEF b
<1> QED BY <1>1, <1>2, <1>3 DEF Pasts

LEMMA DoneIs ==
    ASSUME KeysStrong, Done
    PROVE  /\ keyPast' \in Pasts
           /\ \A k \in KeyIds : keyPast'.secret[k] =
                  IF k = oneTimeKey THEN "done" ELSE keyPast.secret[k]
           /\ \A f \in {"crossed", "told", "outrun"} : keyPast'[f] = keyPast[f]
<1>1. keyPast \in Pasts
  BY DEF KeysStrong, KeysTypeOK, Pasts
<1> DEFINE b == Becomes({oneTimeKey}, "done")
<1>2. b \in [KeyIds -> Fates] /\ keyPast' = [keyPast EXCEPT !.together = {}, !.secret = b]
  BY <1>1, Becoming DEF Done, Fates
<1>3. \A k \in KeyIds : b[k] = IF k = oneTimeKey THEN "done" ELSE keyPast.secret[k]
  BY DEF Becomes
<1> HIDE DEF b
<1> QED BY <1>1, <1>2, <1>3 DEF Pasts

LEMMA ReloadIs ==
    ASSUME KeysStrong, Reload
    PROVE  /\ keyPast' \in Pasts
           /\ \A k \in KeyIds : keyPast'.secret[k] =
                  IF k = oneTimeKey THEN "reloaded"
                  ELSE IF \E s \in submissions : s.id = k THEN "unanswered"
                  ELSE keyPast.secret[k]
           /\ keyPast'.crossed = keyPast.crossed
           /\ keyPast'.told = {} /\ keyPast'.outrun = {}
<1>1. keyPast \in Pasts
  BY DEF KeysStrong, KeysTypeOK, Pasts
<1> DEFINE b == [k \in KeyIds |-> IF k = oneTimeKey THEN "reloaded"
                                 ELSE IF \E s \in submissions : s.id = k THEN "unanswered"
                                 ELSE keyPast.secret[k]]
<1>2. keyPast' = [keyPast EXCEPT !.secret = b, !.together = {}, !.told = {}, !.outrun = {}]
  BY DEF Reload
<1>3. b \in [KeyIds -> Fates]
  BY <1>1 DEF Fates, Pasts
<1>4. \A k \in KeyIds : b[k] = IF k = oneTimeKey THEN "reloaded"
                               ELSE IF \E s \in submissions : s.id = k THEN "unanswered"
                               ELSE keyPast.secret[k]
  OBVIOUS
<1> HIDE DEF b
<1> QED BY <1>1, <1>2, <1>3, <1>4 DEF Pasts

LEMMA SubmissionFailsKeysKeep ==
    ASSUME KeysStrong, NEW s \in submissions, SubmissionFails(s)
    PROVE  KeysStrong'
<1>1. KeysTypeOK
  BY DEF KeysStrong
<1>2. KeysTypeOK'
  <2>1. keyPast' \in Pasts
    BY SubmissionFailsIs
  <2> QED BY <1>1, <2>1, KeysAssumption, KeysParts DEF KeysTypeOK, SubmissionFails, serverVars, Pasts
<1>3. SecretKept'
  <2>1. /\ SecretKept /\ UNCHANGED <<apiKeys, oneTimeKey>> /\ submissions' = submissions \ {s}
    BY DEF KeysStrong, SubmissionFails, serverVars
  <2>2. \A k \in KeyIds : keyPast'.secret[k] = "kept" => k # s.id /\ keyPast.secret[k] = "kept"
    BY SubmissionFailsIs
  <2> QED BY <2>1, <2>2 DEF SecretKept
<1>4. RowsForCause'
  BY <1>1, KeysParts, KeysAssumption DEF KeysStrong, RowsForCause, Shown, SubmissionFails, serverVars
<1>5. NumberedKeys'
  BY <1>1, KeysParts, KeysAssumption DEF KeysStrong, NumberedKeys, SubmissionFails, serverVars
<1>6. SubmissionsKept'
  BY <1>1, KeysParts, KeysAssumption DEF KeysStrong, SubmissionsKept, Made, Shown, SubmissionFails, serverVars
<1>7. DisplayKept'
  BY <1>1, KeysParts, KeysAssumption DEF KeysStrong, DisplayKept, SubmissionFails, serverVars
<1>8. RowsKept'
  BY <1>1, KeysParts, KeysAssumption DEF KeysStrong, RowsKept, Made, SubmissionFails, serverVars
<1>9. FetchKept'
  BY <1>1, KeysParts, KeysAssumption DEF KeysStrong, FetchKept, Made, SubmissionFails, serverVars
<1>10. StruckKept'
  BY <1>1, KeysParts, KeysAssumption DEF KeysStrong, StruckKept, Made, SubmissionFails, serverVars
<1> QED BY <1>2, <1>3, <1>4, <1>5, <1>6, <1>7, <1>8, <1>9, <1>10 DEF KeysStrong

LEMMA DoneKeysKeep ==
    ASSUME KeysStrong, Done
    PROVE  KeysStrong'
<1>1. KeysTypeOK
  BY DEF KeysStrong
<1>2. KeysTypeOK'
  <2>1. keyPast' \in Pasts
    BY DoneIs
  <2> QED BY <1>1, <2>1, KeysAssumption, KeysParts DEF KeysTypeOK, Done, serverVars, Pasts
<1>3. SecretKept'
  <2>1. /\ SecretKept /\ UNCHANGED <<apiKeys, submissions>>
    BY DEF KeysStrong, Done, serverVars
  <2>2. \A k \in KeyIds : keyPast'.secret[k] = "kept" => k # oneTimeKey /\ keyPast.secret[k] = "kept"
    BY DoneIs
  <2> QED BY <2>1, <2>2 DEF SecretKept
<1>4. RowsForCause'
  BY <1>1, KeysParts, KeysAssumption DEF KeysStrong, RowsForCause, Shown, Done, serverVars
<1>5. NumberedKeys'
  BY <1>1, KeysParts, KeysAssumption DEF KeysStrong, NumberedKeys, Done, serverVars
<1>6. SubmissionsKept'
  BY <1>1, KeysParts, KeysAssumption DEF KeysStrong, SubmissionsKept, Made, Shown, Done, serverVars
<1>7. DisplayKept'
  BY <1>1, KeysParts, KeysAssumption DEF KeysStrong, DisplayKept, Done, serverVars
<1>8. RowsKept'
  BY <1>1, KeysParts, KeysAssumption DEF KeysStrong, RowsKept, Made, Done, serverVars
<1>9. FetchKept'
  BY <1>1, KeysParts, KeysAssumption DEF KeysStrong, FetchKept, Made, Done, serverVars
<1>10. StruckKept'
  BY <1>1, KeysParts, KeysAssumption DEF KeysStrong, StruckKept, Made, Done, serverVars
<1> QED BY <1>2, <1>3, <1>4, <1>5, <1>6, <1>7, <1>8, <1>9, <1>10 DEF KeysStrong

LEMMA RevokeClickKeysKeep ==
    ASSUME KeysStrong, NEW k \in KeyIds, RevokeClick(k)
    PROVE  KeysStrong'
<1>1. KeysTypeOK
  BY DEF KeysStrong
<1>2. KeysTypeOK'
  BY <1>1, KeysAssumption, KeysParts DEF KeysTypeOK, RevokeClick, serverVars
<1>3. SecretKept'
  BY <1>1, KeysParts, KeysAssumption DEF KeysStrong, SecretKept, RevokeClick, serverVars
<1>4. RowsForCause'
  BY <1>1, KeysParts, KeysAssumption DEF KeysStrong, RowsForCause, Shown, RevokeClick, serverVars
<1>5. NumberedKeys'
  BY <1>1, KeysParts, KeysAssumption DEF KeysStrong, NumberedKeys, RevokeClick, serverVars
<1>6. SubmissionsKept'
  BY <1>1, KeysParts, KeysAssumption DEF KeysStrong, SubmissionsKept, Made, Shown, RevokeClick, serverVars
<1>7. DisplayKept'
  BY <1>1, KeysParts, KeysAssumption DEF KeysStrong, DisplayKept, RevokeClick, serverVars
<1>8. RowsKept'
  BY <1>1, KeysParts, KeysAssumption DEF KeysStrong, RowsKept, Made, RevokeClick, serverVars
<1>9. FetchKept'
  BY <1>1, KeysParts, KeysAssumption DEF KeysStrong, FetchKept, Made, RevokeClick, serverVars
<1>10. StruckKept'
  BY <1>1, KeysParts, KeysAssumption DEF KeysStrong, StruckKept, Made, RevokeClick, serverVars
<1> QED BY <1>2, <1>3, <1>4, <1>5, <1>6, <1>7, <1>8, <1>9, <1>10 DEF KeysStrong

LEMMA RevokeCloseKeysKeep ==
    ASSUME KeysStrong, RevokeClose
    PROVE  KeysStrong'
<1>1. KeysTypeOK
  BY DEF KeysStrong
<1>2. KeysTypeOK'
  BY <1>1, KeysAssumption, KeysParts DEF KeysTypeOK, RevokeClose, serverVars
<1>3. SecretKept'
  BY <1>1, KeysParts, KeysAssumption DEF KeysStrong, SecretKept, RevokeClose, serverVars
<1>4. RowsForCause'
  BY <1>1, KeysParts, KeysAssumption DEF KeysStrong, RowsForCause, Shown, RevokeClose, serverVars
<1>5. NumberedKeys'
  BY <1>1, KeysParts, KeysAssumption DEF KeysStrong, NumberedKeys, RevokeClose, serverVars
<1>6. SubmissionsKept'
  BY <1>1, KeysParts, KeysAssumption DEF KeysStrong, SubmissionsKept, Made, Shown, RevokeClose, serverVars
<1>7. DisplayKept'
  BY <1>1, KeysParts, KeysAssumption DEF KeysStrong, DisplayKept, RevokeClose, serverVars
<1>8. RowsKept'
  BY <1>1, KeysParts, KeysAssumption DEF KeysStrong, RowsKept, Made, RevokeClose, serverVars
<1>9. FetchKept'
  BY <1>1, KeysParts, KeysAssumption DEF KeysStrong, FetchKept, Made, RevokeClose, serverVars
<1>10. StruckKept'
  BY <1>1, KeysParts, KeysAssumption DEF KeysStrong, StruckKept, Made, RevokeClose, serverVars
<1> QED BY <1>2, <1>3, <1>4, <1>5, <1>6, <1>7, <1>8, <1>9, <1>10 DEF KeysStrong

LEMMA ReloadKeysKeep ==
    ASSUME KeysStrong, Reload
    PROVE  KeysStrong'
<1>1. KeysTypeOK
  BY DEF KeysStrong
<1>2. KeysTypeOK'
  <2>1. /\ [rows |-> [k \in KeyIds |-> 0], struck |-> {}, of |-> NoOffice]
             \in [rows : [KeyIds -> 0..2], struck : SUBSET KeyIds, of : SomeOffice]
        /\ Asked \in [state : {"none", "asked", "read", "failed"}, of : SomeOffice,
                      rows : SUBSET KeyIds, struck : SUBSET KeyIds]
    BY <1>1, KeysParts, FetchStates
  <2>2. keyPast' \in Pasts
    BY ReloadIs
  <2> QED BY <1>1, <2>1, <2>2, KeysParts DEF KeysTypeOK, Reload, serverVars, Pasts
<1>3. SecretKept'
  <2>1. /\ SecretKept /\ UNCHANGED apiKeys
    BY DEF KeysStrong, Reload, serverVars
  <2>2. \A k \in KeyIds : keyPast'.secret[k] = "kept" =>
            /\ k # oneTimeKey /\ keyPast.secret[k] = "kept"
            /\ \A s \in submissions : s.id # k
    BY ReloadIs
  <2> QED BY <2>1, <2>2 DEF SecretKept
<1>4. RowsForCause'
  BY <1>1, KeysParts, KeysAssumption DEF KeysStrong, RowsForCause, Shown, Reload, Asked, serverVars
<1>5. NumberedKeys'
  BY <1>1, KeysParts, KeysAssumption DEF KeysStrong, NumberedKeys, Reload, Asked, serverVars
<1>6. SubmissionsKept'
  BY <1>1, KeysParts, KeysAssumption DEF KeysStrong, SubmissionsKept, Made, Shown, Reload, Asked, serverVars
<1>7. DisplayKept'
  BY <1>1, KeysParts, KeysAssumption DEF KeysStrong, DisplayKept, Reload, Asked, serverVars
<1>8. RowsKept'
  BY <1>1, KeysParts, KeysAssumption DEF KeysStrong, RowsKept, Made, Reload, Asked, serverVars
<1>9. FetchKept'
  BY <1>1, KeysParts, KeysAssumption DEF KeysStrong, FetchKept, Made, Reload, Asked, serverVars
<1>10. StruckKept'
  BY <1>1, KeysParts, KeysAssumption DEF KeysStrong, StruckKept, Made, Reload, Asked, serverVars
<1> QED BY <1>2, <1>3, <1>4, <1>5, <1>6, <1>7, <1>8, <1>9, <1>10 DEF KeysStrong

LEMMA NewKeyIsNew ==
    ASSUME KeysStrong, NEW s \in submissions, NEW k \in KeyIds, InsertKey(s, k)
    PROVE  /\ ~Made(k) /\ Made(k)' /\ NumberedKeys' /\ apiKeys'[k] = [of |-> office, live |-> TRUE]
           /\ \A j \in KeyIds \ {k} : apiKeys'[j] = apiKeys[j] /\ (Made(j)' <=> Made(j))
           /\ apiKeys' \in [KeyIds -> [of : SomeOffice, live : BOOLEAN]]
<1>1. KeysTypeOK /\ NumberedKeys
  BY DEF KeysStrong
<1>2. PICK n \in 0..MaxKeys : \A j \in KeyIds : apiKeys[j].of # NoOffice <=> j <= n
  BY <1>1 DEF NumberedKeys
<1>3. n \in Nat /\ MaxKeys \in Nat /\ n <= MaxKeys
  BY <1>2, KeysAssumption
<1>4. {j \in KeyIds : apiKeys[j].of # NoOffice} = 1..n
  <2>1. \A j : j \in KeyIds /\ j <= n <=> j \in 1..n
    BY <1>3 DEF KeyIds
  <2> QED BY <1>2, <2>1
<1>5. k = n + 1
  <2>1. Cardinality(1..n) = n
    <3>1. Cardinality(1..n) = IF 1 > n THEN 0 ELSE n - 1 + 1
      BY <1>3, FS_Interval
    <3> QED BY <1>3, <3>1
  <2> QED BY <1>4, <2>1 DEF InsertKey
<1>6. apiKeys' = [apiKeys EXCEPT ![k] = [of |-> office, live |-> TRUE]]
  BY DEF InsertKey
<1>7. /\ apiKeys'[k] = [of |-> office, live |-> TRUE]
      /\ \A j \in KeyIds \ {k} : apiKeys'[j] = apiKeys[j]
      /\ apiKeys' \in [KeyIds -> [of : SomeOffice, live : BOOLEAN]]
  BY <1>1, <1>6, KeysParts
<1>8. ~Made(k) /\ Made(k)' /\ \A j \in KeyIds \ {k} : Made(j)' <=> Made(j)
  <2>1. ~(k <= n)
    BY <1>3, <1>5
  <2>2. ~Made(k)
    BY <1>2, <2>1 DEF Made
  <2>3. office # NoOffice
    BY <1>1, KeysParts, KeysAssumption DEF KeysTypeOK
  <2>4. Made(k)'
    BY <1>7, <2>3 DEF Made
  <2>5. \A j \in KeyIds \ {k} : Made(j)' <=> Made(j)
    BY <1>7 DEF Made
  <2> QED BY <2>2, <2>4, <2>5
<1>9. NumberedKeys'
  <2>1. n + 1 \in 0..MaxKeys
    BY <1>2, <1>5, KeysAssumption DEF KeyIds
  <2>2. \A j \in KeyIds : apiKeys'[j].of # NoOffice <=> j <= n + 1
    <3> SUFFICES ASSUME NEW j \in KeyIds PROVE apiKeys'[j].of # NoOffice <=> j <= n + 1
      OBVIOUS
    <3>1. j \in Nat /\ n \in Nat
      BY <1>2, KeysAssumption DEF KeyIds
    <3> QED BY <1>2, <1>5, <1>8, <3>1 DEF Made
  <2> QED BY <2>1, <2>2 DEF NumberedKeys
<1> QED BY <1>7, <1>8, <1>9

LEMMA InsertKeyKeysKeep ==
    ASSUME KeysStrong, NEW s \in submissions, NEW k \in KeyIds, InsertKey(s, k)
    PROVE  KeysStrong'
<1>1. KeysTypeOK
  BY DEF KeysStrong
<1>2. KeysTypeOK'
  <2> DEFINE t == [s EXCEPT !.state = "created", !.id = k]
  <2>1. submissions' = (submissions \ {s}) \cup {t} /\ s.state = "asked"
    BY DEF InsertKey, Answer
  <2>2. /\ t \in Submission /\ t.id = k /\ t.state = "created" /\ t.from = s.from
        /\ t.together = s.together /\ k # NoId
    <3>1. s \in Submission
      BY <1>1, KeysParts
    <3>2. DOMAIN s = {"id", "state", "from", "together"}
      BY <3>1 DEF Submission
    <3>3. /\ t.id = k /\ t.state = "created" /\ t.from = s.from /\ t.together = s.together
      BY <3>2
    <3>4. k # NoId
      BY KeysAssumption DEF KeyIds, NoId
    <3>5. t \in Submission
      <4> DEFINE u == [s EXCEPT !.state = "created"]
      <4>1. u \in Submission
        BY <3>1 DEF Submission
      <4>2. t = [u EXCEPT !.id = k]
        OBVIOUS
      <4> HIDE DEF u, t
      <4> QED BY <4>1, <4>2 DEF Submission
    <3> QED BY <3>3, <3>4, <3>5
  <2>3. submissions' \subseteq Submission
    BY <1>1, <2>1, <2>2, KeysParts
  <2> QED BY <1>1, <2>3, NewKeyIsNew DEF KeysTypeOK, InsertKey
<1>3. SecretKept'
  <2> DEFINE t == [s EXCEPT !.state = "created", !.id = k]
  <2>1. /\ SecretKept /\ UNCHANGED <<oneTimeKey, keyPast>>
        /\ submissions' = (submissions \ {s}) \cup {t} /\ s.state = "asked"
    BY DEF KeysStrong, InsertKey, Answer
  <2>2. t.id = k
    <3>1. DOMAIN s = {"id", "state", "from", "together"}
      BY <1>1, KeysParts DEF Submission
    <3> QED BY <3>1
  <2> HIDE DEF t
  <2>3. s.id = NoId
    BY <1>1, <2>1, KeysParts DEF KeysStrong, SubmissionsKept
  <2> SUFFICES ASSUME NEW j \in KeyIds, apiKeys'[j].of # NoOffice, keyPast.secret[j] = "kept"
               PROVE  j = oneTimeKey \/ \E x \in submissions' : x.id = j
    BY <2>1 DEF SecretKept
  <2>4. CASE j = k
    BY <2>1, <2>2, <2>4
  <2>5. CASE j # k
    <3>1. apiKeys[j].of # NoOffice
      BY <2>5, NewKeyIsNew
    <3>2. j # NoId
      BY KeysAssumption DEF KeyIds, NoId
    <3>3. j = oneTimeKey \/ \E x \in submissions : x.id = j
      BY <2>1, <3>1 DEF SecretKept
    <3> QED BY <2>1, <2>3, <3>2, <3>3
  <2> QED BY <2>4, <2>5
<1>4. RowsForCause'
  <2>1. /\ UNCHANGED <<pageOffice, list, fetch, keyPast, revocations>>
    BY DEF InsertKey
  <2>2. /\ list.struck \subseteq KeyIds /\ fetch.rows \subseteq KeyIds /\ fetch.struck \subseteq KeyIds
        /\ \A v \in revocations : v.id \in KeyIds
    BY <1>1, KeysParts
  <2>3. RowsForCause /\ RowsKept
    BY DEF KeysStrong
  <2> QED BY <2>1, <2>3, NewKeyIsNew DEF RowsForCause, RowsKept, Shown
<1>5. NumberedKeys'
  BY NewKeyIsNew
<1>6. SubmissionsKept'
  <2> DEFINE t == [s EXCEPT !.state = "created", !.id = k]
  <2>1. submissions' = (submissions \ {s}) \cup {t} /\ s.state = "asked"
    BY DEF InsertKey, Answer
  <2>2. /\ t \in Submission /\ t.id = k /\ t.state = "created" /\ t.from = s.from
        /\ t.together = s.together /\ k # NoId
    <3>1. s \in Submission
      BY <1>1, KeysParts
    <3>2. DOMAIN s = {"id", "state", "from", "together"}
      BY <3>1 DEF Submission
    <3>3. /\ t.id = k /\ t.state = "created" /\ t.from = s.from /\ t.together = s.together
      BY <3>2
    <3>4. k # NoId
      BY KeysAssumption DEF KeyIds, NoId
    <3>5. t \in Submission
      <4> DEFINE u == [s EXCEPT !.state = "created"]
      <4>1. u \in Submission
        BY <3>1 DEF Submission
      <4>2. t = [u EXCEPT !.id = k]
        OBVIOUS
      <4> HIDE DEF u, t
      <4> QED BY <4>1, <4>2 DEF Submission
    <3> QED BY <3>3, <3>4, <3>5
  <2> HIDE DEF t
  <2>3. UNCHANGED <<pageOffice, list, fetch>> /\ s.id = NoId /\ list.rows[k] = 0
    <3>1. RowsKept /\ SubmissionsKept /\ ~Made(k)
      BY NewKeyIsNew DEF KeysStrong
    <3>2. list.rows[k] \in 0..2 /\ s.id \in KeyIds \cup {NoId}
      BY <1>1, KeysParts
    <3>3. list.rows[k] = 0
      BY <3>1, <3>2 DEF RowsKept
    <3>4. s.id = NoId
      BY <2>1, <3>1, <3>2 DEF SubmissionsKept
    <3> QED BY <3>3, <3>4 DEF InsertKey
  <2>4. ASSUME NEW x \in submissions
        PROVE  /\ x.state = "created" <=> x.id # NoId
               /\ x.id # NoId => Made(x.id) /\ list.rows[x.id] <= 1
               /\ x.from # NoOffice => /\ fetch.state = "none" /\ x.from = pageOffice
                                       /\ x.id # NoId => list.rows[x.id] = 0
               /\ ~x.together => submissions = {x}
               /\ \A y \in submissions : x.id # NoId /\ x.id = y.id => x = y
               /\ x.id \in KeyIds \cup {NoId}
    BY <1>1, KeysParts DEF KeysStrong, SubmissionsKept
  <2>5. \A x \in submissions : x.id # k /\ (x.id # NoId => Made(x.id)')
    BY <2>2, <2>4, NewKeyIsNew
  <2>6. ASSUME NEW x \in submissions'
        PROVE  /\ x.state = "created" <=> x.id # NoId
               /\ x.id # NoId => Made(x.id)' /\ list'.rows[x.id] <= 1
               /\ x.from # NoOffice => /\ fetch'.state = "none" /\ x.from = pageOffice'
                                       /\ x.id # NoId => list'.rows[x.id] = 0
               /\ ~x.together => submissions' = {x}
               /\ \A y \in submissions' : x.id # NoId /\ x.id = y.id => x = y
    <3>1. CASE x = t
      <4>1. Made(x.id)' /\ list'.rows[x.id] = 0
        BY <2>2, <2>3, <3>1, NewKeyIsNew
      <4>2. ~x.together => submissions' = {x}
        BY <2>1, <2>2, <2>4, <3>1
      <4>3. \A y \in submissions' : x.id = y.id => x = y
        BY <2>1, <2>2, <2>5, <3>1
      <4> QED BY <2>2, <2>3, <2>4, <3>1, <4>1, <4>2, <4>3
    <3>2. CASE x \in submissions \ {s}
      <4>1. x.together
        BY <2>4, <3>2
      <4>2. \A y \in submissions' : x.id # NoId /\ x.id = y.id => x = y
        BY <2>1, <2>2, <2>4, <2>5, <3>2
      <4> QED BY <2>3, <2>4, <2>5, <3>2, <4>1, <4>2
    <3> QED BY <2>1, <3>1, <3>2
  <2> QED BY <2>6 DEF SubmissionsKept
<1>7. DisplayKept'
  BY <1>1, KeysParts, KeysAssumption DEF KeysStrong, DisplayKept, InsertKey
<1>8. RowsKept'
  <2>1. /\ UNCHANGED <<pageOffice, list, fetch, keyPast, revocations>>
    BY DEF InsertKey
  <2>2. /\ list.struck \subseteq KeyIds /\ fetch.rows \subseteq KeyIds /\ fetch.struck \subseteq KeyIds
        /\ \A v \in revocations : v.id \in KeyIds
    BY <1>1, KeysParts
  <2>3. RowsKept
    BY DEF KeysStrong
  <2> QED BY <2>1, <2>3, NewKeyIsNew DEF RowsKept
<1>9. FetchKept'
  <2>1. /\ UNCHANGED <<pageOffice, list, fetch, keyPast, revocations>>
    BY DEF InsertKey
  <2>2. /\ list.struck \subseteq KeyIds /\ fetch.rows \subseteq KeyIds /\ fetch.struck \subseteq KeyIds
        /\ \A v \in revocations : v.id \in KeyIds
    BY <1>1, KeysParts
  <2>3. FetchKept
    BY DEF KeysStrong
  <2> QED BY <2>1, <2>2, <2>3, NewKeyIsNew DEF FetchKept
<1>10. StruckKept'
  <2>1. /\ UNCHANGED <<pageOffice, list, fetch, keyPast, revocations>>
    BY DEF InsertKey
  <2>2. /\ list.struck \subseteq KeyIds /\ fetch.rows \subseteq KeyIds /\ fetch.struck \subseteq KeyIds
        /\ \A v \in revocations : v.id \in KeyIds
    BY <1>1, KeysParts
  <2>3. StruckKept
    BY DEF KeysStrong
  <2> QED BY <2>1, <2>2, <2>3, NewKeyIsNew DEF StruckKept
<1> QED BY <1>2, <1>3, <1>4, <1>5, <1>6, <1>7, <1>8, <1>9, <1>10 DEF KeysStrong

LEMMA KeyArrivesIs ==
    ASSUME KeysStrong, NEW s \in submissions, KeyArrives(s)
    PROVE  /\ list'.struck = list.struck /\ list'.of = list.of
           /\ \A j \in KeyIds : list'.rows[j] = IF j = s.id THEN list.rows[j] + 1 ELSE list.rows[j]
           /\ keyPast' \in Pasts
           /\ \A j \in KeyIds : keyPast'.secret[j] = IF j \in {oneTimeKey} \cap keyPast.together
                                                  THEN "replaced" ELSE keyPast.secret[j]
           /\ keyPast'.together = IF s.together THEN {s.id} ELSE {}
           /\ keyPast'.crossed = IF s.from = apiKeys[s.id].of THEN keyPast.crossed
                                 ELSE keyPast.crossed \cup {s.id}
           /\ keyPast'.told = keyPast.told /\ keyPast'.outrun = keyPast.outrun
           /\ s.id # NoId /\ s.id \in KeyIds /\ Made(s.id) /\ list.rows[s.id] <= 1
           /\ s.from # NoOffice => fetch.state = "none" /\ s.from = pageOffice /\ list.rows[s.id] = 0
           /\ ~s.together => submissions = {s}
           /\ \A t \in submissions : s.id = t.id => s = t
           /\ list.rows \in [KeyIds -> 0..2]
<1>1. KeysTypeOK /\ keyPast \in Pasts
  BY DEF KeysStrong, KeysTypeOK, Pasts
<1>2. /\ list'.struck = list.struck /\ list'.of = list.of
      /\ \A j \in KeyIds : list'.rows[j] = IF j = s.id THEN list.rows[j] + 1 ELSE list.rows[j]
  BY <1>1, KeysParts DEF KeyArrives
<1>3. /\ s.id # NoId /\ s.id \in KeyIds /\ Made(s.id) /\ list.rows[s.id] <= 1
      /\ s.from # NoOffice => fetch.state = "none" /\ s.from = pageOffice /\ list.rows[s.id] = 0
      /\ ~s.together => submissions = {s}
      /\ \A t \in submissions : s.id = t.id => s = t
      /\ list.rows \in [KeyIds -> 0..2]
  BY <1>1, KeysParts DEF KeysStrong, SubmissionsKept, KeyArrives
<1> DEFINE f == Becomes({oneTimeKey} \cap keyPast.together, "replaced")
           g == IF s.together THEN {s.id} ELSE {}
           h == IF s.from = apiKeys[s.id].of THEN keyPast.crossed ELSE keyPast.crossed \cup {s.id}
<1>4. keyPast' = [keyPast EXCEPT !.secret = f, !.together = g, !.crossed = h]
  BY DEF KeyArrives
<1>5. f \in [KeyIds -> Fates] /\ g \subseteq KeyIds /\ h \subseteq KeyIds
  BY <1>1, <1>3, Becoming DEF Pasts, Fates
<1>6. \A j \in KeyIds : f[j] = IF j \in {oneTimeKey} \cap keyPast.together
                               THEN "replaced" ELSE keyPast.secret[j]
  BY DEF Becomes
<1> HIDE DEF f, g, h
<1>7. /\ keyPast' \in Pasts /\ keyPast'.secret = f /\ keyPast'.together = g
      /\ keyPast'.crossed = h /\ keyPast'.told = keyPast.told /\ keyPast'.outrun = keyPast.outrun
  BY <1>1, <1>4, <1>5 DEF Pasts
<1> QED BY <1>2, <1>3, <1>6, <1>7 DEF g, h

LEMMA ArrivedRow ==
    ASSUME KeysStrong, NEW s \in submissions, KeyArrives(s)
    PROVE  /\ apiKeys[s.id].of = pageOffice \/ s.id \in keyPast'.crossed
           /\ list'.rows[s.id] > 1 => s.id \in keyPast'.crossed
<1>1. CASE s.from = apiKeys[s.id].of
  <2>1. s.from # NoOffice
    BY <1>1, KeyArrivesIs DEF Made
  <2>2. s.from = pageOffice /\ list.rows[s.id] = 0 /\ s.id \in KeyIds
    BY <2>1, KeyArrivesIs
  <2>3. list'.rows[s.id] = list.rows[s.id] + 1
    BY <2>2, KeyArrivesIs
  <2> QED BY <1>1, <2>2, <2>3
<1>2. CASE s.from # apiKeys[s.id].of
  <2>1. keyPast'.crossed = keyPast.crossed \cup {s.id}
    BY <1>2, KeyArrivesIs
  <2> QED BY <2>1
<1> QED BY <1>1, <1>2

LEMMA KeyArrivesKeysKeep ==
    ASSUME KeysStrong, NEW s \in submissions, KeyArrives(s)
    PROVE  KeysStrong'
<1>1. KeysTypeOK
  BY DEF KeysStrong
<1>2. KeysTypeOK'
  <2>4. list' \in [rows : [KeyIds -> 0..2], struck : SUBSET KeyIds, of : SomeOffice]
    <3>1. list.rows[s.id] + 1 \in 0..2
      <4>1. list.rows[s.id] \in 0..2 /\ list.rows[s.id] <= 1
        BY KeyArrivesIs
      <4> QED BY <4>1
    <3>2. [list.rows EXCEPT ![s.id] = @ + 1] \in [KeyIds -> 0..2]
      BY KeyArrivesIs, <3>1
    <3> QED BY <1>1, <3>2, KeysParts DEF KeyArrives
  <2>5. keyPast' \in Pasts
    BY KeyArrivesIs
  <2>6. oneTimeKey' \in KeyIds \cup {NoId} /\ creation' \in [open : BOOLEAN, submitting : BOOLEAN]
        /\ submissions' \subseteq Submission
    BY <1>1, KeyArrivesIs, KeysParts DEF KeyArrives
  <2>7. UNCHANGED <<switches, office, pageOffice, apiKeys, fetch, revokeTarget, revocations>>
    BY DEF KeyArrives, serverVars
  <2> HIDE DEF KeyArrives
  <2> QED BY <1>1, <2>4, <2>5, <2>6, <2>7 DEF KeysTypeOK, Pasts
<1>3. SecretKept'
  <2>1. SecretKept /\ SubmissionsKept /\ DisplayKept
    BY DEF KeysStrong
  <2>2. /\ oneTimeKey' = s.id /\ submissions' = submissions \ {s} /\ apiKeys' = apiKeys
        /\ oneTimeKey # NoId => oneTimeKey \in keyPast.together
    BY <2>1 DEF KeyArrives, serverVars, DisplayKept
  <2> SUFFICES ASSUME NEW k \in KeyIds, apiKeys[k].of # NoOffice, keyPast'.secret[k] = "kept"
               PROVE  k = oneTimeKey' \/ \E x \in submissions' : x.id = k
    BY <2>2 DEF SecretKept
  <2>3. k # oneTimeKey /\ keyPast.secret[k] = "kept"
    <3>1. k # NoId
      BY KeysAssumption DEF KeyIds, NoId
    <3> QED BY <2>2, <3>1, KeyArrivesIs
  <2>4. PICK x \in submissions : x.id = k
    BY <2>1, <2>3 DEF SecretKept
  <2> QED BY <2>2, <2>4
<1>4. RowsForCause'
  <2>4. RowsForCause /\ RowsKept /\ UNCHANGED <<pageOffice, fetch, apiKeys>>
    BY DEF KeysStrong, KeyArrives, serverVars
  <2>5. ASSUME NEW k \in KeyIds, fetch.state = "none", k # s.id
        PROVE  /\ list'.rows[k] > 0 => \/ apiKeys[k].of = pageOffice
                                       \/ k \in keyPast'.crossed \/ list'.of # pageOffice
               /\ list'.rows[k] > 1 => k \in keyPast'.crossed
    BY KeyArrivesIs, <2>4, <2>5 DEF RowsForCause, Shown
  <2>6. /\ apiKeys[s.id].of = pageOffice \/ s.id \in keyPast'.crossed
        /\ list'.rows[s.id] > 1 => s.id \in keyPast'.crossed
    BY ArrivedRow
  <2> QED BY <2>4, <2>5, <2>6 DEF RowsForCause, Shown
<1>5. NumberedKeys'
  BY <1>1, KeysParts, KeysAssumption DEF KeysStrong, NumberedKeys, KeyArrives, serverVars
<1>6. SubmissionsKept'
  <2>4. /\ SubmissionsKept /\ UNCHANGED <<pageOffice, fetch, apiKeys>>
        /\ submissions' = submissions \ {s}
    BY DEF KeysStrong, KeyArrives, serverVars
  <2>5. \A x \in submissions' : x.id # NoId => x.id \in KeyIds /\ list'.rows[x.id] = list.rows[x.id]
    BY <1>1, KeyArrivesIs, <2>4, KeysParts
  <2> QED BY <2>4, <2>5 DEF SubmissionsKept, Made
<1>7. DisplayKept'
  <2>4. oneTimeKey' = s.id /\ creation'.open = FALSE /\ submissions' = submissions \ {s}
    BY DEF KeyArrives
  <2>5. submissions' # {} => s.id \in keyPast'.together
    BY KeyArrivesIs, <2>4
  <2> QED BY <2>4, <2>5 DEF DisplayKept
<1>8. RowsKept'
  <2>4. RowsKept /\ apiKeys' = apiKeys
    BY DEF KeysStrong, KeyArrives, serverVars
  <2>5. list'.rows[s.id] > 1 => s.id \in keyPast'.crossed
    BY ArrivedRow
  <2> QED BY KeyArrivesIs, <2>4, <2>5 DEF RowsKept, Made
<1>9. FetchKept'
  BY <1>1, KeysParts, KeysAssumption DEF KeysStrong, FetchKept, Made, KeyArrives, serverVars
<1>10. StruckKept'
  BY <1>1, KeysParts, KeysAssumption DEF KeysStrong, StruckKept, Made, KeyArrives, serverVars
<1> QED BY <1>2, <1>3, <1>4, <1>5, <1>6, <1>7, <1>8, <1>9, <1>10 DEF KeysStrong

LEMMA RevokeKeysKeep ==
    ASSUME KeysStrong, NEW v \in revocations, Revoke(v)
    PROVE  KeysStrong'
<1>1. KeysTypeOK
  BY DEF KeysStrong
<1>2. KeysTypeOK'
  <2>1. /\ v \in [id : KeyIds, state : {"asked", "revoked"}]
        /\ [v EXCEPT !.state = "revoked"] \in [id : KeyIds, state : {"asked", "revoked"}]
    BY <1>1, KeysParts
  <2>2. revocations' \subseteq [id : KeyIds, state : {"asked", "revoked"}]
    BY <1>1, <2>1, KeysParts DEF Revoke
  <2>3. [apiKeys[v.id] EXCEPT !.live = FALSE] \in [of : SomeOffice, live : BOOLEAN]
    <3>1. apiKeys[v.id] \in [of : SomeOffice, live : BOOLEAN]
      BY <1>1, <2>1, KeysParts
    <3> QED BY <3>1
  <2>4. apiKeys' \in [KeyIds -> [of : SomeOffice, live : BOOLEAN]]
    BY <1>1, <2>1, <2>3, KeysParts DEF Revoke
  <2> QED BY <1>1, <2>2, <2>4 DEF KeysTypeOK, Revoke
<1>3. SecretKept'
  BY <1>1, KeysParts, KeysAssumption DEF KeysStrong, SecretKept, Revoke
<1>4. RowsForCause'
  BY <1>1, KeysParts, KeysAssumption DEF KeysStrong, RowsForCause, Shown, Revoke
<1>5. NumberedKeys'
  BY <1>1, KeysParts, KeysAssumption DEF KeysStrong, NumberedKeys, Revoke
<1>6. SubmissionsKept'
  BY <1>1, KeysParts, KeysAssumption DEF KeysStrong, SubmissionsKept, Made, Shown, Revoke
<1>7. DisplayKept'
  BY <1>1, KeysParts, KeysAssumption DEF KeysStrong, DisplayKept, Revoke
<1>8. RowsKept'
  BY <1>1, KeysParts, KeysAssumption DEF KeysStrong, RowsKept, Made, Revoke
<1>9. FetchKept'
  BY <1>1, KeysParts, KeysAssumption DEF KeysStrong, FetchKept, Made, Revoke
<1>10. StruckKept'
  BY <1>1, KeysParts, KeysAssumption DEF KeysStrong, StruckKept, Made, Revoke
<1> QED BY <1>2, <1>3, <1>4, <1>5, <1>6, <1>7, <1>8, <1>9, <1>10 DEF KeysStrong

LEMMA RevocationArrivesIs ==
    ASSUME KeysStrong, NEW v \in revocations, RevocationArrives(v)
    PROVE  /\ revocations' = revocations \ {v} /\ revokeTarget' = NoId
           /\ UNCHANGED <<serverVars, pageOffice, fetch, creation, submissions, oneTimeKey>>
           /\ list' \in [rows : [KeyIds -> 0..2], struck : SUBSET KeyIds, of : SomeOffice]
           /\ keyPast' \in Pasts
           /\ list'.rows = list.rows /\ list'.of = list.of
           /\ keyPast'.secret = keyPast.secret /\ keyPast'.together = keyPast.together
           /\ keyPast'.crossed = keyPast.crossed /\ keyPast'.outrun = keyPast.outrun
           /\ \/ list'.struck = list.struck /\ keyPast'.told = keyPast.told
              \/ /\ v.state = "revoked" /\ list'.struck = list.struck \cup {v.id}
                 /\ keyPast'.told = keyPast.told \cup {v.id}
<1>1. KeysTypeOK /\ v.id \in KeyIds
  BY KeysParts DEF KeysStrong
<1>4. keyPast \in Pasts
  BY <1>1 DEF KeysTypeOK, Pasts
<1>2. CASE UNCHANGED <<list, keyPast>>
  BY <1>1, <1>2, <1>4 DEF RevocationArrives, KeysTypeOK
<1>3. CASE /\ v.state = "revoked"
           /\ list' = [list EXCEPT !.struck = @ \cup {v.id}]
           /\ keyPast' = [keyPast EXCEPT !.told = @ \cup {v.id}]
  <2>1. /\ list' \in [rows : [KeyIds -> 0..2], struck : SUBSET KeyIds, of : SomeOffice]
        /\ list'.rows = list.rows /\ list'.of = list.of /\ list'.struck = list.struck \cup {v.id}
    BY <1>1, <1>3, KeysParts
  <2>2. /\ keyPast' \in Pasts
        /\ keyPast'.secret = keyPast.secret /\ keyPast'.together = keyPast.together
        /\ keyPast'.crossed = keyPast.crossed /\ keyPast'.outrun = keyPast.outrun
        /\ keyPast'.told = keyPast.told \cup {v.id}
    BY <1>1, <1>3, <1>4 DEF Pasts
  <2> QED BY <1>3, <2>1, <2>2 DEF RevocationArrives
<1> QED BY <1>2, <1>3 DEF RevocationArrives

LEMMA RevocationArrivesKeysKeep ==
    ASSUME KeysStrong, NEW v \in revocations, RevocationArrives(v)
    PROVE  KeysStrong'
<1>1. KeysTypeOK
  BY DEF KeysStrong
<1>2. KeysTypeOK'
  BY <1>1, RevocationArrivesIs DEF KeysTypeOK, serverVars, Pasts
<1>3. SecretKept'
  <2>1. SecretKept
    BY DEF KeysStrong
  <2> QED BY <2>1, RevocationArrivesIs DEF SecretKept, serverVars
<1>4. RowsForCause'
  <2>1. RowsForCause
    BY DEF KeysStrong
  <2> QED BY <2>1, RevocationArrivesIs DEF RowsForCause, serverVars, Shown
<1>5. NumberedKeys'
  <2>1. NumberedKeys
    BY DEF KeysStrong
  <2> QED BY <2>1, RevocationArrivesIs DEF NumberedKeys, serverVars
<1>6. SubmissionsKept'
  <2>1. SubmissionsKept
    BY DEF KeysStrong
  <2> QED BY <2>1, RevocationArrivesIs DEF SubmissionsKept, serverVars, Made
<1>7. DisplayKept'
  <2>1. DisplayKept
    BY DEF KeysStrong
  <2> QED BY <2>1, RevocationArrivesIs DEF DisplayKept, serverVars
<1>8. RowsKept'
  <2>1. RowsKept
    BY DEF KeysStrong
  <2> QED BY <2>1, RevocationArrivesIs DEF RowsKept, serverVars, Made
<1>9. FetchKept'
  <2>1. FetchKept
    BY DEF KeysStrong
  <2> QED BY <2>1, RevocationArrivesIs DEF FetchKept, serverVars, Made
<1>10. StruckKept'
  <2>1. StruckKept
    BY DEF KeysStrong
  <2> QED BY <2>1, RevocationArrivesIs DEF StruckKept, serverVars, Made
<1> QED BY <1>2, <1>3, <1>4, <1>5, <1>6, <1>7, <1>8, <1>9, <1>10 DEF KeysStrong

LEMMA KeysStep == KeysStrong /\ [KeysNext]_keysVars => KeysStrong'
<1> SUFFICES ASSUME KeysStrong, [KeysNext]_keysVars PROVE KeysStrong'
  OBVIOUS
<1>1. CASE UNCHANGED keysVars
  BY <1>1 DEF keysVars, serverVars, KeysStrong, KeysTypeOK, SecretKept, RowsForCause,
     NumberedKeys, SubmissionsKept, DisplayKept, RowsKept, FetchKept, StruckKept, Made, Shown
<1>2. CASE KeysNext
  <2>1. CASE \/ PageFollows \/ ListRead \/ ListArrives \/ ListFails \/ Reload
             \/ \E o \in Offices : SwitchOffice(o)
    BY <2>1, PageFollowsKeysKeep, ListReadKeysKeep, ListArrivesKeysKeep, ListFailsKeysKeep,
       ReloadKeysKeep, SwitchOfficeKeysKeep
  <2>2. CASE \/ OpenCreate \/ CloseCreate \/ SubmitKey \/ Done \/ RevokeClose
             \/ \E k \in KeyIds : RevokeClick(k)
    BY <2>2, OpenCreateKeysKeep, CloseCreateKeysKeep, SubmitKeyKeysKeep, DoneKeysKeep,
       RevokeCloseKeysKeep, RevokeClickKeysKeep
  <2>3. CASE \E s \in submissions : \/ \E k \in KeyIds : InsertKey(s, k)
                                    \/ KeyArrives(s) \/ SubmissionFails(s)
    BY <2>3, InsertKeyKeysKeep, KeyArrivesKeysKeep, SubmissionFailsKeysKeep
  <2>4. CASE \E v \in revocations : Revoke(v) \/ RevocationArrives(v)
    BY <2>4, RevokeKeysKeep, RevocationArrivesKeysKeep
  <2> QED BY <1>2, <2>1, <2>2, <2>3, <2>4 DEF KeysNext
<1> QED BY <1>1, <1>2

LEMMA KeysStrongSuffices == KeysStrong => KeysPageInv
BY DEF KeysStrong, KeysPageInv, StruckForCause, StruckKept

-----------------------------------------------------------------------------
(* The active organization                                                   *)

Tabs == [page : {"dashboard", "settings"}, org : Somewhere, orgName : Texts \cup {NoText},
         list : SUBSET Orgs, dirty : BOOLEAN, optimistic : Somewhere,
         stuck : BOOLEAN, attempted : BOOLEAN, due : BOOLEAN]

Dialogs == [open : BOOLEAN, of : Somewhere, behind : BOOLEAN]

LEMMA ActiveParts ==
    ASSUME ActiveStrong
    PROVE  /\ ActiveTypeOK /\ CallsKept /\ TabKept /\ DangerKept /\ HopeKept
           /\ tab \in Tabs /\ danger \in Dialogs /\ NoOrg \in Somewhere /\ Orgs \subseteq Somewhere
           /\ DOMAIN name \subseteq Orgs /\ gone \subseteq DOMAIN name
           /\ \A o \in DOMAIN name : name[o] \in Texts
           /\ NameOf(active) \in Texts \cup {NoText} /\ (active # NoOrg => NameOf(active) \in Texts)
           /\ tab.org \in Somewhere /\ tab.list \subseteq Orgs /\ active \in Somewhere
           /\ calls \subseteq Calls /\ Cardinality(calls) <= MaxCalls /\ IsFiniteSet(calls)
BY DEF ActiveStrong, ActiveTypeOK, CallsKept, TabKept, Tabs, Dialogs, Somewhere, NameOf

LEMMA DialogClosed == Closed \in Dialogs /\ Closed.open = FALSE /\ Closed.behind = FALSE
BY DEF Closed, Dialogs, Somewhere

LEMMA CallIs ==
    ASSUME NEW c \in Calls
    PROVE  /\ c.kind # "save" => c.org \in Orgs
           /\ c.kind \in {"delete", "commit"} => c.misled \in BOOLEAN
BY DEF Calls

\* Calls come to an end.
LEMMA CallsEnd ==
    ASSUME ActiveStrong, calls' \subseteq calls, DOMAIN name \subseteq DOMAIN name'
    PROVE  CallsKept' /\ calls' \subseteq Calls /\ Cardinality(calls') <= MaxCalls
<1>1. /\ CallsKept /\ calls \subseteq Calls /\ Cardinality(calls) <= MaxCalls /\ IsFiniteSet(calls)
  BY ActiveParts
<1>2. /\ IsFiniteSet(calls') /\ Cardinality(calls') <= Cardinality(calls)
      /\ Cardinality(calls') \in Nat /\ Cardinality(calls) \in Nat
  BY <1>1, FS_Subset, FS_CardinalityType
<1> QED BY <1>1, <1>2, ActiveAssumption DEF CallsKept

\* A call begins.
LEMMA CallBegins ==
    ASSUME ActiveStrong, NEW c \in Calls, Ask(c),
           c.kind \in {"switch", "delete", "commit"} => c.org \in DOMAIN name,
           c.kind \in {"delete", "commit"} => ~c.misled, c.kind # "commit"
    PROVE  /\ CallsKept' /\ calls' \subseteq Calls /\ Cardinality(calls') <= MaxCalls
           /\ calls' = calls \cup {c} /\ UNCHANGED <<name, gone, active, outside, unaware>>
<1>1. /\ CallsKept /\ calls \subseteq Calls /\ IsFiniteSet(calls)
  BY ActiveParts
<1>2. /\ calls' = calls \cup {c} /\ Cardinality(calls') <= MaxCalls
      /\ UNCHANGED <<name, gone, active, outside, unaware>>
  BY DEF Ask
<1>3. IsFiniteSet(calls')
  BY <1>1, <1>2, FS_AddElement
<1> QED BY <1>1, <1>2, <1>3 DEF CallsKept

\* A call becomes another.
LEMMA CallTurns ==
    ASSUME ActiveStrong, NEW c \in calls, NEW d \in Calls, calls' = (calls \ {c}) \cup {d},
           UNCHANGED name, d.kind \in {"switch", "delete", "commit"} => d.org \in DOMAIN name,
           d.kind \in {"delete", "commit"} => ~d.misled
    PROVE  CallsKept' /\ calls' \subseteq Calls /\ Cardinality(calls') <= MaxCalls
<1>1. CallsKept /\ IsFiniteSet(calls) /\ calls \subseteq Calls /\ Cardinality(calls) <= MaxCalls
  BY ActiveParts
<1> DEFINE S == calls \ {c}
<1>2. IsFiniteSet(S) /\ Cardinality(S) = Cardinality(calls) - 1
  BY <1>1, FS_RemoveElement
<1>3. Cardinality(S) \in Nat /\ Cardinality(calls) \in Nat
  BY <1>1, <1>2, FS_CardinalityType
<1>4. calls' = S \cup {d} /\ S \subseteq calls
  OBVIOUS
<1> HIDE DEF S
<1>5. IsFiniteSet(S \cup {d})
      /\ Cardinality(S \cup {d}) = IF d \in S THEN Cardinality(S) ELSE Cardinality(S) + 1
  BY <1>2, FS_AddElement
<1>6. IsFiniteSet(calls') /\ Cardinality(calls') <= MaxCalls
  <2>1. IsFiniteSet(calls') /\ Cardinality(calls') <= Cardinality(S) + 1
        /\ Cardinality(calls') \in Nat
    <3>1. IsFiniteSet(calls')
      BY <1>4, <1>5
    <3>2. Cardinality(S \cup {d}) <= Cardinality(S) + 1
      <4>1. Cardinality(S \cup {d}) = Cardinality(S)
            \/ Cardinality(S \cup {d}) = Cardinality(S) + 1
        BY <1>5
      <4> QED BY <1>3, <4>1
    <3>3. Cardinality(calls') = Cardinality(S \cup {d})
      BY <1>4
    <3> QED BY <3>1, <3>2, <3>3, FS_CardinalityType
  <2> QED BY <1>1, <1>2, <1>3, <2>1, ActiveAssumption
<1> QED BY <1>1, <1>4, <1>6 DEF CallsKept

\* The dialog and what it is about stay as they are.
LEMMA DangerStays ==
    ASSUME ActiveStrong, UNCHANGED <<danger, active>>, tab'.org = tab.org,
           tab'.list = tab.list, tab'.page = tab.page,
           \A c \in calls' : c.kind = "count" => c \in calls
    PROVE  DangerKept'
<1>1. DangerKept /\ (Editable(tab)' <=> Editable(tab)) /\ (Counting' => Counting)
  BY ActiveParts DEF Editable, ShownAsDeleted, Counting
<1> QED BY <1>1 DEF DangerKept

LEMMA DangerGoes ==
    ASSUME danger' = Closed, \A c \in calls' : c.kind # "count"
    PROVE  DangerKept'
BY DialogClosed DEF DangerKept, Counting

\* The session moves, and the dialog is marked.
LEMMA DangerMarked ==
    ASSUME ActiveStrong, NEW o, SessionGoes(o), tab'.org = tab.org,
           tab'.list = tab.list, tab'.page = tab.page,
           \A c \in calls' : c.kind = "count" => c \in calls
    PROVE  active' = o /\ danger' \in Dialogs /\ DangerKept'
<1>1. /\ DangerKept /\ (Editable(tab)' <=> Editable(tab)) /\ (Counting' => Counting)
      /\ danger \in Dialogs
  BY ActiveParts DEF Editable, ShownAsDeleted, Counting
<1>2. CASE o # active /\ (danger.open \/ Counting)
  <2>1. active' = o /\ danger' = [danger EXCEPT !.behind = TRUE]
    BY <1>2 DEF SessionGoes
  <2>2. danger' \in Dialogs /\ danger'.open = danger.open /\ danger'.behind = TRUE
    BY <1>1, <2>1 DEF Dialogs
  <2> QED BY <1>1, <2>1, <2>2 DEF DangerKept
<1>3. CASE ~(o # active /\ (danger.open \/ Counting))
  <2>1. active' = o /\ danger' = danger
    BY <1>3 DEF SessionGoes
  <2> QED BY <1>1, <1>3, <2>1 DEF DangerKept
<1> QED BY <1>2, <1>3

LEMMA Rendered ==
    ASSUME ActiveStrong, NEW t \in Tabs, Render(t), t.org \in {tab.org, active},
           UNCHANGED active
    PROVE  /\ tab' \in Tabs /\ danger' \in Dialogs /\ DangerKept' /\ calls' \subseteq calls
           /\ tab'.org = t.org /\ tab'.orgName = t.orgName /\ tab'.list = t.list
           /\ tab'.due = t.due /\ tab'.page = t.page
           /\ tab'.optimistic = IF t.org # tab.org THEN NoOrg ELSE t.optimistic
           /\ tab'.stuck = (t.stuck /\ t.org = tab.org)
           /\ Switching' <=> Switching
<1>1. /\ tab \in Tabs /\ danger \in Dialogs /\ DangerKept /\ NoOrg \in Somewhere
  BY ActiveParts
<1>2. /\ tab' \in Tabs /\ tab'.org = t.org /\ tab'.orgName = t.orgName /\ tab'.list = t.list
      /\ tab'.due = t.due /\ tab'.page = t.page
      /\ tab'.optimistic = IF t.org # tab.org THEN NoOrg ELSE t.optimistic
      /\ tab'.stuck = (t.stuck /\ t.org = tab.org)
  <2> DEFINE o == IF t.org # tab.org THEN NoOrg ELSE t.optimistic
             u == t.stuck /\ t.org = tab.org
             a == t.attempted /\ Cardinality(t.list) = Cardinality(tab.list)
             d == t.dirty /\ t.org = tab.org /\ t.orgName = tab.orgName /\ Editable(t)
  <2>1. tab' = [t EXCEPT !.optimistic = o, !.stuck = u, !.attempted = a, !.dirty = d]
    BY DEF Render
  <2>2. o \in Somewhere /\ u \in BOOLEAN /\ a \in BOOLEAN /\ d \in BOOLEAN
    BY <1>1 DEF Tabs
  <2> HIDE DEF o, u, a, d
  <2>3. /\ tab' \in Tabs /\ tab'.org = t.org /\ tab'.orgName = t.orgName /\ tab'.list = t.list
        /\ tab'.due = t.due /\ tab'.page = t.page /\ tab'.optimistic = o /\ tab'.stuck = u
    BY <2>1, <2>2 DEF Tabs
  <2> QED BY <2>3 DEF o, u
<1>3. Editable(tab)' <=> Editable(t)
  BY <1>2 DEF Editable, ShownAsDeleted
<1>4. /\ calls' \subseteq calls /\ (Switching' <=> Switching) /\ (Counting' => Counting)
      /\ \A c \in calls' : c.kind = "count" => Editable(t)
  BY DEF Render, Switching, Counting
<1>5. CASE Editable(t)
  <2>1. danger' = danger
    BY <1>5 DEF Render
  <2>2. DangerKept'
    <3>1. \A c \in calls : c.kind = "count" =>
            /\ ~danger.open /\ ~danger.behind => c.org = tab.org
            /\ \A d \in calls : d.kind = "count" => d = c
      BY <1>1 DEF DangerKept
    <3>2. (danger.open \/ Counting) /\ ~danger.behind => t.org = tab.org /\ t.org = active
      BY <1>1 DEF DangerKept
    <3>3. \A c \in calls' : c.kind = "count" => c \in calls /\ Counting
      BY <1>4 DEF Counting
    <3> QED BY <1>1, <1>2, <1>3, <1>4, <1>5, <2>1, <3>1, <3>2, <3>3 DEF DangerKept
  <2> QED BY <1>1, <1>2, <1>4, <2>1, <2>2
<1>6. CASE ~Editable(t)
  <2>1. danger' = Closed /\ danger' \in Dialogs
    BY <1>6, DialogClosed DEF Render
  <2>2. DangerKept'
    BY <1>4, <1>6, <2>1, DangerGoes
  <2> QED BY <1>2, <1>4, <2>1, <2>2
<1> QED BY <1>5, <1>6

\* What becomes of the parts of the invariant makes the whole.
LEMMA ActiveAgain ==
    ASSUME ActiveStrong,
           DOMAIN name' \subseteq Orgs, \A o \in DOMAIN name' : name'[o] \in Texts,
           gone' \subseteq DOMAIN name', tab' \in Tabs, danger' \in Dialogs,
           calls' \subseteq Calls, Cardinality(calls') <= MaxCalls,
           outside' \in 0..MaxOutside, unaware' \in BOOLEAN,
           CallsKept', TabKept', DangerKept', HopeKept'
    PROVE  ActiveStrong'
<1>1. active' \in Somewhere
  BY DEF TabKept, Somewhere
<1> QED BY <1>1 DEF ActiveStrong, ActiveTypeOK, Tabs, Dialogs

LEMMA ActiveBegins == ActiveInit => ActiveStrong
<1> SUFFICES ASSUME ActiveInit PROVE ActiveStrong
  OBVIOUS
<1>1. PICK some \in SUBSET Orgs : name \in [some -> Texts]
  BY DEF ActiveInit
<1>2. /\ active \in DOMAIN name \cup {NoOrg} /\ DOMAIN name \subseteq Orgs
      /\ \A o \in DOMAIN name : name[o] \in Texts
      /\ NameOf(active) \in Texts \cup {NoText} /\ (active # NoOrg => NameOf(active) \in Texts)
      /\ active \in Somewhere /\ NoOrg \in Somewhere
  BY <1>1 DEF ActiveInit, NameOf, Somewhere
<1>3. tab \in Tabs /\ danger \in Dialogs
  BY <1>2, DialogClosed DEF ActiveInit, Tabs
<1>4. IsFiniteSet(calls) /\ Cardinality(calls) = 0
  BY FS_EmptySet DEF ActiveInit
<1>5. ActiveTypeOK
  <2>1. calls = {} /\ gone = {} /\ outside = 0 /\ unaware = FALSE
    BY DEF ActiveInit
  <2>2. /\ calls \subseteq Calls /\ Cardinality(calls) <= MaxCalls /\ outside \in 0..MaxOutside
        /\ gone \subseteq DOMAIN name /\ unaware \in BOOLEAN
    <3>1. Cardinality(calls) <= MaxCalls /\ 0 \in 0..MaxOutside
      BY <1>4, ActiveAssumption
    <3> QED BY <2>1, <3>1
  <2> QED BY <1>2, <1>3, <2>2 DEF ActiveTypeOK, Tabs, Dialogs
<1>6. CallsKept /\ TabKept /\ DangerKept /\ HopeKept
  BY <1>2, <1>4, DialogClosed DEF ActiveInit, CallsKept, TabKept, DangerKept, HopeKept
<1> QED BY <1>5, <1>6 DEF ActiveStrong

LEMMA RefetchActiveKeeps ==
    ASSUME ActiveStrong, RefetchActive
    PROVE  ActiveStrong'
<1>1. /\ ActiveTypeOK /\ CallsKept /\ TabKept /\ DangerKept /\ HopeKept
      /\ tab \in Tabs /\ danger \in Dialogs
  BY ActiveParts
<1> DEFINE t == [tab EXCEPT !.org = active, !.orgName = NameOf(active), !.due = FALSE,
                !.stuck = @ \/ (tab.optimistic \notin {NoOrg, active} /\ ~Switching)]
<1>2. /\ Render(t) /\ unaware' = FALSE /\ UNCHANGED <<name, gone, active, outside>>
  BY DEF RefetchActive
<1>3. /\ t \in Tabs /\ t.org = active /\ t.orgName = NameOf(active) /\ t.due = FALSE
      /\ t.list = tab.list /\ t.optimistic = tab.optimistic
      /\ t.stuck = (tab.stuck \/ (tab.optimistic \notin {NoOrg, active} /\ ~Switching))
  BY <1>1, ActiveParts DEF Tabs
<1> HIDE DEF t
<1>4. HopeKept'
  <2>1. /\ tab'.org = active /\ tab'.due = FALSE /\ active' = active /\ (Switching' <=> Switching)
        /\ tab'.optimistic = IF active # tab.org THEN NoOrg ELSE tab.optimistic
        /\ tab'.stuck = (t.stuck /\ active = tab.org)
    BY <1>2, <1>3, Rendered
  <2> QED BY <1>3, <2>1 DEF HopeKept
<1>5. TabKept'
  BY <1>1, <1>2, <1>3, Rendered, ActiveParts DEF TabKept
<1> QED BY <1>2, <1>3, <1>4, <1>5, Rendered, ActiveParts, CallsEnd, ActiveAgain DEF ActiveTypeOK

LEMMA RefetchListKeeps ==
    ASSUME ActiveStrong, RefetchList
    PROVE  ActiveStrong'
<1>1. /\ ActiveTypeOK /\ CallsKept /\ TabKept /\ DangerKept /\ HopeKept
      /\ tab \in Tabs /\ danger \in Dialogs
  BY ActiveParts
<1> DEFINE t == [tab EXCEPT !.list = DOMAIN name \ gone]
<1>2. Render(t) /\ UNCHANGED <<name, gone, active, outside, unaware>>
  BY DEF RefetchList
<1>3. /\ t \in Tabs /\ t.org = tab.org /\ t.orgName = tab.orgName /\ t.due = tab.due
      /\ t.list = DOMAIN name \ gone /\ t.optimistic = tab.optimistic /\ t.stuck = tab.stuck
  BY <1>1, ActiveParts DEF Tabs
<1> HIDE DEF t
<1>4. HopeKept'
  <2>1. /\ tab'.org = tab.org /\ tab'.due = tab.due /\ (Switching' <=> Switching)
        /\ tab'.optimistic = tab.optimistic /\ tab'.stuck = tab.stuck
    BY <1>1, <1>2, <1>3, Rendered DEF Tabs
  <2> QED BY <1>1, <1>2, <2>1 DEF HopeKept
<1>5. TabKept'
  BY <1>1, <1>2, <1>3, Rendered, ActiveParts DEF TabKept
<1> QED BY <1>1, <1>2, <1>3, <1>4, <1>5, Rendered, ActiveParts, CallsEnd, ActiveAgain
        DEF ActiveTypeOK

LEMMA ToSettingsKeeps ==
    ASSUME ActiveStrong, ToSettings
    PROVE  ActiveStrong'
<1>1. /\ ActiveTypeOK /\ CallsKept /\ TabKept /\ DangerKept /\ HopeKept
      /\ tab \in Tabs /\ danger \in Dialogs
  BY ActiveParts
<1>2. /\ UNCHANGED <<name, gone, active, calls, outside, unaware>>
      /\ tab' \in Tabs /\ tab'.org = tab.org /\ tab'.orgName = tab.orgName /\ tab'.list = tab.list
      /\ tab'.due = tab.due /\ tab'.optimistic = tab.optimistic /\ tab'.stuck = tab.stuck
      /\ danger' = Closed /\ danger' \in Dialogs
  BY <1>1, ActiveParts, DialogClosed DEF ToSettings, Tabs, Dialogs
<1>3. CallsKept' /\ calls' \subseteq Calls /\ Cardinality(calls') <= MaxCalls
  BY <1>2, CallsEnd
<1>4. TabKept' /\ HopeKept'
  BY <1>1, <1>2 DEF TabKept, HopeKept, Switching
<1>5. DangerKept'
  <2>1. ~Editable(tab)
    BY DEF ToSettings, Editable
  <2> QED BY <1>1, <1>2, <2>1, DangerGoes DEF DangerKept
<1> QED BY <1>1, <1>2, <1>3, <1>4, <1>5, ActiveParts, ActiveAgain DEF ActiveTypeOK

LEMMA ToDashboardKeeps ==
    ASSUME ActiveStrong, NEW b \in BOOLEAN, ToDashboard(b)
    PROVE  ActiveStrong'
<1>1. /\ ActiveTypeOK /\ CallsKept /\ TabKept /\ DangerKept /\ HopeKept
      /\ tab \in Tabs /\ danger \in Dialogs
  BY ActiveParts
<1>2. /\ UNCHANGED <<name, gone, active, outside, unaware>>
      /\ calls' \subseteq calls /\ \A c \in calls : c.kind = "switch" => c \in calls'
      /\ tab' \in Tabs /\ tab'.org = tab.org /\ tab'.orgName = tab.orgName /\ tab'.list = tab.list
      /\ tab'.due = tab.due /\ tab'.optimistic = tab.optimistic /\ tab'.stuck = tab.stuck
      /\ danger' = Closed /\ danger' \in Dialogs
  BY <1>1, ActiveParts, DialogClosed DEF ToDashboard, Tabs, Dialogs
<1>3. CallsKept' /\ calls' \subseteq Calls /\ Cardinality(calls') <= MaxCalls
  BY <1>2, CallsEnd
<1>4. TabKept' /\ HopeKept'
  BY <1>1, <1>2 DEF TabKept, HopeKept, Switching
<1>5. DangerKept'
  <2>1. \A c \in calls' : c.kind # "count"
    BY DEF ToDashboard
  <2> QED BY <1>2, <2>1, DangerGoes
<1> QED BY <1>1, <1>2, <1>3, <1>4, <1>5, ActiveParts, ActiveAgain DEF ActiveTypeOK

LEMMA CloseDialogKeeps ==
    ASSUME ActiveStrong, CloseDialog
    PROVE  ActiveStrong'
<1>1. /\ ActiveTypeOK /\ CallsKept /\ TabKept /\ DangerKept /\ HopeKept
      /\ tab \in Tabs /\ danger \in Dialogs
  BY ActiveParts
<1>2. /\ UNCHANGED <<name, gone, active, calls, outside, unaware>>
      /\ UNCHANGED tab
      /\ danger' = Closed /\ danger' \in Dialogs
  BY <1>1, ActiveParts, DialogClosed DEF CloseDialog, Tabs, Dialogs
<1>3. CallsKept' /\ calls' \subseteq Calls /\ Cardinality(calls') <= MaxCalls
  BY <1>2, CallsEnd
<1>4. TabKept' /\ HopeKept'
  BY <1>1, <1>2 DEF TabKept, HopeKept, Switching
<1>5. DangerKept'
  <2>1. danger.open
    BY DEF CloseDialog
  <2> QED BY <1>1, <1>2, <2>1, DangerGoes DEF DangerKept
<1> QED BY <1>1, <1>2, <1>3, <1>4, <1>5, ActiveParts, ActiveAgain DEF ActiveTypeOK

LEMMA TypeNameKeeps ==
    ASSUME ActiveStrong, NEW b \in BOOLEAN, TypeName(b)
    PROVE  ActiveStrong'
<1>1. /\ ActiveTypeOK /\ CallsKept /\ TabKept /\ DangerKept /\ HopeKept
      /\ tab \in Tabs /\ danger \in Dialogs
  BY ActiveParts
<1>2. /\ UNCHANGED <<name, gone, active, calls, outside, unaware>>
      /\ tab' \in Tabs /\ tab'.org = tab.org /\ tab'.orgName = tab.orgName /\ tab'.list = tab.list
      /\ tab'.due = tab.due /\ tab'.optimistic = tab.optimistic /\ tab'.stuck = tab.stuck
      /\ tab'.page = tab.page /\ UNCHANGED danger
  BY <1>1, ActiveParts, DialogClosed DEF TypeName, Tabs, Dialogs
<1>3. CallsKept' /\ calls' \subseteq Calls /\ Cardinality(calls') <= MaxCalls
  BY <1>2, CallsEnd
<1>4. TabKept' /\ HopeKept'
  BY <1>1, <1>2 DEF TabKept, HopeKept, Switching
<1>5. DangerKept'
  BY <1>2, DangerStays
<1> QED BY <1>1, <1>2, <1>3, <1>4, <1>5, ActiveParts, ActiveAgain DEF ActiveTypeOK

LEMMA SaveKeeps ==
    ASSUME ActiveStrong, Save
    PROVE  ActiveStrong'
<1>1. /\ ActiveTypeOK /\ CallsKept /\ TabKept /\ DangerKept /\ HopeKept
      /\ tab \in Tabs /\ danger \in Dialogs
  BY ActiveParts
<1>2. /\ UNCHANGED <<name, gone, active, outside, unaware, tab, danger>>
      /\ calls \subseteq calls' /\ Ask([kind |-> "save"])
  BY <1>1, ActiveParts, DialogClosed DEF Save, Ask, Tabs, Dialogs
<1>3. CallsKept' /\ calls' \subseteq Calls /\ Cardinality(calls') <= MaxCalls
  <2>1. [kind |-> "save"] \in Calls
    BY DEF Calls
  <2> QED BY <1>2, <2>1, CallBegins
<1>4. TabKept' /\ HopeKept'
  BY <1>1, <1>2 DEF TabKept, HopeKept, Switching
<1>5. DangerKept'
  <2>1. calls' = calls \cup {[kind |-> "save"]}
    BY <1>2 DEF Ask
  <2> QED BY <1>2, <2>1, DangerStays
<1> QED BY <1>1, <1>2, <1>3, <1>4, <1>5, ActiveParts, ActiveAgain DEF ActiveTypeOK

LEMMA CreateKeeps ==
    ASSUME ActiveStrong, NEW o \in Orgs, Create(o)
    PROVE  ActiveStrong'
<1>1. /\ ActiveTypeOK /\ CallsKept /\ TabKept /\ DangerKept /\ HopeKept
      /\ tab \in Tabs /\ danger \in Dialogs
  BY ActiveParts
<1>2. /\ UNCHANGED <<name, gone, active, outside, unaware, tab, danger>>
      /\ calls \subseteq calls' /\ Ask([kind |-> "create", org |-> o])
  BY <1>1, ActiveParts, DialogClosed DEF Create, Ask, Tabs, Dialogs
<1>3. CallsKept' /\ calls' \subseteq Calls /\ Cardinality(calls') <= MaxCalls
  <2>1. [kind |-> "create", org |-> o] \in Calls
    BY DEF Calls
  <2> QED BY <1>2, <2>1, CallBegins
<1>4. TabKept' /\ HopeKept'
  BY <1>1, <1>2 DEF TabKept, HopeKept, Switching
<1>5. DangerKept'
  <2>1. calls' = calls \cup {[kind |-> "create", org |-> o]}
    BY <1>2 DEF Ask
  <2> QED BY <1>2, <2>1, DangerStays
<1> QED BY <1>1, <1>2, <1>3, <1>4, <1>5, ActiveParts, ActiveAgain DEF ActiveTypeOK

LEMMA ReactivateKeeps ==
    ASSUME ActiveStrong, Reactivate
    PROVE  ActiveStrong'
<1>1. /\ ActiveTypeOK /\ CallsKept /\ TabKept /\ DangerKept /\ HopeKept
      /\ tab \in Tabs /\ danger \in Dialogs
  BY ActiveParts
<1>2. /\ UNCHANGED <<name, gone, active, outside, unaware, tab, danger>>
      /\ calls \subseteq calls' /\ Ask([kind |-> "reactivate", org |-> tab.org])
      /\ tab.org # NoOrg
  BY <1>1, ActiveParts, DialogClosed DEF Reactivate, Ask, ShownAsDeleted, Tabs, Dialogs
<1>3. CallsKept' /\ calls' \subseteq Calls /\ Cardinality(calls') <= MaxCalls
  <2>1. [kind |-> "reactivate", org |-> tab.org] \in Calls
    BY <1>2, ActiveParts DEF Calls, Somewhere
  <2> QED BY <1>2, <2>1, CallBegins
<1>4. TabKept' /\ HopeKept'
  BY <1>1, <1>2 DEF TabKept, HopeKept, Switching
<1>5. DangerKept'
  <2>1. calls' = calls \cup {[kind |-> "reactivate", org |-> tab.org]}
    BY <1>2 DEF Ask
  <2> QED BY <1>2, <2>1, DangerStays
<1> QED BY <1>1, <1>2, <1>3, <1>4, <1>5, ActiveParts, ActiveAgain DEF ActiveTypeOK

LEMMA AskImpactKeeps ==
    ASSUME ActiveStrong, AskImpact
    PROVE  ActiveStrong'
<1>1. /\ ActiveTypeOK /\ CallsKept /\ TabKept /\ DangerKept /\ HopeKept
      /\ tab \in Tabs /\ danger \in Dialogs
  BY ActiveParts
<1> DEFINE c == [kind |-> "count", org |-> tab.org]
<1>2. /\ UNCHANGED <<name, gone, active, outside, unaware, tab>> /\ Ask(c)
      /\ calls' = calls \cup {c} /\ Editable(tab) /\ ~Counting /\ tab.org # NoOrg
      /\ danger' = [Closed EXCEPT !.behind = tab.org # active]
  BY DEF AskImpact, Ask, Editable
<1>3. c \in Calls /\ c.kind = "count" /\ c.org = tab.org
  BY <1>2, ActiveParts DEF Calls, Somewhere
<1> HIDE DEF c
<1>4. CallsKept' /\ calls' \subseteq Calls /\ Cardinality(calls') <= MaxCalls
  BY <1>2, <1>3, CallBegins
<1>5. TabKept' /\ HopeKept'
  BY <1>1, <1>2, <1>3 DEF TabKept, HopeKept, Switching
<1>6. /\ danger' \in Dialogs /\ ~danger'.open /\ (danger'.behind <=> tab.org # active)
  BY <1>2, DialogClosed DEF Dialogs
<1>7. \A d \in calls' : d.kind = "count" => d = c
  BY <1>2 DEF Counting
<1>8. Editable(tab)'
  BY <1>2
<1>9. DangerKept'
  BY <1>2, <1>3, <1>6, <1>7, <1>8 DEF DangerKept
<1> QED BY <1>1, <1>2, <1>4, <1>5, <1>6, <1>9, ActiveParts, ActiveAgain DEF ActiveTypeOK

LEMMA DeleteKeeps ==
    ASSUME ActiveStrong, Delete
    PROVE  ActiveStrong'
<1>1. /\ ActiveTypeOK /\ CallsKept /\ TabKept /\ DangerKept /\ HopeKept
      /\ tab \in Tabs /\ danger \in Dialogs
  BY ActiveParts
<1> DEFINE c == [kind |-> "delete", org |-> tab.org, typed |-> tab.orgName,
                misled |-> Misled(tab.org)]
<1>2. /\ UNCHANGED <<name, gone, active, outside, unaware, tab>> /\ Ask(c)
      /\ calls' = calls \cup {c} /\ danger.open /\ danger' = Closed /\ danger' \in Dialogs
  BY DialogClosed DEF Delete, Ask
<1>3. tab.org # NoOrg /\ tab.org \in DOMAIN name /\ tab.orgName \in Texts /\ ~Misled(tab.org)
      /\ Misled(tab.org) \in BOOLEAN
  BY <1>1, <1>2 DEF DangerKept, TabKept, Misled, Editable
<1>4. c \in Calls /\ c.kind = "delete" /\ c.org = tab.org /\ ~c.misled
  BY <1>3, ActiveParts DEF Calls
<1> HIDE DEF c
<1>5. CallsKept' /\ calls' \subseteq Calls /\ Cardinality(calls') <= MaxCalls
  BY <1>2, <1>3, <1>4, CallBegins
<1>6. TabKept' /\ HopeKept'
  BY <1>1, <1>2, <1>4 DEF TabKept, HopeKept, Switching
<1>7. \A d \in calls' : d.kind # "count"
  BY <1>1, <1>2, <1>4 DEF DangerKept
<1>8. DangerKept'
  BY <1>2, <1>7, DangerGoes
<1> QED BY <1>1, <1>2, <1>5, <1>6, <1>8, ActiveParts, ActiveAgain DEF ActiveTypeOK

LEMMA SwitchKeeps ==
    ASSUME ActiveStrong, NEW o \in Orgs, Switch(o)
    PROVE  ActiveStrong'
<1>1. /\ ActiveTypeOK /\ CallsKept /\ TabKept /\ DangerKept /\ HopeKept
      /\ tab \in Tabs /\ danger \in Dialogs
  BY ActiveParts
<1> DEFINE c == [kind |-> "switch", org |-> o]
<1>2. /\ Ask(c) /\ o \in DOMAIN name /\ danger' = danger /\ tab' = [tab EXCEPT !.optimistic = o]
  BY <1>1 DEF Switch, TabKept
<1>3. c \in Calls /\ c.kind = "switch" /\ c.org = o
  BY DEF Calls
<1> HIDE DEF c
<1>4. /\ CallsKept' /\ calls' \subseteq Calls /\ Cardinality(calls') <= MaxCalls
      /\ calls' = calls \cup {c} /\ UNCHANGED <<name, gone, active, outside, unaware>>
  BY <1>2, <1>3, CallBegins
<1>5. /\ tab' \in Tabs /\ tab'.org = tab.org /\ tab'.orgName = tab.orgName /\ tab'.list = tab.list
      /\ tab'.due = tab.due /\ tab'.stuck = tab.stuck /\ tab'.page = tab.page
  BY <1>1, <1>2, ActiveParts DEF Tabs
<1>6. Switching'
  BY <1>3, <1>4 DEF Switching
<1>7. TabKept' /\ HopeKept'
  BY <1>1, <1>4, <1>5, <1>6 DEF TabKept, HopeKept
<1>8. DangerKept'
  BY <1>2, <1>3, <1>4, <1>5, DangerStays
<1> QED BY <1>1, <1>2, <1>4, <1>5, <1>7, <1>8, ActiveParts, ActiveAgain DEF ActiveTypeOK

LEMMA AutoSelectKeeps ==
    ASSUME ActiveStrong, AutoSelect
    PROVE  ActiveStrong'
<1>1. /\ ActiveTypeOK /\ CallsKept /\ TabKept /\ DangerKept /\ HopeKept
      /\ tab \in Tabs /\ danger \in Dialogs
  BY ActiveParts
<1>2. /\ danger' = danger /\ tab' = [tab EXCEPT !.attempted = TRUE]
  BY DEF AutoSelect
<1>3. /\ tab' \in Tabs /\ tab'.org = tab.org /\ tab'.orgName = tab.orgName /\ tab'.list = tab.list
      /\ tab'.due = tab.due /\ tab'.stuck = tab.stuck /\ tab'.page = tab.page
      /\ tab'.optimistic = tab.optimistic
  BY <1>1, <1>2 DEF Tabs
<1>4. /\ CallsKept' /\ calls' \subseteq Calls /\ Cardinality(calls') <= MaxCalls
      /\ calls \subseteq calls' /\ UNCHANGED <<name, gone, active, outside, unaware>>
      /\ \A d \in calls' : d.kind = "count" => d \in calls
  <2>1. CASE tab.list = {}
    <3>1. UNCHANGED <<name, gone, active, calls, outside, unaware>>
      BY <2>1 DEF AutoSelect
    <3> QED BY <3>1, CallsEnd, ActiveParts
  <2>2. CASE tab.list # {}
    <3>1. PICK o \in tab.list : Ask([kind |-> "switch", org |-> o])
      BY <2>2 DEF AutoSelect
    <3> DEFINE c == [kind |-> "switch", org |-> o]
    <3>2. c \in Calls /\ c.kind = "switch" /\ c.org = o /\ o \in DOMAIN name
      BY <1>1, ActiveParts DEF Calls, TabKept
    <3>3. Ask(c)
      BY <3>1
    <3> HIDE DEF c
    <3> QED BY <3>2, <3>3, CallBegins
  <2> QED BY <2>1, <2>2
<1>5. TabKept' /\ HopeKept'
  BY <1>1, <1>3, <1>4 DEF TabKept, HopeKept, Switching
<1>6. DangerKept'
  BY <1>2, <1>3, <1>4, DangerStays
<1> QED BY <1>1, <1>2, <1>3, <1>4, <1>5, <1>6, ActiveParts, ActiveAgain DEF ActiveTypeOK

LEMMA OtherTabSwitchesKeeps ==
    ASSUME ActiveStrong, NEW o \in Orgs, OtherTabSwitches(o)
    PROVE  ActiveStrong'
<1>1. /\ ActiveTypeOK /\ CallsKept /\ TabKept /\ DangerKept /\ HopeKept
      /\ tab \in Tabs /\ danger \in Dialogs
  BY ActiveParts
<1>2. /\ UNCHANGED <<tab, calls>> /\ outside' \in 0..MaxOutside
      /\ UNCHANGED <<name, gone>> /\ unaware' = TRUE /\ SessionGoes(o) /\ o \in DOMAIN name
  BY <1>1, ActiveParts, ActiveAssumption DEF OtherTabSwitches, Others, ActiveTypeOK, TabKept, Cleared
<1>3. CallsKept' /\ calls' \subseteq Calls /\ Cardinality(calls') <= MaxCalls
  BY <1>2, CallsEnd
<1>4. TabKept' /\ HopeKept'
  BY <1>1, <1>2 DEF SessionGoes, TabKept, HopeKept, Switching
<1>5. active' = o /\ danger' \in Dialogs /\ DangerKept'
  BY <1>2, DangerMarked
<1> QED BY <1>1, <1>2, <1>3, <1>4, <1>5, ActiveParts, ActiveAgain DEF ActiveTypeOK

LEMMA OthersRenameKeeps ==
    ASSUME ActiveStrong, NEW o \in Orgs, NEW x \in Texts, OthersRename(o, x)
    PROVE  ActiveStrong'
<1>1. /\ ActiveTypeOK /\ CallsKept /\ TabKept /\ DangerKept /\ HopeKept
      /\ tab \in Tabs /\ danger \in Dialogs
  BY ActiveParts
<1>2. /\ UNCHANGED <<tab, danger, calls>> /\ outside' \in 0..MaxOutside
      /\ UNCHANGED <<gone, active, unaware>> /\ DOMAIN name' = DOMAIN name
      /\ \A y \in DOMAIN name' : name'[y] \in Texts
  BY <1>1, ActiveParts, ActiveAssumption DEF OthersRename, Others, ActiveTypeOK, TabKept, Cleared
<1>3. CallsKept' /\ calls' \subseteq Calls /\ Cardinality(calls') <= MaxCalls
  BY <1>2, CallsEnd
<1>4. TabKept' /\ HopeKept'
  BY <1>1, <1>2 DEF TabKept, HopeKept, Switching
<1>5. DangerKept'
  BY <1>2, DangerStays
<1> QED BY <1>1, <1>2, <1>3, <1>4, <1>5, ActiveParts, ActiveAgain DEF ActiveTypeOK

LEMMA OthersDeleteKeeps ==
    ASSUME ActiveStrong, NEW o \in Orgs, OthersDelete(o)
    PROVE  ActiveStrong'
<1>1. /\ ActiveTypeOK /\ CallsKept /\ TabKept /\ DangerKept /\ HopeKept
      /\ tab \in Tabs /\ danger \in Dialogs
  BY ActiveParts
<1>2. /\ UNCHANGED <<tab, calls, name>> /\ outside' \in 0..MaxOutside
      /\ gone' = gone \cup {o} /\ o \in DOMAIN name
      /\ SessionGoes(Cleared(o)) /\ unaware' = (unaware \/ active = o)
  BY <1>1, ActiveAssumption DEF OthersDelete, Others, ActiveTypeOK
<1>3. danger' \in Dialogs /\ DangerKept' /\ active' = Cleared(o)
  BY <1>2, DangerMarked
<1>4. unaware' \in BOOLEAN /\ gone' \subseteq DOMAIN name /\ active' \in {active, NoOrg}
  BY <1>1, <1>2, <1>3 DEF ActiveTypeOK, Cleared
<1>5. ~unaware' => ~unaware /\ active' = active
  BY <1>2, <1>3 DEF Cleared
<1>6. CallsKept' /\ calls' \subseteq Calls /\ Cardinality(calls') <= MaxCalls
  BY <1>2, CallsEnd
<1>7. TabKept' /\ HopeKept'
  BY <1>1, <1>2, <1>4, <1>5 DEF TabKept, HopeKept, Switching
<1> QED BY <1>1, <1>2, <1>3, <1>4, <1>6, <1>7, ActiveParts, ActiveAgain DEF ActiveTypeOK

LEMMA CheckDeletionKeeps ==
    ASSUME ActiveStrong, NEW c \in calls, CheckDeletion(c)
    PROVE  ActiveStrong'
<1>1. /\ ActiveTypeOK /\ CallsKept /\ TabKept /\ DangerKept /\ HopeKept
      /\ tab \in Tabs /\ danger \in Dialogs
  BY ActiveParts
<1> DEFINE d == [kind |-> "commit", org |-> c.org, misled |-> c.misled]
<1>2. /\ UNCHANGED <<name, gone, active, tab, danger, outside, unaware>> /\ c.kind = "delete"
      /\ calls' = calls \ {c} \/ calls' = (calls \ {c}) \cup {d}
  BY DEF CheckDeletion
<1>3. c \in Calls /\ c.org \in DOMAIN name /\ c.org \in Orgs /\ ~c.misled
  BY <1>1, <1>2, ActiveParts DEF CallsKept
<1>4. d \in Calls /\ d.kind = "commit" /\ d.org = c.org /\ ~d.misled
  BY <1>2, <1>3, CallIs DEF Calls
<1> HIDE DEF d
<1>5. CallsKept' /\ calls' \subseteq Calls /\ Cardinality(calls') <= MaxCalls
  BY <1>2, <1>3, <1>4, CallsEnd, CallTurns
<1>6. /\ Switching' <=> Switching
      /\ \A b \in calls' : b.kind = "count" => b \in calls
  BY <1>2, <1>4 DEF Switching
<1>7. TabKept' /\ HopeKept' /\ DangerKept'
  BY <1>1, <1>2, <1>6, DangerStays DEF TabKept, HopeKept
<1> QED BY <1>1, <1>2, <1>5, <1>7, ActiveParts, ActiveAgain DEF ActiveTypeOK

LEMMA CallFailsKeeps ==
    ASSUME ActiveStrong, NEW c \in calls, CallFails(c)
    PROVE  ActiveStrong'
<1>1. /\ ActiveTypeOK /\ CallsKept /\ TabKept /\ DangerKept /\ HopeKept
      /\ tab \in Tabs /\ danger \in Dialogs
  BY ActiveParts
<1>2. c \in Calls /\ calls' \subseteq calls
  BY ActiveParts DEF CallFails, Answered
<1>3. /\ calls' = calls \ {c}
      /\ c.kind # "switch" /\ UNCHANGED <<name, gone, active, tab, danger, outside, unaware>>
  BY <1>1, <1>2, CallIs, ActiveParts, DialogClosed DEF CallFails, Answered, CallsKept, Tabs
<1>4. CallsKept' /\ calls' \subseteq Calls /\ Cardinality(calls') <= MaxCalls
  BY <1>2, <1>3, CallsEnd
<1>5. TabKept'
  BY <1>1, <1>3 DEF TabKept
<1>6. HopeKept'
  BY <1>1, <1>3 DEF HopeKept, Switching
<1>7. DangerKept'
  BY <1>3, DangerStays
<1> QED BY <1>1, <1>3, <1>4, <1>5, <1>6, <1>7, ActiveParts, ActiveAgain DEF ActiveTypeOK

LEMMA SwitchLandsKeeps ==
    ASSUME ActiveStrong, NEW c \in calls, NEW b \in BOOLEAN, SwitchLands(c, b)
    PROVE  ActiveStrong'
<1>1. /\ ActiveTypeOK /\ CallsKept /\ TabKept /\ DangerKept /\ HopeKept
      /\ tab \in Tabs /\ danger \in Dialogs
  BY ActiveParts
<1>2. c \in Calls /\ calls' \subseteq calls
  BY ActiveParts DEF SwitchLands, Answered
<1>3. /\ calls' = calls \ {c}
      /\ tab' \in Tabs /\ tab'.org = tab.org /\ tab'.orgName = tab.orgName /\ tab'.list = tab.list
      /\ tab'.page = tab.page
      /\ UNCHANGED <<name, gone, outside>> /\ SessionGoes(c.org) /\ active' = c.org /\ c.org \in DOMAIN name
      /\ unaware' \in BOOLEAN
      /\ ~tab'.due /\ ~unaware' => ~tab.due /\ ~unaware /\ active = c.org /\ tab'.optimistic = NoOrg
  BY <1>1, <1>2, CallIs, ActiveParts, DialogClosed DEF SessionGoes, SwitchLands, Answered, CallsKept, Tabs
<1>4. CallsKept' /\ calls' \subseteq Calls /\ Cardinality(calls') <= MaxCalls
  BY <1>2, <1>3, CallsEnd
<1>5. TabKept'
  BY <1>1, <1>3 DEF TabKept
<1>6. HopeKept'
  BY <1>1, <1>3 DEF HopeKept, Switching
<1>7. danger' \in Dialogs /\ DangerKept' /\ active' = c.org
  BY <1>3, DangerMarked
<1> QED BY <1>1, <1>3, <1>4, <1>5, <1>6, <1>7, ActiveParts, ActiveAgain DEF ActiveTypeOK

LEMMA SwitchFailsKeeps ==
    ASSUME ActiveStrong, NEW c \in calls, NEW b \in BOOLEAN, SwitchFails(c, b)
    PROVE  ActiveStrong'
<1>1. /\ ActiveTypeOK /\ CallsKept /\ TabKept /\ DangerKept /\ HopeKept
      /\ tab \in Tabs /\ danger \in Dialogs
  BY ActiveParts
<1>2. c \in Calls /\ calls' \subseteq calls
  BY ActiveParts DEF SwitchFails, Answered
<1>3. /\ calls' = calls \ {c}
      /\ tab' \in Tabs /\ tab'.org = tab.org /\ tab'.orgName = tab.orgName /\ tab'.list = tab.list
      /\ tab'.page = tab.page
      /\ UNCHANGED <<name, gone, active, danger, outside, unaware>> /\ tab'.due = tab.due
      /\ tab'.optimistic = NoOrg \/ (tab'.stuck <=> tab'.optimistic # NoOrg)
  BY <1>1, <1>2, CallIs, ActiveParts, DialogClosed DEF SwitchFails, Answered, CallsKept, Tabs
<1>4. CallsKept' /\ calls' \subseteq Calls /\ Cardinality(calls') <= MaxCalls
  BY <1>2, <1>3, CallsEnd
<1>5. TabKept'
  BY <1>1, <1>3 DEF TabKept
<1>6. HopeKept'
  BY <1>1, <1>3 DEF HopeKept, Switching
<1>7. DangerKept'
  BY <1>3, DangerStays
<1> QED BY <1>1, <1>3, <1>4, <1>5, <1>6, <1>7, ActiveParts, ActiveAgain DEF ActiveTypeOK

LEMMA ImpactArrivesKeeps ==
    ASSUME ActiveStrong, NEW c \in calls, ImpactArrives(c)
    PROVE  ActiveStrong'
<1>1. /\ ActiveTypeOK /\ CallsKept /\ TabKept /\ DangerKept /\ HopeKept
      /\ tab \in Tabs /\ danger \in Dialogs
  BY ActiveParts
<1>2. /\ c.kind = "count" /\ calls' = calls \ {c} /\ c \in Calls
      /\ danger' = [danger EXCEPT !.open = TRUE, !.of = c.org]
      /\ UNCHANGED <<name, gone, active, tab, outside, unaware>>
  BY ActiveParts DEF ImpactArrives
<1>3. c.org \in Somewhere /\ Editable(tab)
  BY <1>1, <1>2, CallIs, ActiveParts DEF DangerKept
<1>4. /\ danger' \in Dialogs /\ danger'.open = TRUE /\ danger'.of = c.org
      /\ danger'.behind = danger.behind
  BY <1>1, <1>2, <1>3 DEF Dialogs
<1>5. CallsKept' /\ calls' \subseteq Calls /\ Cardinality(calls') <= MaxCalls
  BY <1>2, CallsEnd
<1>6. TabKept' /\ HopeKept'
  BY <1>1, <1>2 DEF TabKept, HopeKept, Switching
<1>7. DangerKept'
  <2>1. Counting /\ Editable(tab)' /\ \A d \in calls' : d.kind # "count"
    BY <1>1, <1>2, <1>3 DEF DangerKept, Counting
  <2>2. ~danger.behind => tab.org = active /\ c.org = tab.org
    BY <1>1, <1>2, <2>1 DEF DangerKept
  <2> QED BY <1>2, <1>4, <2>1, <2>2 DEF DangerKept
<1> QED BY <1>1, <1>2, <1>4, <1>5, <1>6, <1>7, ActiveParts, ActiveAgain DEF ActiveTypeOK

LEMMA CreateLandsKeeps ==
    ASSUME ActiveStrong, NEW c \in calls, NEW x \in Texts, CreateLands(c, x)
    PROVE  ActiveStrong'
<1>1. /\ ActiveTypeOK /\ CallsKept /\ TabKept /\ DangerKept /\ HopeKept
      /\ tab \in Tabs /\ danger \in Dialogs
  BY ActiveParts
<1>2. c \in Calls /\ calls' \subseteq calls
  BY ActiveParts DEF CreateLands, Answered
<1>3. /\ calls' = calls \ {c}
      /\ tab' \in Tabs /\ tab'.org = tab.org /\ tab'.orgName = tab.orgName /\ tab'.list = tab.list
      /\ tab'.page = tab.page
      /\ UNCHANGED <<gone, outside, unaware>> /\ SessionGoes(c.org) /\ active' = c.org
      /\ DOMAIN name' = DOMAIN name \cup {c.org} /\ DOMAIN name' \subseteq Orgs
      /\ \A o \in DOMAIN name' : name'[o] \in Texts
      /\ tab'.due = TRUE
  BY <1>1, <1>2, CallIs, ActiveParts, DialogClosed DEF SessionGoes, CreateLands, Answered, CallsKept, Tabs
<1>4. CallsKept' /\ calls' \subseteq Calls /\ Cardinality(calls') <= MaxCalls
  BY <1>2, <1>3, CallsEnd
<1>5. TabKept'
  BY <1>1, <1>3 DEF TabKept
<1>6. HopeKept'
  BY <1>1, <1>3 DEF HopeKept, Switching
<1>7. danger' \in Dialogs /\ DangerKept' /\ active' = c.org
  BY <1>3, DangerMarked
<1> QED BY <1>1, <1>3, <1>4, <1>5, <1>6, <1>7, ActiveParts, ActiveAgain DEF ActiveTypeOK

LEMMA SaveLandsKeeps ==
    ASSUME ActiveStrong, NEW c \in calls, NEW x \in Texts, SaveLands(c, x)
    PROVE  ActiveStrong'
<1>1. /\ ActiveTypeOK /\ CallsKept /\ TabKept /\ DangerKept /\ HopeKept
      /\ tab \in Tabs /\ danger \in Dialogs
  BY ActiveParts
<1>2. c \in Calls /\ calls' \subseteq calls
  BY ActiveParts DEF SaveLands, Answered
<1>3. /\ calls' = calls \ {c}
      /\ tab' \in Tabs /\ tab'.org = tab.org /\ tab'.orgName = tab.orgName /\ tab'.list = tab.list
      /\ tab'.page = tab.page
      /\ UNCHANGED <<gone, active, danger, outside, unaware>> /\ c.kind # "switch"
      /\ DOMAIN name' = DOMAIN name /\ \A o \in DOMAIN name' : name'[o] \in Texts
      /\ tab'.due = tab.due \/ tab'.due = TRUE
      /\ tab'.optimistic = tab.optimistic /\ tab'.stuck = tab.stuck
  BY <1>1, <1>2, CallIs, ActiveParts, DialogClosed, ZenonT(40) DEF SaveLands, Answered, CallsKept, Tabs
<1>4. CallsKept' /\ calls' \subseteq Calls /\ Cardinality(calls') <= MaxCalls
  BY <1>2, <1>3, CallsEnd
<1>5. TabKept'
  BY <1>1, <1>3 DEF TabKept
<1>6. HopeKept'
  BY <1>1, <1>3 DEF HopeKept, Switching
<1>7. DangerKept'
  BY <1>3, DangerStays
<1> QED BY <1>1, <1>3, <1>4, <1>5, <1>6, <1>7, ActiveParts, ActiveAgain DEF ActiveTypeOK

LEMMA CommitDeletionKeeps ==
    ASSUME ActiveStrong, NEW c \in calls, CommitDeletion(c)
    PROVE  ActiveStrong'
<1>1. /\ ActiveTypeOK /\ CallsKept /\ TabKept /\ DangerKept /\ HopeKept
      /\ tab \in Tabs /\ danger \in Dialogs
  BY ActiveParts
<1> DEFINE d == [kind |-> "deleted", org |-> c.org]
<1>2. /\ gone' = gone \cup {c.org} /\ SessionGoes(Cleared(c.org)) /\ c.kind = "commit"
      /\ unaware' = (unaware \/ active = c.org) /\ UNCHANGED <<name, tab, outside>>
      /\ calls' = (calls \ {c}) \cup {d} /\ c \in Calls
  BY ActiveParts DEF CommitDeletion, Tells
<1>3. c.org \in DOMAIN name /\ gone' \subseteq DOMAIN name
  BY <1>1, <1>2, ActiveParts DEF CallsKept
<1>4. d \in Calls /\ d.kind = "deleted"
  BY <1>3, ActiveParts DEF Calls
<1> HIDE DEF d
<1>5. CallsKept' /\ calls' \subseteq Calls /\ Cardinality(calls') <= MaxCalls
  BY <1>2, <1>4, CallTurns
<1>6. /\ Switching' <=> Switching
      /\ \A b \in calls' : b.kind = "count" => b \in calls
  BY <1>2, <1>4 DEF Switching
<1>7. danger' \in Dialogs /\ DangerKept' /\ active' = Cleared(c.org)
  BY <1>2, <1>6, DangerMarked
<1>8. /\ active' \in {active, NoOrg} /\ unaware' \in BOOLEAN
      /\ ~unaware' => ~unaware /\ active' = active
  BY <1>1, <1>2, <1>7 DEF Cleared, ActiveTypeOK
<1>9. TabKept' /\ HopeKept'
  BY <1>1, <1>2, <1>6, <1>8 DEF TabKept, HopeKept
<1> QED BY <1>1, <1>2, <1>3, <1>5, <1>7, <1>8, <1>9, ActiveParts, ActiveAgain DEF ActiveTypeOK

LEMMA ReactivateLandsKeeps ==
    ASSUME ActiveStrong, NEW c \in calls, ReactivateLands(c)
    PROVE  ActiveStrong'
<1>1. /\ ActiveTypeOK /\ CallsKept /\ TabKept /\ DangerKept /\ HopeKept
      /\ tab \in Tabs /\ danger \in Dialogs
  BY ActiveParts
<1> DEFINE d == [kind |-> "reactivated", org |-> c.org]
<1>2. /\ UNCHANGED <<name, active, tab, danger, outside, unaware>> /\ c.kind = "reactivate"
      /\ gone' \subseteq gone /\ c \in Calls
      /\ calls' = calls \ {c} \/ calls' = (calls \ {c}) \cup {d}
  BY ActiveParts DEF ReactivateLands, Tells, Answered
<1>3. d \in Calls /\ d.kind = "reactivated"
  BY <1>2, CallIs DEF Calls
<1> HIDE DEF d
<1>4. CallsKept' /\ calls' \subseteq Calls /\ Cardinality(calls') <= MaxCalls
  BY <1>2, <1>3, CallsEnd, CallTurns
<1>5. /\ Switching' <=> Switching
      /\ \A b \in calls' : b.kind = "count" => b \in calls
  BY <1>2, <1>3 DEF Switching
<1>6. TabKept' /\ HopeKept' /\ DangerKept'
  BY <1>1, <1>2, <1>5, DangerStays DEF TabKept, HopeKept
<1>7. gone' \subseteq DOMAIN name
  BY <1>2, ActiveParts
<1> QED BY <1>1, <1>2, <1>4, <1>6, <1>7, ActiveParts, ActiveAgain DEF ActiveTypeOK

LEMMA PageReloadsKeeps ==
    ASSUME ActiveStrong, NEW c \in calls, PageReloads(c)
    PROVE  ActiveStrong'
<1>1. /\ ActiveTypeOK /\ CallsKept /\ TabKept /\ DangerKept /\ HopeKept
      /\ tab \in Tabs /\ danger \in Dialogs
  BY ActiveParts
<1>2. /\ UNCHANGED <<name, gone, active, outside>> /\ calls' = {}
      /\ danger' = Closed /\ danger' \in Dialogs /\ unaware' = FALSE
  BY DialogClosed DEF PageReloads
<1> DEFINE P == IF c.kind = "deleted" THEN "dashboard" ELSE tab.page
           N == NameOf(active)
           L == DOMAIN name \ gone
<1>3. tab' = [tab EXCEPT !.org = active, !.orgName = N, !.list = L, !.optimistic = NoOrg,
                        !.stuck = FALSE, !.attempted = FALSE, !.due = FALSE,
                        !.dirty = FALSE, !.page = P]
  BY DEF PageReloads
<1>4. /\ P \in {"dashboard", "settings"} /\ N \in Texts \cup {NoText} /\ L \in SUBSET Orgs
      /\ L \subseteq DOMAIN name
      /\ active # NoOrg => N \in Texts
  BY <1>1, ActiveParts DEF Tabs
<1> HIDE DEF P, N, L
<1>5. /\ tab' \in Tabs /\ tab'.org = active /\ tab'.orgName = N /\ tab'.list = L
      /\ tab'.due = FALSE /\ tab'.optimistic = NoOrg
  BY <1>1, <1>3, <1>4, ActiveParts DEF Tabs
<1>6. CallsKept' /\ calls' \subseteq Calls /\ Cardinality(calls') <= MaxCalls
  BY <1>2, CallsEnd
<1>7. TabKept' /\ HopeKept'
  BY <1>1, <1>2, <1>4, <1>5 DEF TabKept, HopeKept
<1>8. DangerKept'
  BY <1>2, DangerGoes
<1> QED BY <1>1, <1>2, <1>5, <1>6, <1>7, <1>8, ActiveParts, ActiveAgain DEF ActiveTypeOK

LEMMA ActiveStep == ActiveStrong /\ [ActiveNext]_orgVars => ActiveStrong'
<1> SUFFICES ASSUME ActiveStrong, [ActiveNext]_orgVars PROVE ActiveStrong'
  OBVIOUS
<1>1. CASE UNCHANGED orgVars
  BY <1>1 DEF orgVars, ActiveStrong, ActiveTypeOK, CallsKept, TabKept, DangerKept, HopeKept,
     Editable, ShownAsDeleted, Switching, Counting
<1>2. CASE ActiveNext
  <2>1. CASE RefetchActive \/ RefetchList \/ ToSettings \/ \E b \in BOOLEAN : ToDashboard(b)
    BY <2>1, RefetchActiveKeeps, RefetchListKeeps, ToSettingsKeeps, ToDashboardKeeps
  <2>2. CASE \E o \in Orgs : Switch(o) \/ Create(o) \/ OtherTabSwitches(o) \/ OthersDelete(o)
    BY <2>2, SwitchKeeps, CreateKeeps, OtherTabSwitchesKeeps, OthersDeleteKeeps
  <2>3. CASE \/ \E o \in Orgs, t \in Texts : OthersRename(o, t)
             \/ \E b \in BOOLEAN : TypeName(b)
    BY <2>3, OthersRenameKeeps, TypeNameKeeps
  <2>4. CASE AutoSelect \/ Save \/ Reactivate \/ AskImpact \/ CloseDialog \/ Delete
    BY <2>4, AutoSelectKeeps, SaveKeeps, ReactivateKeeps, AskImpactKeeps, CloseDialogKeeps,
       DeleteKeeps
  <2>5. CASE \E c \in calls : \/ CheckDeletion(c) \/ CommitDeletion(c) \/ ReactivateLands(c)
                              \/ PageReloads(c) \/ ImpactArrives(c) \/ CallFails(c)
    BY <2>5, CheckDeletionKeeps, CommitDeletionKeeps, ReactivateLandsKeeps, PageReloadsKeeps,
       ImpactArrivesKeeps, CallFailsKeeps
  <2>6. CASE \E c \in calls :
               \/ \E b \in BOOLEAN : SwitchLands(c, b) \/ SwitchFails(c, b)
               \/ \E t \in Texts : CreateLands(c, t) \/ SaveLands(c, t)
    BY <2>6, SwitchLandsKeeps, SwitchFailsKeeps, CreateLandsKeeps,
       SaveLandsKeeps
  <2> QED BY <1>2, <2>1, <2>2, <2>3, <2>4, <2>5, <2>6 DEF ActiveNext
<1> QED BY <1>1, <1>2

LEMMA ActiveStrongSuffices == ActiveStrong => ActiveOrgInv
<1> SUFFICES ASSUME ActiveStrong PROVE ActiveOrgInv
  OBVIOUS
<1>1. ActiveTypeOK /\ CallsKept /\ HopeKept
  BY DEF ActiveStrong
<1>2. DeletedAsConfirmed
  BY <1>1 DEF CallsKept, DeletedAsConfirmed
<1>3. ShownIsActive
  BY <1>1 DEF HopeKept, ShownIsActive, Displayed, Switching
<1> QED BY <1>1, <1>2, <1>3 DEF ActiveOrgInv

-----------------------------------------------------------------------------
(* The pages, side by side                                                   *)

LEMMA PagesStep == PagesStrong /\ [PagesNext]_<<side, vars, orgVars, keysVars>> => PagesStrong'
<1> SUFFICES ASSUME PagesStrong, [PagesNext]_<<side, vars, orgVars, keysVars>>
             PROVE  PagesStrong'
  OBVIOUS
<1>1. [ActiveNext]_orgVars /\ [KeysNext]_keysVars
  BY DEF PagesNext, WithAccess, WithOrganization, WithKeys
<1> QED BY <1>1, ActiveStep, KeysStep DEF PagesStrong

\* The pages of an organization (useActiveOrganization, the switcher, DangerZoneCard,
\* useApiKeys and the dialogs of the API keys), however answers overtake one another
\* and wherever other tabs move the session: a deletion that the server sets out to
\* make is of the organization that was clicked and counted, unless the session moved
\* after the click or had moved unseen; the tab shows the organization of its session
\* once it was told; a secret leaves its display only when its owner is done, or in
\* one of the ways that Fates names, of which a replaced display takes two creations
\* at once; no row is of another organization, twice in the list or struck out without
\* a cause.
THEOREM OrgPagesKeepTheirWord == PagesSpec => []OrgPagesInv
<1>1. PagesInit => PagesStrong
  BY ActiveBegins, KeysBegin DEF PagesInit, PagesStrong
<1>2. PagesStrong => OrgPagesInv
  BY ActiveStrongSuffices, KeysStrongSuffices DEF PagesStrong, OrgPagesInv
<1> QED BY <1>1, <1>2, PagesStep, PTL DEF PagesSpec
=============================================================================
