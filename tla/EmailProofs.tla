----------------------------- MODULE EmailProofs -----------------------------
(* Proofs about EmailQueue, for any number of mails and processes, any       *)
(* limits and any size of a batch: EmailInv, and the safety part of the     *)
(* promise of Delivery.  What makes them inductive is what a worker has     *)
(* already done of its batch, and that a job which counts as failed was     *)
(* fetched once more often than it was tried.                               *)
EXTENDS EmailQueue, FiniteSetTheorems, TLAPS

\* What a worker has left, and what is done, of each batch.
HandsKept ==
    /\ \A p \in Processes, q \in Queues : hand[p][q].todo \subseteq hand[p][q].batch
    /\ \A p \in Processes :
         /\ \A m \in hand[p]["email-send"].batch \ hand[p]["email-send"].todo : Answered(m)
         /\ \A m \in hand[p]["email-dlq"].batch \ hand[p]["email-dlq"].todo : reports[m] > 0

\* Nothing is handed over, or reported, more often than it was fetched.
CountKept(m) ==
    /\ copies[m] + late[m] + Cardinality(Senders(m)) <= Attempts("email-send", m)
    /\ reports[m] + Cardinality(Reporters(m)) <= Attempts("email-dlq", m)

\* How the two jobs of a mail agree with one another, with what was done and with
\* what was told.
JobsAgree(m) ==
    /\ job["email-dlq"][m] # NoJob <=> job["email-send"][m].state = "failed"
    /\ job["email-send"][m].state = "completed" => Answered(m)
    /\ job["email-dlq"][m].state = "completed" => reports[m] > 0
    /\ m \in promised => job["email-send"][m] # NoJob

EmailStrong ==
    /\ EmailTypeOK
    /\ HandsKept
    /\ \A m \in Mails : CountKept(m) /\ JobsAgree(m)

LEMMA EmailStrongSuffices == EmailStrong => EmailInv
BY DEF EmailStrong, EmailInv, CountKept, JobsAgree

LEMMA EmptyHandIs == EmptyHand.batch = {} /\ EmptyHand.todo = {} /\
                     EmptyHand \in [batch : SUBSET Mails, todo : SUBSET Mails]
BY DEF EmptyHand

LEMMA SameAnswers ==
    ASSUME UNCHANGED <<copies, dropped>>
    PROVE  \A m : Answered(m)' = Answered(m)
BY DEF Answered

LEMMA EmailBegins == EmailInit => EmailStrong
<1> SUFFICES ASSUME EmailInit PROVE EmailStrong
  OBVIOUS
<1>1. \A q \in Queues : NoJob \in Job(q)
  BY EmailAssumption DEF NoJob, Job, Limit, Queues
<1>2. EmailTypeOK
  BY <1>1, EmptyHandIs, EmailAssumption DEF EmailInit, EmailTypeOK
<1>3. HandsKept
  BY EmptyHandIs DEF EmailInit, HandsKept, Queues
<1>4. ASSUME NEW m \in Mails PROVE CountKept(m) /\ JobsAgree(m)
  <2>1. Senders(m) = {} /\ Reporters(m) = {}
    BY EmptyHandIs DEF EmailInit, Senders, Reporters, Queues
  <2>2. Cardinality(Senders(m)) = 0 /\ Cardinality(Reporters(m)) = 0
    BY <2>1, FS_EmptySet
  <2>3. Attempts("email-send", m) = 0 /\ Attempts("email-dlq", m) = 0
    BY DEF EmailInit, Attempts, NoJob, Queues
  <2>4. CountKept(m)
    BY <2>2, <2>3 DEF EmailInit, CountKept
  <2>5. JobsAgree(m)
    BY DEF EmailInit, JobsAgree, NoJob, Queues
  <2> QED BY <2>4, <2>5
<1> QED BY <1>2, <1>3, <1>4 DEF EmailStrong

-----------------------------------------------------------------------------
(* Counting workers                                                          *)

Holders(q, m) == {p \in Processes : m \in hand[p][q].todo}

LEMMA HoldersFinite ==
    \A q, m : /\ IsFiniteSet(Holders(q, m)) /\ Cardinality(Holders(q, m)) \in Nat
              /\ Senders(m) = Holders("email-send", m)
              /\ Reporters(m) = Holders("email-dlq", m)
<1> SUFFICES ASSUME NEW q, NEW m
             PROVE  /\ IsFiniteSet(Holders(q, m)) /\ Cardinality(Holders(q, m)) \in Nat
                    /\ Senders(m) = Holders("email-send", m)
                    /\ Reporters(m) = Holders("email-dlq", m)
  OBVIOUS
<1>1. Holders(q, m) \subseteq Processes
  BY DEF Holders
<1>2. IsFiniteSet(Holders(q, m))
  BY <1>1, EmailAssumption, FS_Subset
<1> QED BY <1>2, FS_CardinalityType DEF Senders, Reporters, Holders

LEMMA NotMore ==
    ASSUME NEW q, NEW m,
           \A p \in Processes : m \in hand'[p][q].todo => m \in hand[p][q].todo
    PROVE  Cardinality(Holders(q, m)') <= Cardinality(Holders(q, m))
<1>1. Holders(q, m)' \subseteq Holders(q, m)
  BY DEF Holders
<1> QED BY <1>1, HoldersFinite, FS_Subset

LEMMA OneFewer ==
    ASSUME NEW q, NEW m, NEW p \in Processes, m \in hand[p][q].todo, m \notin hand'[p][q].todo,
           \A w \in Processes : m \in hand'[w][q].todo => m \in hand[w][q].todo
    PROVE  Cardinality(Holders(q, m)') + 1 <= Cardinality(Holders(q, m))
<1>1. Holders(q, m)' \subseteq Holders(q, m) \ {p} /\ p \in Holders(q, m)
  BY DEF Holders
<1>2. /\ IsFiniteSet(Holders(q, m) \ {p})
      /\ Cardinality(Holders(q, m) \ {p}) = Cardinality(Holders(q, m)) - 1
  BY <1>1, HoldersFinite, FS_RemoveElement
<1>3. Cardinality(Holders(q, m)') <= Cardinality(Holders(q, m) \ {p})
  BY <1>1, <1>2, FS_Subset
<1>4. Cardinality(Holders(q, m)') \in Nat
  BY <1>1, <1>2, FS_Subset, FS_CardinalityType
<1> QED BY <1>2, <1>3, <1>4, HoldersFinite

LEMMA OneMore ==
    ASSUME NEW q, NEW m, NEW p \in Processes,
           \A w \in Processes \ {p} : m \in hand'[w][q].todo => m \in hand[w][q].todo
    PROVE  Cardinality(Holders(q, m)') <= Cardinality(Holders(q, m)) + 1
<1>1. Holders(q, m)' \subseteq Holders(q, m) \cup {p}
  BY DEF Holders
<1>2. /\ IsFiniteSet(Holders(q, m) \cup {p})
      /\ Cardinality(Holders(q, m) \cup {p}) <= Cardinality(Holders(q, m)) + 1
  <2> DEFINE S == Holders(q, m)
  <2>1. IsFiniteSet(S) /\ Cardinality(S) \in Nat
    BY HoldersFinite
  <2> HIDE DEF S
  <2>2. IsFiniteSet(S \cup {p}) /\
        Cardinality(S \cup {p}) = IF p \in S THEN Cardinality(S) ELSE Cardinality(S) + 1
    BY <2>1, FS_AddElement
  <2>3. IsFiniteSet(S \cup {p}) /\ Cardinality(S \cup {p}) <= Cardinality(S) + 1
    BY <2>1, <2>2
  <2> QED BY <2>3 DEF S
<1>3. Cardinality(Holders(q, m)') <= Cardinality(Holders(q, m) \cup {p})
  BY <1>1, <1>2, FS_Subset
<1>4. Cardinality(Holders(q, m)') \in Nat /\ Cardinality(Holders(q, m) \cup {p}) \in Nat
  BY <1>1, <1>2, FS_Subset, FS_CardinalityType
<1> QED BY <1>2, <1>3, <1>4, HoldersFinite

-----------------------------------------------------------------------------
(* Jobs                                                                      *)

LEMMA QueuesAre == /\ Queues = {"email-send", "email-dlq"} /\ "email-send" # "email-dlq"
                   /\ "email-send" \in Queues /\ "email-dlq" \in Queues
BY DEF Queues

LEMMA AttemptsIs ==
    ASSUME NEW q \in Queues, NEW m \in Mails, EmailTypeOK
    PROVE  /\ job[q][m] \in Job(q) /\ job[q][m].tries \in Nat /\ Limit(q) \in Nat
           /\ job[q][m].tries <= Limit(q)
           /\ Attempts(q, m) = IF job[q][m].state \in {"none", "waiting"} THEN job[q][m].tries
                               ELSE job[q][m].tries + 1
           /\ Attempts(q, m) \in 0..(Limit(q) + 1)
<1>1. job[q][m] \in Job(q) /\ Limit(q) \in Nat
  BY EmailAssumption DEF EmailTypeOK, Limit
<1>2. job[q][m].tries \in 0..Limit(q)
  BY <1>1 DEF Job
<1>3. Attempts(q, m) = IF job[q][m].state \in {"none", "waiting"} THEN job[q][m].tries
                               ELSE job[q][m].tries + 1
  BY DEF Attempts
<1> QED BY <1>1, <1>2, <1>3

\* A try that fails.
LEMMA FailedIs ==
    ASSUME NEW q \in Queues, NEW m \in Mails, EmailTypeOK, job[q][m].state = "active"
    PROVE  /\ Failed(q, m) \in Job(q)
           /\ Failed(q, m).state = IF Exhausted(q, m) THEN "failed" ELSE "waiting"
           /\ Failed(q, m).tries = IF Exhausted(q, m) THEN job[q][m].tries
                                   ELSE job[q][m].tries + 1
           /\ Failed(q, m) # NoJob
<1>1. job[q][m] \in Job(q) /\ job[q][m].tries \in 0..Limit(q) /\ Limit(q) \in Nat
  BY AttemptsIs
<1>2. CASE Exhausted(q, m)
  <2>1. Failed(q, m) = [job[q][m] EXCEPT !.state = "failed"]
    BY <1>2 DEF Failed
  <2> QED BY <1>1, <1>2, <2>1 DEF Job, NoJob
<1>3. CASE ~Exhausted(q, m)
  <2>1. Failed(q, m) = [state |-> "waiting", tries |-> job[q][m].tries + 1]
    BY <1>3 DEF Failed
  <2>2. job[q][m].tries + 1 \in 0..Limit(q)
    BY <1>1, <1>3 DEF Exhausted
  <2> QED BY <1>3, <2>1, <2>2 DEF Job, NoJob
<1> QED BY <1>2, <1>3

\* The queue after attempts failed: whatever becomes of them, they count as
\* before, and a mail gets a dead letter exactly when its attempts are used up.
LEMMA FailJobsIs ==
    ASSUME EmailTypeOK, NEW q \in Queues, NEW ms, FailJobs(q, ms)
    PROVE  /\ DOMAIN job' = Queues
           /\ \A k \in Queues, m \in Mails :
                job'[k][m] = IF k = q /\ m \in ms /\ job[q][m].state = "active"
                             THEN Failed(q, m)
                             ELSE IF k = "email-dlq" /\ q = "email-send" /\ m \in ms
                                     /\ job[q][m].state = "active" /\ Exhausted(q, m)
                                  THEN Created ELSE job[k][m]
           /\ \A k \in Queues : job'[k] \in [Mails -> Job(k)]
<1> DEFINE hit == {m \in ms : job[q][m].state = "active"}
           dead == {m \in hit : q = "email-send" /\ Exhausted(q, m)}
           Next1(k, m) == CASE k = q /\ m \in hit -> Failed(q, m)
                            [] k = "email-dlq" /\ m \in dead -> Created
                            [] OTHER -> job[k][m]
           Next2(k, m) == IF k = q /\ m \in ms /\ job[q][m].state = "active"
                          THEN Failed(q, m)
                          ELSE IF k = "email-dlq" /\ q = "email-send" /\ m \in ms
                                  /\ job[q][m].state = "active" /\ Exhausted(q, m)
                               THEN Created ELSE job[k][m]
<1>1. job' = [k \in Queues |-> [m \in Mails |-> Next1(k, m)]]
  BY DEF FailJobs
<1>2. ASSUME NEW k, NEW m PROVE Next1(k, m) = Next2(k, m)
  <2>1. CASE k = q /\ m \in hit
    <3>1. ~(k = "email-dlq" /\ m \in dead)
      BY <2>1, QueuesAre
    <3> QED BY <2>1, <3>1
  <2>2. CASE k # q \/ m \notin hit
    BY <2>2
  <2> QED BY <2>1, <2>2
<1> HIDE DEF Next1
<1>3. \A k \in Queues, m \in Mails : job'[k][m] = Next2(k, m)
  BY <1>1, <1>2
<1>4. ASSUME NEW k \in Queues, NEW m \in Mails PROVE Next2(k, m) \in Job(k)
  <2>1. job[k][m] \in Job(k) /\ Created \in Job("email-dlq")
    BY AttemptsIs, EmailAssumption DEF Created, Job, Limit
  <2>2. job[q][m].state = "active" => Failed(q, m) \in Job(q)
    BY FailedIs
  <2> QED BY <2>1, <2>2
<1>5. \A k \in Queues : job'[k] = [m \in Mails |-> Next1(k, m)]
  BY <1>1
<1>6. \A k \in Queues : job'[k] \in [Mails -> Job(k)]
  BY <1>2, <1>4, <1>5, ZenonT(40)
<1> HIDE DEF Next2
<1>7. DOMAIN job' = Queues
  BY <1>1
<1> QED BY <1>3, <1>6, <1>7 DEF Next2

LEMMA FailuresAgree ==
    ASSUME EmailStrong, NEW q \in Queues, NEW ms, FailJobs(q, ms), promised' = promised,
           \A m \in Mails : /\ Answered(m) => Answered(m)'
                            /\ reports[m] > 0 => reports'[m] > 0
    PROVE  /\ DOMAIN job' = Queues /\ \A k \in Queues : job'[k] \in [Mails -> Job(k)]
           /\ \A m \in Mails :
                /\ JobsAgree(m)'
                /\ \A k \in Queues : Attempts(k, m)' = Attempts(k, m)
<1> USE DEF Queues
<1>1. EmailTypeOK
  BY DEF EmailStrong
<1>2. DOMAIN job' = Queues /\ \A k \in Queues : job'[k] \in [Mails -> Job(k)]
  BY <1>1, FailJobsIs
<1> SUFFICES ASSUME NEW m \in Mails
             PROVE  JobsAgree(m)' /\ \A k \in Queues : Attempts(k, m)' = Attempts(k, m)
  BY <1>2
<1> DEFINE s == "email-send"
           d == "email-dlq"
           hit == m \in ms /\ job[q][m].state = "active"
<1>3. JobsAgree(m) /\ NoJob.state = "none" /\ NoJob.tries = 0
  BY DEF EmailStrong, NoJob
<1>4. Created # NoJob /\ Created.state = "waiting" /\ Created.tries = 0
  BY DEF Created, NoJob
<1>5. /\ q = s => job'[s][m] = IF hit THEN Failed(s, m) ELSE job[s][m]
      /\ q = s => job'[d][m] = IF hit /\ Exhausted(s, m) THEN Created ELSE job[d][m]
      /\ q = d => job'[s][m] = job[s][m]
      /\ q = d => job'[d][m] = IF hit THEN Failed(d, m) ELSE job[d][m]
  BY <1>1, FailJobsIs, QueuesAre
<1>6. hit => /\ Failed(q, m).state = IF Exhausted(q, m) THEN "failed" ELSE "waiting"
             /\ Failed(q, m).tries = IF Exhausted(q, m) THEN job[q][m].tries
                                   ELSE job[q][m].tries + 1
             /\ Failed(q, m) # NoJob
  BY <1>1, FailedIs
<1>7. \A k \in Queues : /\ job[k][m].tries \in Nat
                        /\ Attempts(k, m) = IF job[k][m].state \in {"none", "waiting"}
                                            THEN job[k][m].tries ELSE job[k][m].tries + 1
                        /\ Attempts(k, m)' = IF job'[k][m].state \in {"none", "waiting"}
                                             THEN job'[k][m].tries ELSE job'[k][m].tries + 1
  BY <1>1, AttemptsIs DEF Attempts
<1> HIDE DEF hit
<1>8. CASE q = s
  <2>1. CASE hit
    <3>1. job[s][m].state = "active" /\ job[d][m] = NoJob
      BY <1>3, <1>8, <2>1 DEF JobsAgree, hit
    <3>2. Attempts(s, m)' = Attempts(s, m) /\ Attempts(d, m)' = Attempts(d, m)
      BY <1>3, <1>4, <1>5, <1>6, <1>7, <1>8, <2>1, <3>1
    <3>3. JobsAgree(m)'
      BY <1>3, <1>4, <1>5, <1>6, <1>8, <2>1, <3>1 DEF JobsAgree
    <3> QED BY <3>2, <3>3
  <2>2. CASE ~hit
    <3>1. job'[s][m] = job[s][m] /\ job'[d][m] = job[d][m]
      BY <1>5, <1>8, <2>2
    <3> QED BY <1>3, <1>7, <3>1 DEF JobsAgree
  <2> QED BY <2>1, <2>2
<1>9. CASE q = d
  <2>1. CASE hit
    <3>1. job[d][m].state = "active" /\ job[d][m] # NoJob
      BY <1>3, <1>9, <2>1 DEF hit
    <3>2. Attempts(s, m)' = Attempts(s, m) /\ Attempts(d, m)' = Attempts(d, m)
      BY <1>5, <1>6, <1>7, <1>9, <2>1, <3>1
    <3>3. JobsAgree(m)'
      BY <1>3, <1>5, <1>6, <1>9, <2>1, <3>1 DEF JobsAgree
    <3> QED BY <3>2, <3>3
  <2>2. CASE ~hit
    <3>1. job'[s][m] = job[s][m] /\ job'[d][m] = job[d][m]
      BY <1>5, <1>9, <2>2
    <3> QED BY <1>3, <1>7, <3>1 DEF JobsAgree
  <2> QED BY <2>1, <2>2
<1> QED BY <1>8, <1>9

LEMMA SameJobsAgree ==
    ASSUME EmailStrong, UNCHANGED <<job, promised>>,
           \A m \in Mails : /\ Answered(m) => Answered(m)'
                            /\ reports[m] > 0 => reports'[m] > 0
    PROVE  /\ DOMAIN job' = Queues /\ \A k \in Queues : job'[k] \in [Mails -> Job(k)]
           /\ \A m \in Mails :
                /\ JobsAgree(m)'
                /\ \A k \in Queues : Attempts(k, m)' = Attempts(k, m)
BY DEF EmailStrong, EmailTypeOK, JobsAgree, Attempts

LEMMA CountsAreNumbers ==
    \A m : /\ Cardinality(Senders(m)) \in Nat /\ Cardinality(Senders(m)') \in Nat
           /\ Cardinality(Reporters(m)) \in Nat /\ Cardinality(Reporters(m)') \in Nat
<1> SUFFICES ASSUME NEW m
             PROVE  /\ Cardinality(Senders(m)) \in Nat /\ Cardinality(Senders(m)') \in Nat
                    /\ Cardinality(Reporters(m)) \in Nat /\ Cardinality(Reporters(m)') \in Nat
  OBVIOUS
<1>1. /\ IsFiniteSet(Senders(m)) /\ IsFiniteSet(Reporters(m))
      /\ IsFiniteSet(Senders(m)') /\ IsFiniteSet(Reporters(m)')
  BY EmailAssumption, FS_Subset DEF Senders, Reporters
<1> QED BY <1>1, FS_CardinalityType

\* Workers let go of mails, and nothing is handed over.
LEMMA LettingGoCounts ==
    ASSUME EmailStrong, NEW m \in Mails,
           \A k \in Queues : Attempts(k, m)' = Attempts(k, m),
           \A p \in Processes, k \in Queues : m \in hand'[p][k].todo => m \in hand[p][k].todo,
           copies'[m] \in Nat, late'[m] \in Nat, copies'[m] + late'[m] <= copies[m] + late[m],
           reports'[m] = reports[m]
    PROVE  CountKept(m)'
<1>1. /\ CountKept(m) /\ copies[m] \in Nat /\ late[m] \in Nat /\ reports[m] \in Nat
      /\ Attempts("email-send", m) \in Int /\ Attempts("email-dlq", m) \in Int
  <2>1. EmailTypeOK /\ CountKept(m)
    BY DEF EmailStrong
  <2>2. copies[m] \in Nat /\ late[m] \in Nat /\ reports[m] \in Nat
    BY <2>1 DEF EmailTypeOK
  <2> QED BY <2>1, <2>2, AttemptsIs, QueuesAre
<1>2. /\ Cardinality(Senders(m)') <= Cardinality(Senders(m))
      /\ Cardinality(Reporters(m)') <= Cardinality(Reporters(m))
  BY NotMore, HoldersFinite, QueuesAre DEF Senders, Reporters, Holders
<1>3. /\ Cardinality(Senders(m)) \in Nat /\ Cardinality(Senders(m)') \in Nat
      /\ Cardinality(Reporters(m)) \in Nat /\ Cardinality(Reporters(m)') \in Nat
  BY CountsAreNumbers
<1> QED BY <1>1, <1>2, <1>3, QueuesAre DEF CountKept

\* A worker lets go of a mail that is handed over or goes on late.
LEMMA HandedOverCounts ==
    ASSUME EmailStrong, NEW m \in Mails, NEW p \in Processes,
           m \in hand[p]["email-send"].todo, m \notin hand'[p]["email-send"].todo,
           \A k \in Queues : Attempts(k, m)' = Attempts(k, m),
           \A w \in Processes, k \in Queues : m \in hand'[w][k].todo => m \in hand[w][k].todo,
           copies'[m] \in Nat, late'[m] \in Nat, copies'[m] + late'[m] <= copies[m] + late[m] + 1,
           reports'[m] = reports[m]
    PROVE  CountKept(m)'
<1>1. /\ CountKept(m) /\ copies[m] \in Nat /\ late[m] \in Nat /\ reports[m] \in Nat
      /\ Attempts("email-send", m) \in Int /\ Attempts("email-dlq", m) \in Int
  <2>1. EmailTypeOK /\ CountKept(m)
    BY DEF EmailStrong
  <2>2. copies[m] \in Nat /\ late[m] \in Nat /\ reports[m] \in Nat
    BY <2>1 DEF EmailTypeOK
  <2> QED BY <2>1, <2>2, AttemptsIs, QueuesAre
<1>2. /\ Cardinality(Senders(m)') + 1 <= Cardinality(Senders(m))
      /\ Cardinality(Reporters(m)') <= Cardinality(Reporters(m))
  BY OneFewer, NotMore, HoldersFinite, QueuesAre DEF Senders, Reporters, Holders
<1>3. /\ Cardinality(Senders(m)) \in Nat /\ Cardinality(Senders(m)') \in Nat
      /\ Cardinality(Reporters(m)) \in Nat /\ Cardinality(Reporters(m)') \in Nat
  BY CountsAreNumbers
<1> QED BY <1>1, <1>2, <1>3, QueuesAre DEF CountKept

\* A worker lets go of a dead letter that it reports.
LEMMA ReportedCounts ==
    ASSUME EmailStrong, NEW m \in Mails, NEW p \in Processes,
           m \in hand[p]["email-dlq"].todo, m \notin hand'[p]["email-dlq"].todo,
           \A k \in Queues : Attempts(k, m)' = Attempts(k, m),
           \A w \in Processes, k \in Queues : m \in hand'[w][k].todo => m \in hand[w][k].todo,
           copies'[m] = copies[m], late'[m] = late[m], reports'[m] = reports[m] + 1
    PROVE  CountKept(m)'
<1>1. /\ CountKept(m) /\ copies[m] \in Nat /\ late[m] \in Nat /\ reports[m] \in Nat
      /\ Attempts("email-send", m) \in Int /\ Attempts("email-dlq", m) \in Int
  <2>1. EmailTypeOK /\ CountKept(m)
    BY DEF EmailStrong
  <2>2. copies[m] \in Nat /\ late[m] \in Nat /\ reports[m] \in Nat
    BY <2>1 DEF EmailTypeOK
  <2> QED BY <2>1, <2>2, AttemptsIs, QueuesAre
<1>2. /\ Cardinality(Senders(m)') <= Cardinality(Senders(m))
      /\ Cardinality(Reporters(m)') + 1 <= Cardinality(Reporters(m))
  BY OneFewer, NotMore, HoldersFinite, QueuesAre DEF Senders, Reporters, Holders
<1>3. /\ Cardinality(Senders(m)) \in Nat /\ Cardinality(Senders(m)') \in Nat
      /\ Cardinality(Reporters(m)) \in Nat /\ Cardinality(Reporters(m)') \in Nat
  BY CountsAreNumbers
<1> QED BY <1>1, <1>2, <1>3, QueuesAre DEF CountKept

-----------------------------------------------------------------------------
(* Batches                                                                   *)

Batches == [batch : SUBSET Mails, todo : SUBSET Mails]

LEMMA HandsAre ==
    ASSUME EmailTypeOK, NEW p \in Processes, NEW q \in Queues
    PROVE  hand[p][q] \in Batches /\ hand[p][q].batch \subseteq Mails /\ hand[p][q].todo \subseteq Mails
BY DEF EmailTypeOK, Batches

LEMMA HandSet ==
    ASSUME EmailTypeOK, NEW p \in Processes, NEW q \in Queues, NEW e \in Batches,
           hand' = [hand EXCEPT ![p] = [@ EXCEPT ![q] = e]]
    PROVE  /\ hand' \in [Processes -> [Queues -> Batches]]
           /\ \A w \in Processes, k \in Queues :
                hand'[w][k] = IF w = p /\ k = q THEN e ELSE hand[w][k]
<1>1. hand \in [Processes -> [Queues -> Batches]]
  BY DEF EmailTypeOK, Batches
<1> HIDE DEF Batches
<1>2. [hand[p] EXCEPT ![q] = e] \in [Queues -> Batches]
  BY <1>1
<1>3. hand' \in [Processes -> [Queues -> Batches]]
  BY <1>1, <1>2
<1> QED BY <1>1, <1>3

LEMMA Released ==
    ASSUME EmailTypeOK, NEW p \in Processes, NEW q \in Queues, Release(p, q)
    PROVE  /\ hand' \in [Processes -> [Queues -> Batches]]
           /\ \A w \in Processes, k \in Queues :
                hand'[w][k] = IF w = p /\ k = q THEN EmptyHand ELSE hand[w][k]
<1>1. EmptyHand \in Batches
  BY EmptyHandIs DEF Batches
<1> QED BY <1>1, HandSet, ZenonT(40) DEF Release

LEMMA HandledIs ==
    ASSUME EmailTypeOK, NEW p \in Processes, NEW q \in Queues, NEW m, Handled(p, q, m)
    PROVE  /\ m \in hand[p][q].todo /\ m \in Mails
           /\ hand' \in [Processes -> [Queues -> Batches]]
           /\ \A w \in Processes, k \in Queues :
                hand'[w][k] = IF w = p /\ k = q
                              THEN [batch |-> hand[p][q].batch, todo |-> hand[p][q].todo \ {m}]
                              ELSE hand[w][k]
<1>1. hand[p][q].batch \subseteq Mails /\ hand[p][q].todo \subseteq Mails /\ m \in hand[p][q].todo
  BY HandsAre DEF Handled
<1> DEFINE e == [batch |-> hand[p][q].batch, todo |-> hand[p][q].todo \ {m}]
<1>2. e \in Batches
  BY <1>1 DEF Batches
<1>3. hand \in [Processes -> [Queues -> Batches]]
  BY DEF EmailTypeOK, Batches
<1>4. hand' = [hand EXCEPT ![p] = [@ EXCEPT ![q] = e]]
  BY DEF Handled
<1> HIDE DEF e
<1>5. /\ hand' \in [Processes -> [Queues -> Batches]]
      /\ \A w \in Processes, k \in Queues :
                hand'[w][k] = IF w = p /\ k = q THEN e ELSE hand[w][k]
  BY <1>2, <1>4, HandSet, ZenonT(40)
<1> QED BY <1>1, <1>5 DEF e

\* Nothing counted is taken back, and workers keep their batches or let them go.
LEMMA EmptyHandsKeep ==
    ASSUME EmailStrong,
           \A p \in Processes, q \in Queues : hand'[p][q] = hand[p][q] \/ hand'[p][q] = EmptyHand,
           \A m \in Mails : /\ Answered(m) => Answered(m)'
                            /\ reports[m] > 0 => reports'[m] > 0
    PROVE  HandsKept'
<1>1. HandsKept /\ EmptyHand.batch = {} /\ EmptyHand.todo = {} /\ EmailTypeOK
  BY EmptyHandIs DEF EmailStrong
<1>2. ASSUME NEW p \in Processes, NEW q \in Queues PROVE hand'[p][q].todo \subseteq hand'[p][q].batch
  BY <1>1 DEF HandsKept
<1>3. ASSUME NEW p \in Processes, NEW m \in hand'[p]["email-send"].batch \ hand'[p]["email-send"].todo
      PROVE  Answered(m)'
  <2>1. hand'[p]["email-send"] = hand[p]["email-send"] /\ m \in Mails
    BY <1>1, <1>3, HandsAre, QueuesAre
  <2> QED BY <1>1, <1>3, <2>1 DEF HandsKept
<1>4. ASSUME NEW p \in Processes, NEW m \in hand'[p]["email-dlq"].batch \ hand'[p]["email-dlq"].todo
      PROVE  reports'[m] > 0
  <2>1. hand'[p]["email-dlq"] = hand[p]["email-dlq"] /\ m \in Mails
    BY <1>1, <1>4, HandsAre, QueuesAre
  <2> QED BY <1>1, <1>4, <2>1 DEF HandsKept
<1> QED BY <1>2, <1>3, <1>4 DEF HandsKept

LEMMA StrongAgain ==
    ASSUME EmailStrong, DOMAIN job' = Queues, \A k \in Queues : job'[k] \in [Mails -> Job(k)],
           promised' \subseteq Mails, hand' \in [Processes -> [Queues -> Batches]],
           running' \in [Processes -> {"up", "stopping", "down"}],
           late' \in [Mails -> Nat], copies' \in [Mails -> Nat], dropped' \subseteq Mails,
           reports' \in [Mails -> Nat],
           faults' \in 0..MaxFaults,
           HandsKept', \A m \in Mails : CountKept(m)' /\ JobsAgree(m)'
    PROVE  EmailStrong'
BY DEF EmailStrong, EmailTypeOK, Batches

-----------------------------------------------------------------------------
(* Steps                                                                     *)

StoredStep(m) ==
    /\ Asked(m) /\ Stored(m)
    /\ promised' = promised \/ promised' = promised \cup {m}

LEMMA StoredStepKeeps ==
    ASSUME EmailStrong, NEW x \in Mails, StoredStep(x)
    PROVE  EmailStrong'
<1> USE DEF Queues
<1>1. EmailTypeOK /\ UNCHANGED <<hand, running, late, copies, dropped, reports, faults>>
  BY DEF EmailStrong, StoredStep, Asked
<1>2. /\ job["email-send"] \in [Mails -> Job("email-send")] /\ DOMAIN job = Queues
      /\ job["email-dlq"] \in [Mails -> Job("email-dlq")]
  BY <1>1 DEF EmailTypeOK
<1>3. /\ Created \in Job("email-send") /\ Created # NoJob /\ Created.state = "waiting"
      /\ Created.tries = 0 /\ NoJob.state = "none" /\ NoJob.tries = 0
  BY EmailAssumption DEF Created, NoJob, Job, Limit
<1>4. /\ DOMAIN job' = Queues /\ job'["email-dlq"] = job["email-dlq"]
      /\ job'["email-send"] = [job["email-send"] EXCEPT ![x] = Created]
  BY <1>2 DEF StoredStep, Stored
<1>5. job["email-send"][x] = NoJob /\ (promised' = promised \/ promised' = promised \cup {x})
  BY DEF StoredStep, Asked
<1>6. \A k \in Queues : job'[k] \in [Mails -> Job(k)]
  BY <1>2, <1>3, <1>4
<1>7. \A m \in Mails : job'["email-send"][m] = IF m = x THEN Created ELSE job["email-send"][m]
  BY <1>2, <1>4
<1>8. ASSUME NEW m \in Mails PROVE CountKept(m)' /\ JobsAgree(m)'
  <2>1. JobsAgree(m)
    BY DEF EmailStrong
  <2>2. JobsAgree(m)'
    BY <1>1, <1>3, <1>4, <1>5, <1>7, <2>1, SameAnswers DEF JobsAgree
  <2>3. \A k \in Queues : Attempts(k, m)' = Attempts(k, m)
    BY <1>3, <1>4, <1>5, <1>7 DEF Attempts
  <2>4. copies[m] \in Nat /\ late[m] \in Nat
    BY <1>1 DEF EmailTypeOK
  <2>5. CountKept(m)'
    BY <1>1, <2>3, <2>4, LettingGoCounts
  <2> QED BY <2>2, <2>5
<1>9. HandsKept'
  BY <1>1, EmptyHandsKeep, SameAnswers
<1>10. promised' \subseteq Mails
  BY <1>1, <1>5 DEF EmailTypeOK
<1> QED
  <2>1. hand' \in [Processes -> [Queues -> Batches]]
    BY <1>1 DEF EmailTypeOK, Batches
  <2>2. /\ running' \in [Processes -> {"up", "stopping", "down"}]
        /\ late' \in [Mails -> Nat] /\ copies' \in [Mails -> Nat] /\ dropped' \subseteq Mails
        /\ reports' \in [Mails -> Nat] /\ faults' \in 0..MaxFaults
    BY <1>1 DEF EmailTypeOK
  <2> QED BY <1>4, <1>6, <1>8, <1>9, <1>10, <2>1, <2>2, StrongAgain

\* Steps after which every attempt counts as before, and whose hands and counts
\* are known: what is left to show is what becomes of the mails.
LEMMA SettledStep ==
    ASSUME EmailStrong,
           DOMAIN job' = Queues, \A k \in Queues : job'[k] \in [Mails -> Job(k)],
           \A m \in Mails : JobsAgree(m)' /\ CountKept(m)',
           promised' = promised,
           \A p \in Processes, q \in Queues : hand'[p][q] = hand[p][q] \/ hand'[p][q] = EmptyHand,
           hand' \in [Processes -> [Queues -> Batches]],
           running' \in [Processes -> {"up", "stopping", "down"}],
           late' \in [Mails -> Nat], copies' \in [Mails -> Nat], dropped' \subseteq Mails,
           reports' \in [Mails -> Nat],
           faults' \in 0..MaxFaults,
           \A m \in Mails : /\ Answered(m) => Answered(m)'
                            /\ reports[m] > 0 => reports'[m] > 0
    PROVE  EmailStrong'
<1>1. HandsKept'
  BY EmptyHandsKeep
<1>2. promised' \subseteq Mails
  BY DEF EmailStrong, EmailTypeOK
<1> QED BY <1>1, <1>2, StrongAgain

LEMMA FetchKeeps ==
    ASSUME EmailStrong, NEW p \in Processes, NEW q \in Queues, NEW ms \in SUBSET Mails,
           Fetch(p, q, ms)
    PROVE  EmailStrong'
<1>1. /\ EmailTypeOK /\ HandsKept
      /\ UNCHANGED <<promised, running, late, copies, dropped, reports, faults>>
      /\ hand[p][q].batch = {} /\ \A m \in ms : job[q][m].state = "waiting"
  BY DEF EmailStrong, Fetch
<1> DEFINE f == [m \in Mails |-> IF m \in ms THEN [job[q][m] EXCEPT !.state = "active"]
                                 ELSE job[q][m]]
           e == [batch |-> ms, todo |-> ms]
<1>2. job' = [job EXCEPT ![q] = f] /\ hand' = [hand EXCEPT ![p] = [@ EXCEPT ![q] = e]]
  BY DEF Fetch
<1>3. e \in Batches /\ e.todo = ms /\ e.batch = ms
  BY DEF Batches
<1> HIDE DEF e
<1>4. /\ hand' \in [Processes -> [Queues -> Batches]]
      /\ \A w \in Processes, k \in Queues :
           hand'[w][k] = IF w = p /\ k = q THEN e ELSE hand[w][k]
  BY <1>1, <1>2, <1>3, HandSet, ZenonT(40)
<1>5. ASSUME NEW m \in Mails PROVE /\ f[m] \in Job(q) /\ f[m].tries = job[q][m].tries
                                   /\ f[m].state = IF m \in ms THEN "active" ELSE job[q][m].state
                                   /\ m \notin ms => f[m] = job[q][m]
  <2>1. job[q][m] \in Job(q)
    BY <1>1, AttemptsIs
  <2> QED BY <2>1 DEF Job
<1>6. f \in [Mails -> Job(q)]
  BY <1>5
<1> HIDE DEF f
<1>7. /\ DOMAIN job' = Queues /\ job'[q] = f
      /\ \A k \in Queues : k # q => job'[k] = job[k]
      /\ \A k \in Queues : job'[k] \in [Mails -> Job(k)]
  BY <1>1, <1>2, <1>6 DEF EmailTypeOK
<1>8. ASSUME NEW m \in Mails PROVE JobsAgree(m)'
  <2>1. JobsAgree(m) /\ NoJob.state = "none"
    BY DEF EmailStrong, NoJob
  <2>2. \A k \in Queues : \/ job'[k][m] = job[k][m]
                          \/ job[k][m].state = "waiting" /\ job'[k][m].state = "active"
    BY <1>1, <1>5, <1>7
  <2> QED BY <1>1, <2>1, <2>2, QueuesAre, SameAnswers DEF JobsAgree
<1>9. ASSUME NEW m \in Mails PROVE CountKept(m)'
  <2>1. copies[m] \in Nat /\ late[m] \in Nat /\ reports[m] \in Nat /\ CountKept(m)
    BY <1>1 DEF EmailTypeOK, EmailStrong
  <2>2. CASE m \notin ms
    <3>1. \A k \in Queues : job'[k][m] = job[k][m]
      BY <1>5, <1>7, <2>2
    <3>2. \A k \in Queues : Attempts(k, m)' = Attempts(k, m)
      BY <3>1 DEF Attempts
    <3>3. \A w \in Processes, k \in Queues : m \in hand'[w][k].todo => m \in hand[w][k].todo
      BY <1>3, <1>4, <2>2
    <3> QED BY <1>1, <2>1, <3>2, <3>3, LettingGoCounts
  <2>3. CASE m \in ms
    <3>1. Attempts(q, m)' = Attempts(q, m) + 1
      BY <1>1, <1>5, <1>7, <2>3, AttemptsIs DEF Attempts
    <3>2. \A k \in Queues : k # q => Attempts(k, m)' = Attempts(k, m)
      BY <1>7 DEF Attempts
    <3>3. Cardinality(Holders(q, m)') <= Cardinality(Holders(q, m)) + 1
      <4>1. \A w \in Processes \ {p} : m \in hand'[w][q].todo => m \in hand[w][q].todo
        BY <1>4
      <4> QED BY <4>1, OneMore
    <3>4. ASSUME NEW k \in Queues, k # q
          PROVE  Cardinality(Holders(k, m)') <= Cardinality(Holders(k, m))
      <4>1. \A w \in Processes : m \in hand'[w][k].todo => m \in hand[w][k].todo
        BY <1>4, <3>4
      <4> QED BY <4>1, NotMore
    <3>5. /\ Senders(m) = Holders("email-send", m) /\ Reporters(m) = Holders("email-dlq", m)
          /\ Senders(m)' = Holders("email-send", m)' /\ Reporters(m)' = Holders("email-dlq", m)'
      BY DEF Senders, Reporters, Holders
    <3>6. Attempts("email-send", m) \in Int /\ Attempts("email-dlq", m) \in Int
      BY <1>1, AttemptsIs, QueuesAre
    <3>7. CASE q = "email-send"
      BY <1>1, <2>1, <3>1, <3>2, <3>3, <3>4, <3>5, <3>6, <3>7, CountsAreNumbers, QueuesAre
         DEF CountKept
    <3>8. CASE q = "email-dlq"
      BY <1>1, <2>1, <3>1, <3>2, <3>3, <3>4, <3>5, <3>6, <3>8, CountsAreNumbers, QueuesAre
         DEF CountKept
    <3> QED BY <3>7, <3>8, QueuesAre
  <2> QED BY <2>2, <2>3
<1>10. HandsKept'
  <2>1. \A w \in Processes, k \in Queues :
          hand'[w][k].todo \subseteq hand'[w][k].batch
    BY <1>1, <1>3, <1>4 DEF HandsKept
  <2>2. \A w \in Processes, k \in Queues :
          hand'[w][k].batch \ hand'[w][k].todo \subseteq hand[w][k].batch \ hand[w][k].todo
    BY <1>3, <1>4
  <2> QED BY <1>1, <2>1, <2>2, QueuesAre, SameAnswers DEF HandsKept
<1> QED
  <2>1. /\ promised' \subseteq Mails /\ running' \in [Processes -> {"up", "stopping", "down"}]
        /\ late' \in [Mails -> Nat] /\ copies' \in [Mails -> Nat] /\ dropped' \subseteq Mails
        /\ reports' \in [Mails -> Nat] /\ faults' \in 0..MaxFaults
    BY <1>1 DEF EmailTypeOK
  <2> QED BY <1>4, <1>7, <1>8, <1>9, <1>10, <2>1, StrongAgain

LEMMA FinishKeeps ==
    ASSUME EmailStrong, NEW p \in Processes, NEW q \in Queues, Finish(p, q)
    PROVE  EmailStrong'
<1>1. /\ EmailTypeOK /\ HandsKept
      /\ UNCHANGED <<promised, running, late, copies, dropped, reports, faults>>
      /\ hand[p][q].todo = {} /\ Release(p, q)
  BY DEF EmailStrong, Finish
<1> DEFINE ms == hand[p][q].batch
           f == [m \in Mails |-> IF m \in ms /\ job[q][m].state = "active"
                                 THEN [job[q][m] EXCEPT !.state = "completed"]
                                 ELSE job[q][m]]
<1>2. job' = [job EXCEPT ![q] = f]
  BY DEF Finish, CompleteJobs
<1>3. /\ hand' \in [Processes -> [Queues -> Batches]]
      /\ \A w \in Processes, k \in Queues :
           hand'[w][k] = IF w = p /\ k = q THEN EmptyHand ELSE hand[w][k]
  BY <1>1, Released
<1>4. ASSUME NEW m \in Mails
      PROVE  /\ f[m] \in Job(q) /\ f[m].tries = job[q][m].tries
             /\ \/ f[m] = job[q][m]
                \/ m \in ms /\ job[q][m].state = "active" /\ f[m].state = "completed"
  <2>1. job[q][m] \in Job(q)
    BY <1>1, AttemptsIs
  <2> QED BY <2>1 DEF Job
<1>5. f \in [Mails -> Job(q)]
  BY <1>4
<1>6. \A m \in ms : (q = "email-send" => Answered(m)) /\ (q = "email-dlq" => reports[m] > 0)
  BY <1>1 DEF HandsKept
<1> HIDE DEF f, ms
<1>7. /\ DOMAIN job' = Queues /\ job'[q] = f
      /\ \A k \in Queues : k # q => job'[k] = job[k]
      /\ \A k \in Queues : job'[k] \in [Mails -> Job(k)]
  BY <1>1, <1>2, <1>5 DEF EmailTypeOK
<1>8. ASSUME NEW m \in Mails PROVE JobsAgree(m)' /\ CountKept(m)'
  <2>1. JobsAgree(m) /\ NoJob.state = "none"
    BY DEF EmailStrong, NoJob
  <2>2. \A k \in Queues : \/ job'[k][m] = job[k][m]
                          \/ /\ k = q /\ m \in ms /\ job[k][m].state = "active"
                             /\ job'[k][m].state = "completed"
    BY <1>4, <1>7
  <2>3. JobsAgree(m)'
    BY <1>1, <1>6, <2>1, <2>2, QueuesAre, SameAnswers DEF JobsAgree
  <2>4. \A k \in Queues : job'[k][m].tries = job[k][m].tries
    BY <1>4, <1>7
  <2>5. \A k \in Queues : Attempts(k, m)' = Attempts(k, m)
    BY <2>2, <2>4 DEF Attempts
  <2>6. copies[m] \in Nat /\ late[m] \in Nat
    BY <1>1 DEF EmailTypeOK
  <2>7. \A w \in Processes, k \in Queues : m \in hand'[w][k].todo => m \in hand[w][k].todo
    BY <1>3, EmptyHandIs
  <2>8. CountKept(m)'
    BY <1>1, <2>5, <2>6, <2>7, LettingGoCounts
  <2> QED BY <2>3, <2>8
<1> QED
  <2>1. /\ running' \in [Processes -> {"up", "stopping", "down"}]
        /\ late' \in [Mails -> Nat] /\ copies' \in [Mails -> Nat] /\ dropped' \subseteq Mails
        /\ reports' \in [Mails -> Nat] /\ faults' \in 0..MaxFaults
    BY <1>1 DEF EmailTypeOK
  <2> QED BY <1>1, <1>3, <1>7, <1>8, <2>1, SettledStep, SameAnswers

LEMMA GiveUpKeeps ==
    ASSUME EmailStrong, NEW p \in Processes, GiveUp(p)
    PROVE  EmailStrong'
<1> DEFINE h == hand[p]["email-send"]
<1>1. /\ EmailTypeOK /\ UNCHANGED <<promised, running, copies, dropped, reports, faults>>
      /\ FailJobs("email-send", h.batch) /\ Release(p, "email-send")
      /\ late' = [m \in Mails |-> IF m \in h.todo THEN late[m] + 1 ELSE late[m]]
  BY DEF EmailStrong, GiveUp
<1>2. /\ hand' \in [Processes -> [Queues -> Batches]]
      /\ \A w \in Processes, k \in Queues :
           hand'[w][k] = IF w = p /\ k = "email-send" THEN EmptyHand ELSE hand[w][k]
  BY <1>1, Released, QueuesAre
<1>3. /\ DOMAIN job' = Queues /\ \A k \in Queues : job'[k] \in [Mails -> Job(k)]
      /\ \A m \in Mails : JobsAgree(m)' /\ \A k \in Queues : Attempts(k, m)' = Attempts(k, m)
  BY <1>1, FailuresAgree, QueuesAre, SameAnswers
<1>4. late' \in [Mails -> Nat] /\ late \in [Mails -> Nat] /\ copies \in [Mails -> Nat]
  BY <1>1 DEF EmailTypeOK
<1>5. ASSUME NEW m \in Mails PROVE CountKept(m)'
  <2>1. \A w \in Processes, k \in Queues : m \in hand'[w][k].todo => m \in hand[w][k].todo
    BY <1>2, EmptyHandIs
  <2>2. copies'[m] \in Nat /\ late'[m] \in Nat /\ late[m] \in Nat
    BY <1>1, <1>4
  <2>3. CASE m \in h.todo
    <3>1. m \notin hand'[p]["email-send"].todo
      BY <1>2, EmptyHandIs, QueuesAre
    <3>2. copies'[m] + late'[m] <= copies[m] + late[m] + 1
      BY <1>1, <1>4, <2>2, <2>3
    <3> QED BY <1>1, <1>3, <2>1, <2>2, <2>3, <3>1, <3>2, HandedOverCounts
  <2>4. CASE m \notin h.todo
    <3>1. copies'[m] + late'[m] <= copies[m] + late[m]
      BY <1>1, <1>4, <2>2, <2>4
    <3> QED BY <1>1, <1>3, <2>1, <2>2, <3>1, LettingGoCounts
  <2> QED BY <2>3, <2>4
<1> QED
  <2>1. /\ running' \in [Processes -> {"up", "stopping", "down"}]
        /\ copies' \in [Mails -> Nat] /\ dropped' \subseteq Mails /\ reports' \in [Mails -> Nat] /\ faults' \in 0..MaxFaults
    BY <1>1 DEF EmailTypeOK
  <2> QED BY <1>1, <1>2, <1>3, <1>4, <1>5, <2>1, SettledStep, SameAnswers

LEMMA ExpireKeeps ==
    ASSUME EmailStrong, NEW q \in Queues, NEW x \in Mails, Expire(q, x)
    PROVE  EmailStrong'
<1>1. /\ EmailTypeOK /\ UNCHANGED <<promised, hand, running, late, copies, dropped, reports, faults>>
      /\ FailJobs(q, {x})
  BY DEF EmailStrong, Expire
<1>2. /\ DOMAIN job' = Queues /\ \A k \in Queues : job'[k] \in [Mails -> Job(k)]
      /\ \A m \in Mails : JobsAgree(m)' /\ \A k \in Queues : Attempts(k, m)' = Attempts(k, m)
  BY <1>1, FailuresAgree, SameAnswers
<1>3. ASSUME NEW m \in Mails PROVE CountKept(m)'
  <2>1. copies[m] \in Nat /\ late[m] \in Nat
    BY <1>1 DEF EmailTypeOK
  <2> QED BY <1>1, <1>2, <2>1, LettingGoCounts
<1> QED
  <2>1. /\ running' \in [Processes -> {"up", "stopping", "down"}] /\ late' \in [Mails -> Nat]
        /\ copies' \in [Mails -> Nat] /\ dropped' \subseteq Mails /\ reports' \in [Mails -> Nat] /\ faults' \in 0..MaxFaults
        /\ hand' \in [Processes -> [Queues -> Batches]]
    BY <1>1 DEF EmailTypeOK, Batches
  <2> QED BY <1>1, <1>2, <1>3, <2>1, SettledStep, SameAnswers

\* Steps that leave the jobs and the counts alone, and at most empty hands.
LEMMA IdleKeeps ==
    ASSUME EmailStrong, UNCHANGED <<job, promised, late, copies, dropped, reports>>,
           hand' \in [Processes -> [Queues -> Batches]],
           \A w \in Processes, k \in Queues : hand'[w][k] = hand[w][k] \/ hand'[w][k] = EmptyHand,
           running' \in [Processes -> {"up", "stopping", "down"}], faults' \in 0..MaxFaults
    PROVE  EmailStrong'
<1>1. EmailTypeOK
  BY DEF EmailStrong
<1>2. /\ DOMAIN job' = Queues /\ \A k \in Queues : job'[k] \in [Mails -> Job(k)]
      /\ \A m \in Mails : JobsAgree(m)' /\ \A k \in Queues : Attempts(k, m)' = Attempts(k, m)
  BY SameJobsAgree, SameAnswers
<1>3. ASSUME NEW m \in Mails PROVE CountKept(m)'
  <2>1. copies[m] \in Nat /\ late[m] \in Nat
    BY <1>1 DEF EmailTypeOK
  <2>2. \A w \in Processes, k \in Queues : m \in hand'[w][k].todo => m \in hand[w][k].todo
    BY EmptyHandIs
  <2> QED BY <1>2, <2>1, <2>2, LettingGoCounts
<1> QED
  <2>1. /\ late' \in [Mails -> Nat] /\ copies' \in [Mails -> Nat]
        /\ dropped' \subseteq Mails /\ reports' \in [Mails -> Nat]
    BY <1>1 DEF EmailTypeOK
  <2> QED BY <1>2, <1>3, <2>1, SettledStep, SameAnswers

LEMMA FaultsStay == ASSUME EmailTypeOK, Fault \/ UNCHANGED faults PROVE faults' \in 0..MaxFaults
BY EmailAssumption DEF EmailTypeOK, Fault

LEMMA AnswerLostKeeps ==
    ASSUME EmailStrong, NEW p \in Processes, NEW q \in Queues, AnswerLost(p, q)
    PROVE  EmailStrong'
<1>1. /\ EmailTypeOK /\ UNCHANGED <<job, promised, running, late, copies, dropped, reports>>
      /\ Fault /\ Release(p, q)
  BY DEF EmailStrong, AnswerLost
<1>2. faults' \in 0..MaxFaults /\ running' \in [Processes -> {"up", "stopping", "down"}]
  BY <1>1, FaultsStay DEF EmailTypeOK
<1> QED BY <1>1, <1>2, Released, IdleKeeps

LEMMA ProcessKeeps ==
    ASSUME EmailStrong, NEW p \in Processes, Crash(p) \/ Stop(p) \/ Stopped(p) \/ Start(p)
    PROVE  EmailStrong'
<1>1. EmailTypeOK
  BY DEF EmailStrong
<1>2. /\ UNCHANGED <<job, promised, late, copies, dropped, reports>>
      /\ Fault \/ UNCHANGED faults
      /\ \/ running' = [running EXCEPT ![p] = "down"]
         \/ running' = [running EXCEPT ![p] = "stopping"]
         \/ running' = [running EXCEPT ![p] = "up"]
      /\ hand' = [hand EXCEPT ![p] = [q \in Queues |-> EmptyHand]] \/ hand' = hand
  BY DEF Crash, Stop, Stopped, Start
<1>3. running' \in [Processes -> {"up", "stopping", "down"}] /\ faults' \in 0..MaxFaults
  BY <1>1, <1>2, FaultsStay DEF EmailTypeOK
<1>4. /\ hand' \in [Processes -> [Queues -> Batches]]
      /\ \A w \in Processes, k \in Queues : hand'[w][k] = hand[w][k] \/ hand'[w][k] = EmptyHand
  <2>1. hand \in [Processes -> [Queues -> Batches]] /\ EmptyHand \in Batches
    BY <1>1, EmptyHandIs DEF EmailTypeOK, Batches
  <2> HIDE DEF Batches
  <2>2. [q \in Queues |-> EmptyHand] \in [Queues -> Batches]
    BY <2>1
  <2> QED BY <1>2, <2>1, <2>2
<1> QED BY <1>2, <1>3, <1>4, IdleKeeps

\* What a handler has done of its batch stays done.
LEMMA DonePartKeeps ==
    ASSUME EmailStrong, NEW p \in Processes, NEW q \in Queues, NEW x \in Mails,
           Handled(p, q, x), q = "email-send" => Answered(x)', q = "email-dlq" => reports'[x] > 0,
           \A m \in Mails : /\ Answered(m) => Answered(m)'
                            /\ reports[m] > 0 => reports'[m] > 0
    PROVE  HandsKept'
<1>1. EmailTypeOK /\ HandsKept
  BY DEF EmailStrong
<1> DEFINE e == [batch |-> hand[p][q].batch, todo |-> hand[p][q].todo \ {x}]
<1>2. \A w \in Processes, k \in Queues : hand'[w][k] = IF w = p /\ k = q THEN e ELSE hand[w][k]
  BY <1>1, HandledIs
<1>3. e.batch = hand[p][q].batch /\ e.todo = hand[p][q].todo \ {x}
  OBVIOUS
<1> HIDE DEF e
<1>4. \A w \in Processes, k \in Queues :
        /\ hand'[w][k].batch = hand[w][k].batch
        /\ hand'[w][k].todo = IF w = p /\ k = q THEN hand[w][k].todo \ {x} ELSE hand[w][k].todo
  BY <1>2, <1>3
<1>5. \A w \in Processes, k \in Queues : hand[w][k].batch \subseteq Mails
  BY <1>1, HandsAre
<1>6. \A w \in Processes, k \in Queues : hand'[w][k].todo \subseteq hand'[w][k].batch
  BY <1>1, <1>4 DEF HandsKept
<1>7. ASSUME NEW w \in Processes,
             NEW m \in hand'[w]["email-send"].batch \ hand'[w]["email-send"].todo
      PROVE  Answered(m)'
  <2>1. m \in Mails /\ (\/ m = x /\ q = "email-send"
                     \/ m \in hand[w]["email-send"].batch \ hand[w]["email-send"].todo)
    BY <1>4, <1>5, QueuesAre
  <2> QED BY <1>1, <2>1 DEF HandsKept
<1>8. ASSUME NEW w \in Processes,
             NEW m \in hand'[w]["email-dlq"].batch \ hand'[w]["email-dlq"].todo
      PROVE  reports'[m] > 0
  <2>1. m \in Mails /\ (\/ m = x /\ q = "email-dlq"
                     \/ m \in hand[w]["email-dlq"].batch \ hand[w]["email-dlq"].todo)
    BY <1>4, <1>5, QueuesAre
  <2> QED BY <1>1, <2>1 DEF HandsKept
<1> QED BY <1>6, <1>7, <1>8 DEF HandsKept

Ended(x) == Taken(x) \/ Dropped(x) \/ UNCHANGED <<copies, dropped>>

LEMMA TakenIs ==
    ASSUME EmailTypeOK, NEW x \in Mails, Ended(x)
    PROVE  /\ copies' \in [Mails -> Nat] /\ copies'[x] <= copies[x] + 1
           /\ dropped' \subseteq Mails
           /\ \A m \in Mails : /\ m # x => copies'[m] = copies[m]
                               /\ copies[m] \in Nat /\ copies'[m] \in Nat
                               /\ Answered(m) => Answered(m)'
           /\ Taken(x) \/ Dropped(x) => Answered(x)'
<1>1. CASE Taken(x)
  BY <1>1 DEF EmailTypeOK, Taken, Answered
<1>2. CASE Dropped(x)
  BY <1>2 DEF EmailTypeOK, Dropped, Answered
<1>3. CASE UNCHANGED <<copies, dropped>>
  BY <1>3 DEF EmailTypeOK, Taken, Dropped, Answered
<1> QED BY <1>1, <1>2, <1>3 DEF Ended

LEMMA SendKeeps ==
    ASSUME EmailStrong, NEW p \in Processes, NEW x \in Mails, Send(p, x)
    PROVE  EmailStrong'
<1>1. /\ EmailTypeOK /\ UNCHANGED <<job, promised, running, late, reports, faults>>
      /\ Handled(p, "email-send", x) /\ Ended(x) /\ (Taken(x) \/ Dropped(x))
  BY DEF EmailStrong, Send, Ended
<1>2. /\ DOMAIN job' = Queues /\ \A k \in Queues : job'[k] \in [Mails -> Job(k)]
      /\ \A m \in Mails : JobsAgree(m)' /\ \A k \in Queues : Attempts(k, m)' = Attempts(k, m)
  BY <1>1, TakenIs, SameJobsAgree
<1>3. /\ x \in hand[p]["email-send"].todo
      /\ hand' \in [Processes -> [Queues -> Batches]]
      /\ \A w \in Processes, k \in Queues :
           hand'[w][k] = IF w = p /\ k = "email-send"
                         THEN [batch |-> hand[p]["email-send"].batch,
                               todo |-> hand[p]["email-send"].todo \ {x}]
                         ELSE hand[w][k]
  BY <1>1, HandledIs, QueuesAre
<1>4. HandsKept'
  BY <1>1, TakenIs, DonePartKeeps, QueuesAre
<1>5. ASSUME NEW m \in Mails PROVE CountKept(m)'
  <2>1. \A w \in Processes, k \in Queues : m \in hand'[w][k].todo => m \in hand[w][k].todo
    BY <1>3
  <2>2. copies'[m] \in Nat /\ copies[m] \in Nat /\ late'[m] \in Nat /\ late[m] \in Nat
    BY <1>1, TakenIs DEF EmailTypeOK
  <2>3. CASE m = x
    <3>1. x \notin hand'[p]["email-send"].todo
      BY <1>3, QueuesAre
    <3>2. copies'[x] + late'[x] <= copies[x] + late[x] + 1
      BY <1>1, <2>2, <2>3, TakenIs
    <3> QED BY <1>1, <1>2, <1>3, <2>1, <2>2, <2>3, <3>1, <3>2, HandedOverCounts
  <2>4. CASE m # x
    <3>1. copies'[m] + late'[m] <= copies[m] + late[m]
      BY <1>1, <2>2, <2>4, TakenIs
    <3> QED BY <1>1, <1>2, <2>1, <2>2, <3>1, LettingGoCounts
  <2> QED BY <2>3, <2>4
<1> QED
  <2>1. /\ running' \in [Processes -> {"up", "stopping", "down"}] /\ late' \in [Mails -> Nat]
        /\ reports' \in [Mails -> Nat] /\ faults' \in 0..MaxFaults /\ promised' \subseteq Mails
    BY <1>1 DEF EmailTypeOK
  <2> QED BY <1>1, <1>2, <1>3, <1>4, <1>5, <2>1, TakenIs, StrongAgain

LEMMA ReportKeeps ==
    ASSUME EmailStrong, NEW p \in Processes, NEW x \in Mails, Report(p, x)
    PROVE  EmailStrong'
<1>1. /\ EmailTypeOK /\ UNCHANGED <<job, promised, running, late, copies, dropped, faults>>
      /\ Handled(p, "email-dlq", x) /\ reports' = [reports EXCEPT ![x] = @ + 1]
  BY DEF EmailStrong, Report
<1>0. /\ reports' \in [Mails -> Nat] /\ reports'[x] = reports[x] + 1 /\ reports'[x] > 0
      /\ \A m \in Mails : /\ m # x => reports'[m] = reports[m]
                          /\ reports[m] > 0 => reports'[m] > 0
  BY <1>1 DEF EmailTypeOK
<1>2. /\ DOMAIN job' = Queues /\ \A k \in Queues : job'[k] \in [Mails -> Job(k)]
      /\ \A m \in Mails : JobsAgree(m)' /\ \A k \in Queues : Attempts(k, m)' = Attempts(k, m)
  BY <1>0, <1>1, SameJobsAgree, SameAnswers
<1>3. /\ x \in hand[p]["email-dlq"].todo
      /\ hand' \in [Processes -> [Queues -> Batches]]
      /\ \A w \in Processes, k \in Queues :
           hand'[w][k] = IF w = p /\ k = "email-dlq"
                         THEN [batch |-> hand[p]["email-dlq"].batch,
                               todo |-> hand[p]["email-dlq"].todo \ {x}]
                         ELSE hand[w][k]
  BY <1>1, HandledIs, QueuesAre
<1>4. HandsKept'
  BY <1>0, <1>1, DonePartKeeps, QueuesAre, SameAnswers
<1>5. ASSUME NEW m \in Mails PROVE CountKept(m)'
  <2>1. \A w \in Processes, k \in Queues : m \in hand'[w][k].todo => m \in hand[w][k].todo
    BY <1>3
  <2>2. copies[m] \in Nat /\ late[m] \in Nat
    BY <1>1 DEF EmailTypeOK
  <2>3. CASE m = x
    <3>1. x \notin hand'[p]["email-dlq"].todo
      BY <1>3, QueuesAre
    <3> QED BY <1>0, <1>1, <1>2, <1>3, <2>1, <2>3, <3>1, ReportedCounts
  <2>4. CASE m # x
    BY <1>0, <1>1, <1>2, <2>1, <2>2, <2>4, LettingGoCounts
  <2> QED BY <2>3, <2>4
<1> QED
  <2>1. /\ running' \in [Processes -> {"up", "stopping", "down"}] /\ late' \in [Mails -> Nat]
        /\ copies' \in [Mails -> Nat] /\ dropped' \subseteq Mails /\ faults' \in 0..MaxFaults /\ promised' \subseteq Mails
    BY <1>1 DEF EmailTypeOK
  <2> QED BY <1>0, <1>2, <1>3, <1>4, <1>5, <2>1, StrongAgain

LEMMA SendThrowsKeeps ==
    ASSUME EmailStrong, NEW p \in Processes, NEW x \in Mails, SendThrows(p, x)
    PROVE  EmailStrong'
<1>1. /\ EmailTypeOK /\ UNCHANGED <<promised, running, late, reports, faults>>
      /\ x \in hand[p]["email-send"].todo
      /\ FailJobs("email-send", hand[p]["email-send"].batch) /\ Release(p, "email-send")
      /\ Ended(x)
  BY DEF EmailStrong, SendThrows, Ended
<1>2. /\ copies' \in [Mails -> Nat] /\ copies'[x] <= copies[x] + 1 /\ dropped' \subseteq Mails
      /\ \A m \in Mails : /\ m # x => copies'[m] = copies[m]
                          /\ copies[m] \in Nat /\ copies'[m] \in Nat /\ late[m] \in Nat
                          /\ Answered(m) => Answered(m)'
  BY <1>1, TakenIs DEF EmailTypeOK
<1>3. /\ hand' \in [Processes -> [Queues -> Batches]]
      /\ \A w \in Processes, k \in Queues :
           hand'[w][k] = IF w = p /\ k = "email-send" THEN EmptyHand ELSE hand[w][k]
  BY <1>1, Released, QueuesAre
<1>4. /\ DOMAIN job' = Queues /\ \A k \in Queues : job'[k] \in [Mails -> Job(k)]
      /\ \A m \in Mails : JobsAgree(m)' /\ \A k \in Queues : Attempts(k, m)' = Attempts(k, m)
  BY <1>1, <1>2, FailuresAgree, QueuesAre
<1>5. ASSUME NEW m \in Mails PROVE CountKept(m)'
  <2>1. \A w \in Processes, k \in Queues : m \in hand'[w][k].todo => m \in hand[w][k].todo
    BY <1>3, EmptyHandIs
  <2>2. CASE m = x
    <3>1. x \notin hand'[p]["email-send"].todo
      BY <1>3, EmptyHandIs, QueuesAre
    <3>2. copies'[x] + late'[x] <= copies[x] + late[x] + 1 /\ late'[x] \in Nat
      BY <1>1, <1>2
    <3> QED BY <1>1, <1>2, <1>4, <2>1, <2>2, <3>1, <3>2, HandedOverCounts
  <2>3. CASE m # x
    <3>1. copies'[m] + late'[m] <= copies[m] + late[m] /\ late'[m] \in Nat
      BY <1>1, <1>2, <2>3
    <3> QED BY <1>1, <1>2, <1>4, <2>1, <3>1, LettingGoCounts
  <2> QED BY <2>2, <2>3
<1> QED
  <2>1. /\ running' \in [Processes -> {"up", "stopping", "down"}] /\ late' \in [Mails -> Nat]
        /\ reports' \in [Mails -> Nat] /\ faults' \in 0..MaxFaults
    BY <1>1 DEF EmailTypeOK
  <2> QED BY <1>1, <1>2, <1>3, <1>4, <1>5, <2>1, SettledStep

LEMMA LateSendKeeps ==
    ASSUME EmailStrong, NEW x \in Mails, LateSend(x)
    PROVE  EmailStrong'
<1>1. /\ EmailTypeOK /\ UNCHANGED <<job, promised, hand, running, reports, faults>>
      /\ late[x] > 0 /\ late' = [late EXCEPT ![x] = @ - 1]
      /\ Ended(x)
  BY DEF EmailStrong, LateSend, Ended
<1>2. /\ copies' \in [Mails -> Nat] /\ copies'[x] <= copies[x] + 1 /\ dropped' \subseteq Mails
      /\ \A m \in Mails : /\ m # x => copies'[m] = copies[m]
                          /\ copies[m] \in Nat /\ copies'[m] \in Nat /\ late[m] \in Nat
                          /\ Answered(m) => Answered(m)'
  BY <1>1, TakenIs DEF EmailTypeOK
<1>3. late' \in [Mails -> Nat] /\ late'[x] = late[x] - 1 /\
      \A m \in Mails : m # x => late'[m] = late[m]
  BY <1>1 DEF EmailTypeOK
<1>4. /\ DOMAIN job' = Queues /\ \A k \in Queues : job'[k] \in [Mails -> Job(k)]
      /\ \A m \in Mails : JobsAgree(m)' /\ \A k \in Queues : Attempts(k, m)' = Attempts(k, m)
  BY <1>1, <1>2, SameJobsAgree
<1>5. ASSUME NEW m \in Mails PROVE CountKept(m)'
  <2>1. copies'[m] + late'[m] <= copies[m] + late[m] /\ late'[m] \in Nat
    BY <1>1, <1>2, <1>3
  <2> QED BY <1>1, <1>2, <1>4, <2>1, LettingGoCounts
<1> QED
  <2>1. /\ running' \in [Processes -> {"up", "stopping", "down"}]
        /\ reports' \in [Mails -> Nat] /\ faults' \in 0..MaxFaults
        /\ hand' \in [Processes -> [Queues -> Batches]]
    BY <1>1 DEF EmailTypeOK, Batches
  <2> QED BY <1>1, <1>2, <1>3, <1>4, <1>5, <2>1, SettledStep

LEMMA NothingKeeps ==
    ASSUME EmailStrong,
           UNCHANGED <<job, promised, hand, running, late, copies, dropped, reports, faults>>
    PROVE  EmailStrong'
<1>1. /\ running' \in [Processes -> {"up", "stopping", "down"}] /\ faults' \in 0..MaxFaults
      /\ hand' \in [Processes -> [Queues -> Batches]]
  BY DEF EmailStrong, EmailTypeOK, Batches
<1> QED BY <1>1, IdleKeeps

LEMMA EmailStep == EmailStrong /\ [EmailNext]_emailVars => EmailStrong'
<1> SUFFICES ASSUME EmailStrong, [EmailNext]_emailVars PROVE EmailStrong'
  OBVIOUS
<1>1. ASSUME NEW m \in Mails, NEW hook \in Hooks, Enqueue(m, hook) PROVE EmailStrong'
  <2>1. StoredStep(m)
    BY <1>1 DEF Enqueue, StoredStep, Told
  <2> QED BY <2>1, StoredStepKeeps
<1>2. ASSUME NEW m \in Mails, EnqueueFails(m) PROVE EmailStrong'
  <2>1. CASE Stored(m)
    BY <1>2, <2>1, StoredStepKeeps DEF EnqueueFails, StoredStep
  <2>2. CASE UNCHANGED job
    <3>1. UNCHANGED <<job, promised, hand, running, late, copies, dropped, reports, faults>>
      BY <1>2, <2>2 DEF EnqueueFails, Asked
    <3> QED BY <3>1, NothingKeeps
  <2> QED BY <1>2, <2>1, <2>2 DEF EnqueueFails
<1>3. ASSUME NEW m \in Mails, NEW q \in Queues, Expire(q, m) PROVE EmailStrong'
  BY <1>3, ExpireKeeps
<1>4. ASSUME NEW m \in Mails, LateSend(m) PROVE EmailStrong'
  BY <1>4, LateSendKeeps
<1>5. ASSUME NEW p \in Processes, NEW q \in Queues, FetchSome(p, q) PROVE EmailStrong'
  BY <1>5, FetchKeeps DEF FetchSome
<1>6. ASSUME NEW p \in Processes, NEW q \in Queues, Work(p, q) PROVE EmailStrong'
  BY <1>6, FinishKeeps, SendKeeps, SendThrowsKeeps, ReportKeeps DEF Work
<1>7. ASSUME NEW p \in Processes, NEW q \in Queues, AnswerLost(p, q) PROVE EmailStrong'
  BY <1>7, AnswerLostKeeps
<1>8. ASSUME NEW p \in Processes, GiveUp(p) PROVE EmailStrong'
  BY <1>8, GiveUpKeeps
<1>9. ASSUME NEW p \in Processes, Crash(p) \/ Stop(p) \/ Stopped(p) \/ Start(p)
      PROVE  EmailStrong'
  BY <1>9, ProcessKeeps
<1>10. CASE UNCHANGED emailVars
  BY <1>10, NothingKeeps DEF emailVars
<1> QED BY <1>1, <1>2, <1>3, <1>4, <1>5, <1>6, <1>7, <1>8, <1>9, <1>10 DEF EmailNext

\* Through ends of processes, expired jobs and handlers that go on after they
\* were given up (queue.module.ts and both handlers of queue/): a mail is handed
\* to the provider at most once per attempt, email-dlq holds exactly the mails
\* whose attempts are used up, a job is completed only after its mail was taken,
\* refused with an answer that resend.provider.ts does not look at, or reported
\* as failed, and who was told that a mail is on its way has a job for it.
THEOREM MailsKeepTheirAttempts == EmailSpec => []EmailInv
<1>1. EmailSpec => []EmailStrong
  BY EmailBegins, EmailStep, PTL DEF EmailSpec
<1> QED BY <1>1, EmailStrongSuffices, PTL

-----------------------------------------------------------------------------
(* The promise of Delivery, but for the part that every mail is settled      *)

Shown == [m \in Mails |-> Phase(m)]

LEMMA PhaseIs ==
    ASSUME NEW m, JobsAgree(m)
    PROVE  Phase(m) = IF job["email-send"][m] = NoJob THEN "unknown"
                      ELSE IF job["email-send"][m].state = "completed" THEN "completed"
                      ELSE IF job["email-dlq"][m].state = "completed" THEN "reported"
                      ELSE IF job["email-dlq"][m].state = "failed" THEN "abandoned"
                      ELSE "pending"
<1>1. NoJob.state = "none"
  BY DEF NoJob
<1> QED BY <1>1 DEF Phase, JobsAgree

LEMMA PhaseWillBe ==
    ASSUME NEW m, JobsAgree(m)'
    PROVE  Phase(m)' = IF job'["email-send"][m] = NoJob THEN "unknown"
                       ELSE IF job'["email-send"][m].state = "completed" THEN "completed"
                       ELSE IF job'["email-dlq"][m].state = "completed" THEN "reported"
                       ELSE IF job'["email-dlq"][m].state = "failed" THEN "abandoned"
                       ELSE "pending"
<1>1. NoJob.state = "none"
  BY DEF NoJob
<1> QED BY <1>1 DEF Phase, JobsAgree

\* No mail is handed over that nobody asked for, and none too often.
LEMMA CopiesBounded ==
    ASSUME EmailStrong', NEW m \in Mails, copies'[m] > 0
    PROVE  copies'[m] <= RetryLimit + 1 /\ job'["email-send"][m] # NoJob
<1>1. /\ EmailTypeOK' /\ CountKept(m)'
  BY DEF EmailStrong
<1>2. /\ copies'[m] \in Nat /\ late'[m] \in Nat
      /\ job'["email-send"][m] \in Job("email-send")
  BY <1>1, QueuesAre DEF EmailTypeOK
<1>3. /\ job'["email-send"][m].tries \in 0..RetryLimit
      /\ Attempts("email-send", m)' = IF job'["email-send"][m].state \in {"none", "waiting"}
                                      THEN job'["email-send"][m].tries
                                      ELSE job'["email-send"][m].tries + 1
  BY <1>2 DEF Job, Limit, Attempts
<1>4. copies'[m] <= Attempts("email-send", m)'
  BY <1>1, <1>2, <1>3, CountsAreNumbers, EmailAssumption DEF CountKept
<1>5. copies'[m] <= RetryLimit + 1 /\ Attempts("email-send", m)' > 0
  BY <1>2, <1>3, <1>4, EmailAssumption
<1>6. NoJob.state = "none" /\ NoJob.tries = 0
  BY DEF NoJob
<1> QED BY <1>3, <1>5, <1>6

LEMMA FailPhases ==
    ASSUME EmailStrong, EmailStrong', NEW q \in Queues, NEW ms, FailJobs(q, ms), NEW m \in Mails
    PROVE  Phase(m)' = IF /\ q = "email-dlq" /\ m \in ms
                          /\ job[q][m].state = "active" /\ Exhausted(q, m)
                       THEN "abandoned" ELSE Phase(m)
<1>1. EmailTypeOK /\ JobsAgree(m) /\ JobsAgree(m)'
  BY DEF EmailStrong
<1>2. NoJob.state = "none" /\ Created # NoJob /\ Created.state = "waiting"
  BY DEF NoJob, Created
<1>3. job[q][m].state = "active"
      => /\ Failed(q, m).state = IF Exhausted(q, m) THEN "failed" ELSE "waiting"
         /\ Failed(q, m) # NoJob
  BY <1>1, FailedIs
<1>4. CASE q = "email-send"
  <2>1. /\ job'["email-send"][m] = IF m \in ms /\ job[q][m].state = "active"
                                   THEN Failed(q, m) ELSE job["email-send"][m]
        /\ job'["email-dlq"][m] = IF m \in ms /\ job[q][m].state = "active" /\ Exhausted(q, m)
                                  THEN Created ELSE job["email-dlq"][m]
    BY <1>1, <1>4, FailJobsIs, QueuesAre
  <2> QED BY <1>1, <1>2, <1>3, <1>4, <2>1, PhaseIs, PhaseWillBe, QueuesAre DEF JobsAgree
<1>5. CASE q = "email-dlq"
  <2>1. /\ job'["email-dlq"][m] = IF m \in ms /\ job[q][m].state = "active"
                                   THEN Failed(q, m) ELSE job["email-dlq"][m]
        /\ job'["email-send"][m] = job["email-send"][m]
    BY <1>1, <1>5, FailJobsIs, QueuesAre
  <2> QED BY <1>1, <1>2, <1>3, <1>5, <2>1, PhaseIs, PhaseWillBe, QueuesAre DEF JobsAgree
<1> QED BY <1>4, <1>5, QueuesAre

LEMMA SamePhases ==
    ASSUME UNCHANGED job
    PROVE  Shown' = Shown
BY DEF Shown, Phase

LEMMA AskedFor ==
    ASSUME EmailStrong, NEW x \in Mails,
           late[x] > 0 \/ \E p \in Processes : x \in hand[p]["email-send"].todo
    PROVE  job["email-send"][x] # NoJob
<1>1. EmailTypeOK /\ CountKept(x)
  BY DEF EmailStrong
<1>2. IsFiniteSet(Senders(x)) /\ Cardinality(Senders(x)) \in Nat
  BY HoldersFinite
<1>3. copies[x] \in Nat /\ late[x] \in Nat
  BY <1>1 DEF EmailTypeOK
<1>4. CASE job["email-send"][x] = NoJob
  <2>1. Attempts("email-send", x) = 0
    BY <1>4 DEF Attempts, NoJob
  <2>2. late[x] = 0 /\ Cardinality(Senders(x)) = 0
    BY <1>1, <1>2, <1>3, <2>1 DEF CountKept
  <2>3. Senders(x) = {}
    BY <1>2, <2>2, FS_EmptySet
  <2> QED BY <2>2, <2>3 DEF Senders
<1> QED BY <1>4

LEMMA HandedOver ==
    ASSUME EmailStrong, EmailStrong', NEW x \in Mails, Shown' = Shown, Ended(x),
           job["email-send"][x] # NoJob
    PROVE  Promised!DeliveryNext \/ (Shown' = Shown /\ UNCHANGED <<copies, dropped>>)
<1>1. EmailTypeOK /\ JobsAgree(x)
  BY DEF EmailStrong
<1>2. Shown[x] # "unknown"
  <2>1. Phase(x) # "unknown"
    BY <1>1, PhaseIs
  <2> QED BY <2>1 DEF Shown
<1>3. CASE Taken(x)
  <2>1. copies'[x] = copies[x] + 1 /\ copies'[x] > 0 /\ copies[x] \in Nat
    BY <1>1, <1>3 DEF EmailTypeOK, Taken
  <2>2. copies[x] < RetryLimit + 1
    BY <2>1, CopiesBounded, EmailAssumption
  <2>3. Promised!HandOver(x)
    BY <1>2, <1>3, <2>2 DEF Promised!HandOver, Shown, Taken
  <2> QED BY <2>3 DEF Promised!DeliveryNext
<1>4. CASE Dropped(x)
  <2>1. Promised!Refuse(x)
    BY <1>2, <1>4 DEF Promised!Refuse, Shown, Dropped
  <2> QED BY <2>1 DEF Promised!DeliveryNext
<1> QED BY <1>3, <1>4 DEF Ended

LEMMA Asking ==
    ASSUME EmailStrong, EmailStrong', NEW x \in Mails, StoredStep(x)
    PROVE  Promised!DeliveryNext
<1>1. EmailTypeOK /\ UNCHANGED <<copies, dropped>> /\ job["email-send"][x] = NoJob
  BY DEF EmailStrong, StoredStep, Asked
<1>2. \A m \in Mails : JobsAgree(m) /\ JobsAgree(m)'
  BY DEF EmailStrong
<1>3. /\ job'["email-dlq"] = job["email-dlq"]
      /\ \A m \in Mails : job'["email-send"][m] = IF m = x THEN Created ELSE job["email-send"][m]
  BY <1>1, QueuesAre DEF StoredStep, Stored, EmailTypeOK
<1>4. Created # NoJob /\ Created.state = "waiting" /\ NoJob.state = "none"
  BY DEF Created, NoJob
<1>5. Phase(x) = "unknown" /\ Phase(x)' = "pending"
  <2>1. job["email-dlq"][x] = NoJob
    BY <1>1, <1>2, <1>4 DEF JobsAgree
  <2> QED BY <1>1, <1>2, <1>3, <1>4, <2>1, PhaseIs, PhaseWillBe
<1>6. \A m \in Mails : m # x => Phase(m)' = Phase(m)
  BY <1>3 DEF Phase
<1>7. Shown' = [Shown EXCEPT ![x] = "pending"] /\ Shown[x] = "unknown"
  BY <1>5, <1>6 DEF Shown
<1>8. Promised!Take(x)
  BY <1>1, <1>7 DEF Promised!Take, Shown
<1> QED BY <1>8 DEF Promised!DeliveryNext

LEMMA Settling ==
    ASSUME NEW ms \in SUBSET Mails, ms # {}, NEW o \in {"completed", "reported", "abandoned"},
           UNCHANGED <<copies, dropped>>, \A m \in ms : Phase(m) = "pending" /\ Phase(m)' = o,
           \A m \in Mails \ ms : Phase(m)' = Phase(m),
           o = "completed" => \A m \in ms : Answered(m)
    PROVE  Promised!DeliveryNext
<1> DEFINE outcome == [m \in ms |-> o]
<1>1. /\ outcome \in [ms -> {"completed", "reported", "abandoned"}]
      /\ \A m \in ms : outcome[m] = "completed" => copies[m] > 0 \/ m \in dropped
      /\ \A m \in ms : Shown[m] = "pending"
      /\ Shown' = [m \in Mails |-> IF m \in ms THEN outcome[m] ELSE Shown[m]]
  BY DEF Shown, Answered
<1> HIDE DEF outcome
<1>2. Promised!Settle(ms)
  BY <1>1 DEF Promised!Settle, Shown
<1>3. PICK m \in ms : TRUE
  OBVIOUS
<1>4. Promised!SettleBatchOf(m)
  BY <1>2 DEF Promised!SettleBatchOf
<1> QED BY <1>4 DEF Promised!DeliveryNext

LEMMA FinishSettles ==
    ASSUME EmailStrong, EmailStrong', NEW p \in Processes, NEW q \in Queues, Finish(p, q)
    PROVE  Promised!DeliveryNext \/ (Shown' = Shown /\ UNCHANGED <<copies, dropped>>)
<1>1. /\ EmailTypeOK /\ HandsKept /\ UNCHANGED <<copies, dropped>> /\ hand[p][q].todo = {}
      /\ \A m \in Mails : JobsAgree(m) /\ JobsAgree(m)'
  BY DEF EmailStrong, Finish
<1> DEFINE ms == {m \in Mails : m \in hand[p][q].batch /\ job[q][m].state = "active"}
           o == IF q = "email-send" THEN "completed" ELSE "reported"
<1>2. \A k \in Queues, m \in Mails :
        job'[k][m] = IF k = q /\ m \in ms THEN [job[k][m] EXCEPT !.state = "completed"]
                     ELSE job[k][m]
  <2> DEFINE f == [m \in Mails |-> IF m \in hand[p][q].batch /\ job[q][m].state = "active"
                                   THEN [job[q][m] EXCEPT !.state = "completed"]
                                   ELSE job[q][m]]
  <2>1. job' = [job EXCEPT ![q] = f]
    BY DEF Finish, CompleteJobs
  <2>2. \A k \in Queues, m \in Mails : job'[k][m] = IF k = q THEN f[m] ELSE job[k][m]
    BY <1>1, <2>1 DEF EmailTypeOK
  <2> QED BY <2>2
<1>3. \A m \in ms : (q = "email-send" => Answered(m))
  BY <1>1 DEF HandsKept
<1>4. \A m \in ms : /\ job[q][m].state = "active" /\ job[q][m] # NoJob
                    /\ [job[q][m] EXCEPT !.state = "completed"].state = "completed"
                    /\ [job[q][m] EXCEPT !.state = "completed"] # NoJob
  <2> SUFFICES ASSUME NEW m \in ms
               PROVE  /\ job[q][m].state = "active" /\ job[q][m] # NoJob
                      /\ [job[q][m] EXCEPT !.state = "completed"].state = "completed"
                      /\ [job[q][m] EXCEPT !.state = "completed"] # NoJob
    OBVIOUS
  <2>1. job[q][m] \in Job(q) /\ job[q][m].state = "active"
    BY <1>1, AttemptsIs
  <2> QED BY <2>1 DEF Job, NoJob
<1>5. ASSUME NEW m \in ms PROVE Phase(m) = "pending" /\ Phase(m)' = o
  <2>0. NoJob.state = "none"
    BY DEF NoJob
  <2>1. CASE q = "email-send"
    <3>1. job["email-dlq"][m] = NoJob /\ job'["email-dlq"][m] = job["email-dlq"][m]
      BY <1>1, <1>2, <1>4, <2>1, QueuesAre DEF JobsAgree
    <3>2. job'["email-send"][m] # NoJob /\ job'["email-send"][m].state = "completed"
      BY <1>2, <1>4, <2>1, QueuesAre
    <3> QED BY <1>1, <1>4, <2>0, <2>1, <3>1, <3>2, PhaseIs, PhaseWillBe
  <2>2. CASE q = "email-dlq"
    <3>1. /\ job["email-send"][m].state = "failed" /\ job["email-send"][m] # NoJob
          /\ job'["email-send"][m] = job["email-send"][m]
      BY <1>1, <1>2, <1>4, <2>0, <2>2, QueuesAre DEF JobsAgree
    <3>2. job'["email-dlq"][m].state = "completed"
      BY <1>2, <1>4, <2>2, QueuesAre
    <3> QED BY <1>1, <1>4, <2>0, <2>2, <3>1, <3>2, PhaseIs, PhaseWillBe, QueuesAre
  <2> QED BY <2>1, <2>2, QueuesAre
<1>6. ASSUME NEW m \in Mails \ ms PROVE Phase(m)' = Phase(m)
  <2>1. job'["email-send"][m] = job["email-send"][m] /\ job'["email-dlq"][m] = job["email-dlq"][m]
    BY <1>2, QueuesAre
  <2> QED BY <2>1 DEF Phase
<1>7. o \in {"completed", "reported", "abandoned"} /\ (o = "completed" => q = "email-send")
  OBVIOUS
<1>8. ms \in SUBSET Mails
  OBVIOUS
<1> HIDE DEF ms, o
<1>9. CASE ms # {}
  BY <1>1, <1>3, <1>5, <1>6, <1>7, <1>8, <1>9, Settling
<1>10. CASE ms = {}
  BY <1>1, <1>6, <1>10 DEF Shown
<1> QED BY <1>9, <1>10

LEMMA ExpireSettles ==
    ASSUME EmailStrong, EmailStrong', NEW q \in Queues, NEW x \in Mails, Expire(q, x)
    PROVE  Promised!DeliveryNext \/ (Shown' = Shown /\ UNCHANGED <<copies, dropped>>)
<1>1. /\ EmailTypeOK /\ UNCHANGED <<copies, dropped>> /\ FailJobs(q, {x}) /\ job[q][x].state = "active"
      /\ JobsAgree(x)
  BY DEF EmailStrong, Expire
<1>2. \A m \in Mails : Phase(m)' = IF m = x /\ q = "email-dlq" /\ Exhausted(q, x)
                                   THEN "abandoned" ELSE Phase(m)
  BY <1>1, FailPhases
<1>3. CASE q = "email-dlq" /\ Exhausted(q, x)
  <2>1. job["email-send"][x].state = "failed" /\ NoJob.state = "none"
    BY <1>1, <1>3 DEF JobsAgree, NoJob
  <2>2. Phase(x) = "pending"
    BY <1>1, <1>3, <2>1, PhaseIs
  <2>3. \A m \in {x} : Phase(m) = "pending" /\ Phase(m)' = "abandoned"
    BY <1>2, <1>3, <2>2
  <2>4. \A m \in Mails \ {x} : Phase(m)' = Phase(m)
    BY <1>2
  <2>5. Promised!DeliveryNext
    <3> DEFINE o == "abandoned"
    <3>1. o \in {"completed", "reported", "abandoned"} /\ o # "completed" /\ {x} \in SUBSET Mails /\ {x} # {}
      OBVIOUS
    <3>2. \A m \in {x} : Phase(m) = "pending" /\ Phase(m)' = o
      BY <2>3
    <3> HIDE DEF o
    <3> QED BY <1>1, <2>4, <3>1, <3>2, Settling
  <2> QED BY <2>5
<1>4. CASE ~(q = "email-dlq" /\ Exhausted(q, x))
  BY <1>1, <1>2, <1>4 DEF Shown
<1> QED BY <1>3, <1>4

LEMMA FetchShowsNothing ==
    ASSUME EmailStrong, EmailStrong', NEW p \in Processes, NEW q \in Queues,
           NEW ms \in SUBSET Mails, Fetch(p, q, ms)
    PROVE  Shown' = Shown /\ UNCHANGED <<copies, dropped>>
<1>1. /\ EmailTypeOK /\ UNCHANGED <<copies, dropped>> /\ \A m \in ms : job[q][m].state = "waiting"
      /\ \A m \in Mails : JobsAgree(m) /\ JobsAgree(m)'
  BY DEF EmailStrong, Fetch
<1>2. \A k \in Queues, m \in Mails :
        job'[k][m] = IF k = q /\ m \in ms THEN [job[k][m] EXCEPT !.state = "active"]
                     ELSE job[k][m]
  <2> DEFINE f == [m \in Mails |-> IF m \in ms THEN [job[q][m] EXCEPT !.state = "active"]
                                   ELSE job[q][m]]
  <2>1. job' = [job EXCEPT ![q] = f]
    BY DEF Fetch
  <2>2. \A k \in Queues, m \in Mails : job'[k][m] = IF k = q THEN f[m] ELSE job[k][m]
    BY <1>1, <2>1 DEF EmailTypeOK
  <2> QED BY <2>2
<1>3. ASSUME NEW m \in Mails PROVE Phase(m)' = Phase(m)
  <2>1. job[q][m] \in Job(q) /\ NoJob.state = "none"
    BY <1>1, AttemptsIs DEF NoJob
  <2>2. \A k \in Queues : \/ job'[k][m] = job[k][m]
                          \/ /\ job[k][m].state = "waiting" /\ job'[k][m].state = "active"
                             /\ job[k][m] # NoJob /\ job'[k][m] # NoJob
    BY <1>1, <1>2, <2>1 DEF Job
  <2> QED BY <1>1, <2>2, PhaseIs, PhaseWillBe, QueuesAre
<1> QED BY <1>1, <1>3 DEF Shown

LEMMA FailingShowsNothing ==
    ASSUME EmailStrong, EmailStrong', NEW ms, FailJobs("email-send", ms)
    PROVE  Shown' = Shown
<1>1. \A m \in Mails : Phase(m)' = Phase(m)
  BY FailPhases, QueuesAre
<1> QED BY <1>1 DEF Shown

LEMMA PromiseBegins == EmailInit => Promised!DeliveryInit
<1> SUFFICES ASSUME EmailInit PROVE Promised!DeliveryInit
  OBVIOUS
<1>1. \A m \in Mails : Phase(m) = "unknown"
  <2> SUFFICES ASSUME NEW m \in Mails PROVE Phase(m) = "unknown"
    OBVIOUS
  <2>1. JobsAgree(m) /\ job["email-send"][m] = NoJob
    BY EmailBegins, QueuesAre DEF EmailStrong, EmailInit
  <2> QED BY <2>1, PhaseIs
<1> QED BY <1>1 DEF Promised!DeliveryInit, EmailInit

LEMMA PromiseStep ==
    EmailStrong /\ EmailStrong' /\ [EmailNext]_emailVars
    => [Promised!DeliveryNext]_(Promised!deliveryVars)
<1> SUFFICES ASSUME EmailStrong, EmailStrong', [EmailNext]_emailVars
             PROVE  Promised!DeliveryNext \/ (Shown' = Shown /\ UNCHANGED <<copies, dropped>>)
  BY DEF Promised!deliveryVars, Shown
<1> DEFINE Kept == Promised!DeliveryNext \/ (Shown' = Shown /\ UNCHANGED <<copies, dropped>>)
<1>1. ASSUME NEW m \in Mails, NEW hook \in Hooks, Enqueue(m, hook) PROVE Kept
  <2>1. StoredStep(m)
    BY <1>1 DEF Enqueue, StoredStep, Told
  <2> QED BY <2>1, Asking
<1>2. ASSUME NEW m \in Mails, EnqueueFails(m) PROVE Kept
  <2>1. CASE Stored(m)
    BY <1>2, <2>1, Asking DEF EnqueueFails, StoredStep
  <2>2. CASE UNCHANGED job
    BY <1>2, <2>2, SamePhases DEF EnqueueFails, Asked
  <2> QED BY <1>2, <2>1, <2>2 DEF EnqueueFails
<1>3. ASSUME NEW m \in Mails, NEW q \in Queues, Expire(q, m) PROVE Kept
  BY <1>3, ExpireSettles
<1>4. ASSUME NEW m \in Mails, LateSend(m) PROVE Kept
  BY <1>4, SamePhases, AskedFor, HandedOver DEF LateSend, Ended
<1>5. ASSUME NEW p \in Processes, NEW q \in Queues, FetchSome(p, q) PROVE Kept
  BY <1>5, FetchShowsNothing DEF FetchSome
<1>6. ASSUME NEW p \in Processes, NEW q \in Queues, Work(p, q) PROVE Kept
  <2>1. CASE Finish(p, q)
    BY <2>1, FinishSettles
  <2>2. ASSUME NEW m \in Mails, Send(p, m) PROVE Kept
    BY <2>2, SamePhases, AskedFor, HandedOver DEF Send, Handled, Ended
  <2>3. ASSUME NEW m \in Mails, SendThrows(p, m) PROVE Kept
    BY <2>3, FailingShowsNothing, AskedFor, HandedOver DEF SendThrows, Ended
  <2>4. ASSUME NEW m \in Mails, Report(p, m) PROVE Kept
    BY <2>4, SamePhases DEF Report
  <2> QED BY <1>6, <2>1, <2>2, <2>3, <2>4 DEF Work
<1>7. ASSUME NEW p \in Processes, NEW q \in Queues, AnswerLost(p, q) PROVE Kept
  BY <1>7, SamePhases DEF AnswerLost
<1>8. ASSUME NEW p \in Processes, GiveUp(p) PROVE Kept
  BY <1>8, FailingShowsNothing DEF GiveUp
<1>9. ASSUME NEW p \in Processes, Crash(p) \/ Stop(p) \/ Stopped(p) \/ Start(p) PROVE Kept
  BY <1>9, SamePhases DEF Crash, Stop, Stopped, Start
<1>10. CASE UNCHANGED emailVars
  BY <1>10, SamePhases DEF emailVars
<1> QED BY <1>1, <1>2, <1>3, <1>4, <1>5, <1>6, <1>7, <1>8, <1>9, <1>10 DEF EmailNext

\* The queue implements Delivery, up to its fairness: every step of hooks, pg-boss,
\* workers and processes takes, hands over or settles mails as the promise allows, or
\* does none of it.  A mail nobody asked for is not sent, none is handed over more than
\* RetryLimit + 1 times, and what is settled stays as it was settled.  A mail
\* counts as completed only with a copy or with a refusal nobody looked at.
THEOREM QueueDelivers ==
    EmailSpec => Promised!DeliveryInit /\ [][Promised!DeliveryNext]_(Promised!deliveryVars)
<1>1. EmailSpec => []EmailStrong
  BY EmailBegins, EmailStep, PTL DEF EmailSpec
<1> QED BY <1>1, PromiseBegins, PromiseStep, PTL DEF EmailSpec
=============================================================================
