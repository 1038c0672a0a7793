----------------------------- MODULE EmailQueue -----------------------------
(***************************************************************************)
(* Mails of the sign-in flows: a hook of better-auth puts a job in the     *)
(* queue email-send, a worker hands it to the provider, and a job that     *)
(* failed too often becomes a job of email-dlq, whose handler reports it.  *)
(*                                                                         *)
(* pg-boss (external) keeps the jobs in PostgreSQL.  A worker fetches up   *)
(* to BatchSize jobs and awaits the handler; completing and failing touch  *)
(* only jobs that are active, whoever fetched them.  It gives a handler    *)
(* up, and returns active jobs to the queue, after a time; the handler it  *)
(* gave up goes on (late).  Delays before a retry only order fetches.      *)
(***************************************************************************)
EXTENDS Naturals, FiniteSets

CONSTANTS
    Mails,          \* calls of a hook
    Processes,      \* processes with QUEUE_WORKER_ENABLED
    BatchSize,      \* 1 in queue.constants
    RetryLimit,     \* 3 for email-send
    DlqRetryLimit,  \* of email-dlq, which sets none: pg-boss' default
    MaxFaults       \* bounds the ends of processes and lost answers

ASSUME EmailAssumption ==
    /\ IsFiniteSet(Processes)
    /\ BatchSize \in Nat \ {0}
    /\ RetryLimit \in Nat /\ DlqRetryLimit \in Nat /\ MaxFaults \in Nat

VARIABLES
    job,            \* job[q][m]: the job of mail m in queue q
    promised,       \* mails a visitor was told to be on their way
    hand,           \* hand[p][q]: the batch of a worker and what is left of it
    running,        \* state of the process
    late,           \* attempts given up by pg-boss that still run
    copies,         \* times the provider took the mail
    dropped,        \* mails it refused with an answer that nobody looks at
    reports,        \* EMAIL_SEND_FAILED events
    faults

emailVars == <<job, promised, hand, running, late, copies, dropped, reports, faults>>

Queues == {"email-send", "email-dlq"}
Hooks == {"onExistingUserSignUp", "sendResetPassword",
          "sendVerificationEmail", "sendMagicLink"}

Limit(q) == IF q = "email-send" THEN RetryLimit ELSE DlqRetryLimit

NoJob == [state |-> "none", tries |-> 0]
Created == [state |-> "waiting", tries |-> 0]

Job(q) == [state : {"none", "waiting", "active", "completed", "failed"},
           tries : 0..Limit(q)]

EmptyHand == [batch |-> {}, todo |-> {}]

EmailTypeOK ==
    /\ DOMAIN job = Queues
    /\ \A q \in Queues : job[q] \in [Mails -> Job(q)]
    /\ promised \subseteq Mails
    /\ hand \in [Processes -> [Queues -> [batch : SUBSET Mails, todo : SUBSET Mails]]]
    /\ running \in [Processes -> {"up", "stopping", "down"}]
    /\ late \in [Mails -> Nat]
    /\ copies \in [Mails -> Nat]
    /\ dropped \subseteq Mails
    /\ reports \in [Mails -> Nat]
    /\ faults \in 0..MaxFaults

EmailInit ==
    /\ job = [q \in Queues |-> [m \in Mails |-> NoJob]]
    /\ promised = {}
    /\ hand = [p \in Processes |-> [q \in Queues |-> EmptyHand]]
    /\ running = [p \in Processes |-> "up"]
    /\ late = [m \in Mails |-> 0]
    /\ copies = [m \in Mails |-> 0]
    /\ dropped = {}
    /\ reports = [m \in Mails |-> 0]
    /\ faults = 0

Fault == faults < MaxFaults /\ faults' = faults + 1

-----------------------------------------------------------------------------
(* The hooks, all of which await boss.send                                 *)

Stored(m) == job' = [job EXCEPT !["email-send"] = [@ EXCEPT ![m] = Created]]

Asked(m) ==
    /\ job["email-send"][m] = NoJob /\ m \notin promised
    /\ UNCHANGED <<hand, running, late, copies, dropped, reports, faults>>

\* The answer to a sign-up is the same for a new and an existing address, and
\* promises nothing.
Told(m, hook) ==
    promised' = IF hook = "onExistingUserSignUp" THEN promised
                ELSE promised \cup {m}

Enqueue(m, hook) == Asked(m) /\ Stored(m) /\ Told(m, hook)

\* The connection broke before or after the commit.  The hook of an existing
\* address swallows the error, the others throw EMAIL_SEND_FAILED; the visitor
\* may ask again.  sendMagicLink throws as well when no user has the address.
EnqueueFails(m) ==
    /\ Asked(m)
    /\ Stored(m) \/ UNCHANGED job
    /\ UNCHANGED promised

-----------------------------------------------------------------------------
(* pg-boss (external)                                                      *)

Fetch(p, q, ms) ==
    /\ running[p] = "up" /\ hand[p][q].batch = {}
    /\ ms # {} /\ Cardinality(ms) <= BatchSize
    /\ \A m \in ms : job[q][m].state = "waiting"
    /\ job' = [job EXCEPT ![q] =
                 [m \in Mails |-> IF m \in ms THEN [@[m] EXCEPT !.state = "active"]
                                  ELSE @[m]]]
    /\ hand' = [hand EXCEPT ![p] = [@ EXCEPT ![q] = [batch |-> ms, todo |-> ms]]]
    /\ UNCHANGED <<promised, running, late, copies, dropped, reports, faults>>

Exhausted(q, m) == job[q][m].tries = Limit(q)

Failed(q, m) ==
    IF Exhausted(q, m)
    THEN [job[q][m] EXCEPT !.state = "failed"]
    ELSE [state |-> "waiting", tries |-> job[q][m].tries + 1]

\* mutant: the queue is registered without its deadLetter
FailJobsWithoutDeadLetter(q, ms) ==
    job' = [job EXCEPT ![q] =
              [m \in Mails |-> IF m \in ms /\ @[m].state = "active"
                               THEN Failed(q, m) ELSE @[m]]]

\* the queue after the attempts at ms failed, and the dead letters
FailJobs(q, ms) ==
    LET hit == {m \in ms : job[q][m].state = "active"}
        dead == {m \in hit : q = "email-send" /\ Exhausted(q, m)}
    IN  job' = [k \in Queues |-> [m \in Mails |->
                  CASE k = q /\ m \in hit -> Failed(q, m)
                    [] k = "email-dlq" /\ m \in dead -> Created
                    [] OTHER -> job[k][m]]]

CompleteJobs(q, ms) ==
    job' = [job EXCEPT ![q] =
              [m \in Mails |-> IF m \in ms /\ @[m].state = "active"
                               THEN [@[m] EXCEPT !.state = "completed"]
                               ELSE @[m]]]

Release(p, q) == hand' = [hand EXCEPT ![p] = [@ EXCEPT ![q] = EmptyHand]]

\* the handler came to its end
Finish(p, q) ==
    /\ hand[p][q].batch # {} /\ hand[p][q].todo = {}
    /\ CompleteJobs(q, hand[p][q].batch)
    /\ Release(p, q)
    /\ UNCHANGED <<promised, running, late, copies, dropped, reports, faults>>

\* the handler, or the graceful stop, took too long
GiveUp(p) ==
    LET h == hand[p]["email-send"]
    IN  /\ h.todo # {}
        /\ FailJobs("email-send", h.batch)
        /\ late' = [m \in Mails |-> IF m \in h.todo THEN late[m] + 1 ELSE late[m]]
        /\ Release(p, "email-send")
        /\ UNCHANGED <<promised, running, copies, dropped, reports, faults>>

\* active for longer than expireInSeconds: a worker is gone, or is slow
Expire(q, m) ==
    /\ \E p \in Processes : running[p] # "down"
    /\ job[q][m].state = "active"
    /\ FailJobs(q, {m})
    /\ UNCHANGED <<promised, hand, running, late, copies, dropped, reports, faults>>

\* the statement that completes or fails the jobs did not reach the database
AnswerLost(p, q) ==
    /\ hand[p][q].batch # {}
    /\ Release(p, q)
    /\ Fault
    /\ UNCHANGED <<job, promised, running, late, copies, dropped, reports>>

-----------------------------------------------------------------------------
(* EmailQueueHandler and EmailDlqHandler: one job of the batch at a time   *)

Handled(p, q, m) ==
    /\ m \in hand[p][q].todo
    /\ hand' = [hand EXCEPT ![p] =
                  [@ EXCEPT ![q] = [batch |-> hand[p][q].batch,
                                    todo |-> hand[p][q].todo \ {m}]]]

Taken(m) == copies' = [copies EXCEPT ![m] = @ + 1] /\ UNCHANGED dropped

\* The client of Resend returns a refusal, and a call that could not be made, as
\* a value: the provider awaits the call and does not look at what it returns.
Dropped(m) == dropped' = dropped \cup {m} /\ UNCHANGED copies

Send(p, m) ==
    /\ Handled(p, "email-send", m)
    /\ Taken(m) \/ Dropped(m)
    /\ UNCHANGED <<job, promised, running, late, reports, faults>>

\* mutant: the error is logged and not thrown again
SendThrowsQuietly(p, m) ==
    /\ Handled(p, "email-send", m)
    /\ UNCHANGED <<job, promised, running, late, copies, dropped, reports, faults>>

\* The provider threw, as that of nodemailer does, before or after the mail was
\* taken: the whole batch failed, with the jobs sent before it.
SendThrows(p, m) ==
    /\ m \in hand[p]["email-send"].todo
    /\ Taken(m) \/ UNCHANGED <<copies, dropped>>
    /\ FailJobs("email-send", hand[p]["email-send"].batch)
    /\ Release(p, "email-send")
    /\ UNCHANGED <<promised, running, late, reports, faults>>

\* an attempt that was given up comes to its end
LateSend(m) ==
    /\ late[m] > 0
    /\ late' = [late EXCEPT ![m] = @ - 1]
    /\ Taken(m) \/ Dropped(m) \/ UNCHANGED <<copies, dropped>>
    /\ UNCHANGED <<job, promised, hand, running, reports, faults>>

Report(p, m) ==
    /\ Handled(p, "email-dlq", m)
    /\ reports' = [reports EXCEPT ![m] = @ + 1]
    /\ UNCHANGED <<job, promised, running, late, copies, dropped, faults>>

-----------------------------------------------------------------------------
(* Processes                                                               *)

\* SIGKILL: the provider may have taken what was being sent (Send before it)
Crash(p) ==
    /\ running[p] # "down"
    /\ running' = [running EXCEPT ![p] = "down"]
    /\ hand' = [hand EXCEPT ![p] = [q \in Queues |-> EmptyHand]]
    /\ Fault
    /\ UNCHANGED <<job, promised, late, copies, dropped, reports>>

\* SIGTERM: onApplicationShutdown stops fetching and waits for the handlers
Stop(p) ==
    /\ running[p] = "up"
    /\ running' = [running EXCEPT ![p] = "stopping"]
    /\ Fault
    /\ UNCHANGED <<job, promised, hand, late, copies, dropped, reports>>

Stopped(p) ==
    /\ running[p] = "stopping"
    /\ \A q \in Queues : hand[p][q].batch = {}
    /\ running' = [running EXCEPT ![p] = "down"]
    /\ UNCHANGED <<job, promised, hand, late, copies, dropped, reports, faults>>

Start(p) ==
    /\ running[p] = "down"
    /\ running' = [running EXCEPT ![p] = "up"]
    /\ UNCHANGED <<job, promised, hand, late, copies, dropped, reports, faults>>

-----------------------------------------------------------------------------
FetchSome(p, q) == \E ms \in SUBSET Mails : Fetch(p, q, ms)

\* what a worker does with the batch it has
Work(p, q) ==
    \/ Finish(p, q)
    \/ q = "email-send" /\ \E m \in Mails : Send(p, m) \/ SendThrows(p, m)
    \/ q = "email-dlq" /\ \E m \in Mails : Report(p, m)

EmailNext ==
    \/ \E m \in Mails :
         \/ \E hook \in Hooks : Enqueue(m, hook)
         \/ EnqueueFails(m)
         \/ \E q \in Queues : Expire(q, m)
         \/ LateSend(m)
    \/ \E p \in Processes :
         \/ \E q \in Queues : FetchSome(p, q) \/ Work(p, q) \/ AnswerLost(p, q)
         \/ GiveUp(p) \/ Crash(p) \/ Stop(p) \/ Stopped(p) \/ Start(p)

\* Workers poll, calls of the provider end, pg-boss looks for expired jobs,
\* and the platform starts a process that ended.  Nothing is assumed of the
\* provider: it may refuse every mail.
EmailFairness ==
    /\ \A p \in Processes :
         /\ \A q \in Queues : WF_emailVars(FetchSome(p, q) \/ Work(p, q))
         /\ WF_emailVars(Stopped(p) \/ Start(p))
    /\ WF_emailVars(\E q \in Queues, m \in Mails : Expire(q, m))

EmailSpec == EmailInit /\ [][EmailNext]_emailVars /\ EmailFairness

-----------------------------------------------------------------------------
(* Properties                                                              *)

\* fetches of m from q so far: every failed attempt counts one try
Attempts(q, m) ==
    CASE job[q][m].state \in {"none", "waiting"} -> job[q][m].tries
      [] OTHER -> job[q][m].tries + 1

Answered(m) == copies[m] > 0 \/ m \in dropped

Senders(m) == {p \in Processes : m \in hand[p]["email-send"].todo}
Reporters(m) == {p \in Processes : m \in hand[p]["email-dlq"].todo}

\* QueueModule and the handlers, through ends of processes, expired jobs and
\* handlers that go on after they were given up:
\*  - a mail is sent at most once per attempt, RetryLimit + 1 times in all;
\*  - email-dlq holds exactly the mails whose attempts are used up;
\*  - a job is completed only after the provider took the mail, or refused it
\*    with an answer nobody looks at (Dropped), and a dead letter only after
\*    the event;
\*  - who was told that the mail is on its way has a job for it.
EmailInv ==
    /\ EmailTypeOK
    /\ \A m \in Mails :
         /\ copies[m] + late[m] + Cardinality(Senders(m)) <= Attempts("email-send", m)
         /\ reports[m] + Cardinality(Reporters(m)) <= Attempts("email-dlq", m)
         /\ job["email-dlq"][m] # NoJob <=> job["email-send"][m].state = "failed"
         /\ job["email-send"][m].state = "completed" => Answered(m)
         /\ job["email-dlq"][m].state = "completed" => reports[m] > 0
         /\ m \in promised => job["email-send"][m] # NoJob

\* The queue keeps the promise of module Delivery, also that every mail taken
\* is settled: under EmailFairness no interleaving leaves a mail pending.
Phase(m) ==
    CASE job["email-send"][m] = NoJob -> "unknown"
      [] job["email-send"][m].state = "completed" -> "completed"
      [] job["email-dlq"][m].state = "completed" -> "reported"
      [] job["email-dlq"][m].state = "failed" -> "abandoned"
      [] OTHER -> "pending"

Promised == INSTANCE Delivery WITH
    MaxCopies <- RetryLimit + 1,
    phase <- [m \in Mails |-> Phase(m)],
    handed <- copies,
    refused <- dropped

EmailPromise == Promised!DeliverySpec
=============================================================================
