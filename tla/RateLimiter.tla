---------------------------- MODULE RateLimiter ----------------------------
(***************************************************************************)
(* One tier of the rate limiter and one tracker of it (a user, an address  *)
(* or an API key): UpstashThrottlerStorage keeps a counter and a block in  *)
(* two Redis keys that expire by themselves, and CustomThrottlerGuard      *)
(* turns what it returns into a pass, a 429 or a 503.  Tiers and trackers  *)
(* have keys of their own and do not meet.  Requests the tier does not     *)
(* apply to never get here.  Time is in seconds, the unit of EXPIRE and    *)
(* EX.                                                                     *)
(***************************************************************************)
EXTENDS Naturals, Sequences, FiniteSets

CONSTANTS
    Calls,          \* requests of the tracker in flight at the same time
    Tier,           \* "global", "auth" or "api"
    Limit, Ttl,
    BlockDuration,  \* the library puts Ttl where a tier names none
    MaxTime,        \* bound: seconds that pass
    MaxHits         \* bound: hits that are counted

ASSUME LimiterAssumption ==
    /\ Tier \in {"global", "auth", "api"}
    /\ Limit \in Nat \ {0} /\ Ttl \in Nat \ {0} /\ BlockDuration \in Nat
    /\ MaxTime \in Nat /\ MaxHits \in Nat

VARIABLES
    now,
    counter,    \* key `key`: value and time of expiry
    block,      \* key `key:blocked`: time of expiry
    call,       \* requests inside increment()
    hits        \* history: time and result of every INCR

limiterVars == <<now, counter, block, call, hits>>

Hit == [at : 0..MaxTime, total : Nat]

Call == [pc : {"idle", "check", "increment", "counted", "block", "blocked"},
         total : Nat,       \* totalHits
         answer : {"none", "pass", "refuse", "unavailable"}]

Expired == [value |-> 0, until |-> 0]

LimiterInit ==
    /\ now = 0
    /\ counter = Expired
    /\ block = 0
    /\ call = [c \in Calls |-> [pc |-> "idle", total |-> 0, answer |-> "none"]]
    /\ hits = <<>>

-----------------------------------------------------------------------------
GoOn(c, pc) == call' = [call EXCEPT ![c].pc = pc]

Reply(c, answer) ==
    call' = [call EXCEPT ![c] = [pc |-> "idle", total |-> 0, answer |-> answer]]

Redis == <<counter, block, hits>>

\* A second passes, and with it the keys whose time has come.
Second ==
    /\ now < MaxTime
    /\ now' = now + 1
    /\ counter' = IF counter.until <= now + 1 THEN Expired ELSE counter
    /\ block' = IF block <= now + 1 THEN 0 ELSE block
    /\ UNCHANGED <<call, hits>>

\* handleRequest asks the storage; the last answer of the slot is forgotten.
HandleRequest(c) ==
    /\ call[c].pc = "idle"
    /\ Len(hits) + Cardinality({d \in Calls : call[d].pc # "idle"}) < MaxHits
    /\ call' = [call EXCEPT ![c] = [pc |-> "check", total |-> 0,
                                    answer |-> "none"]]
    /\ UNCHANGED <<now, Redis>>

\* TTL key:blocked
CheckBlocked(c) ==
    /\ call[c].pc = "check"
    /\ IF block > now THEN Reply(c, "refuse") ELSE GoOn(c, "increment")
    /\ UNCHANGED <<now, Redis>>

\* Plausible bugs in the next definition: EXPIRE only with the first hit (a
\* window that starts with it), and no EXPIRE at all.
IncrementedFirst ==
    IF counter.value = 0 THEN [value |-> 1, until |-> now + Ttl]
    ELSE [counter EXCEPT !.value = @ + 1]

IncrementedForEver == [value |-> counter.value + 1, until |-> MaxTime + 1]

Incremented == [value |-> counter.value + 1, until |-> now + Ttl]

\* INCR, EXPIRE and TTL in one round trip: every hit renews the expiry.
AtomicIncrement(c) ==
    /\ call[c].pc = "increment"
    /\ counter' = Incremented
    /\ call' = [call EXCEPT ![c] = [pc |-> "counted", total |-> counter.value + 1,
                                    answer |-> "none"]]
    /\ hits' = Append(hits, [at |-> now, total |-> counter.value + 1])
    /\ UNCHANGED <<now, block>>

\* The answer of the round trip has come; a tier without block only refuses.
Decide(c) ==
    /\ call[c].pc = "counted"
    /\ IF call[c].total > Limit
         THEN IF BlockDuration > 0 THEN GoOn(c, "block") ELSE Reply(c, "refuse")
         ELSE Reply(c, "pass")
    /\ UNCHANGED <<now, Redis>>

\* SET key:blocked EX
SetBlockKey(c) ==
    /\ call[c].pc = "block"
    /\ block' = now + BlockDuration
    /\ GoOn(c, "blocked")
    /\ UNCHANGED <<now, counter, hits>>

ReturnBlocked(c) ==
    /\ call[c].pc = "blocked"
    /\ Reply(c, "refuse")
    /\ UNCHANGED <<now, Redis>>

\* A round trip fails, before Redis did what it was asked or after it.
HandleRedisError(c) ==
    /\ call[c].pc # "idle"
    /\ Reply(c, IF Tier = "global" THEN "pass" ELSE "unavailable")
    /\ UNCHANGED <<now, Redis>>

LimiterNext ==
    \/ Second
    \/ \E c \in Calls :
         \/ HandleRequest(c) \/ CheckBlocked(c) \/ AtomicIncrement(c)
         \/ Decide(c) \/ SetBlockKey(c) \/ ReturnBlocked(c)
         \/ HandleRedisError(c)

LimiterSpec == LimiterInit /\ [][LimiterNext]_limiterVars

-----------------------------------------------------------------------------
\* Less than Ttl after the hit before.
InBurst(i) == hits[i].at < hits[i - 1].at + Ttl

LimiterTypeOK ==
    /\ now \in 0..MaxTime
    /\ counter \in [value : Nat, until : Nat]
    /\ block \in Nat
    /\ call \in [Calls -> Call]
    /\ \A c \in Calls : call[c].pc # "idle" => call[c].answer = "none"
    /\ hits \in Seq(Hit)

\* What INCR returned is the number of hits since the tracker was last quiet for
\* Ttl, and the counter is that of the last hit, or gone.
BurstsCounted ==
    /\ \A i \in DOMAIN hits :
         /\ hits[i].at <= now
         /\ hits[i].total = IF i > 1 /\ InBurst(i) THEN hits[i - 1].total + 1 ELSE 1
    /\ counter = IF hits # <<>> /\ now < hits[Len(hits)].at + Ttl
                   THEN [value |-> hits[Len(hits)].total,
                         until |-> hits[Len(hits)].at + Ttl]
                   ELSE Expired

\* So a number above 1 says how long a burst is, and grows along it.
BurstsGrow ==
    \A i \in DOMAIN hits :
      /\ hits[i].total <= i
      /\ \A j \in (i - hits[i].total + 2)..i : InBurst(j)
      /\ \A j \in 1..(i - 1) :
           /\ hits[j].at <= hits[i].at
           /\ hits[i].at < hits[j].at + Ttl => hits[j].total < hits[i].total

\* More than Limit requests, each less than Ttl after the one before.
Overrun ==
    \E i \in DOMAIN hits :
       i > Limit /\ \A j \in (i - Limit + 1)..i : InBurst(j)

\* Blocks, and requests about to block or refuse, have an overrun behind them.
BlockedForCause ==
    /\ block # 0 => Overrun
    /\ \A c \in Calls :
         /\ call[c].pc \in {"block", "blocked"} => Overrun
         /\ call[c].pc = "counted" =>
              \E i \in DOMAIN hits : hits[i].total = call[c].total

\* Nothing else is ever in the two keys, whatever order the round trips of the
\* requests have and whichever of them fail.
LimiterInv == LimiterTypeOK /\ BurstsCounted /\ BurstsGrow /\ BlockedForCause

\* No window of Ttl seconds, wherever it starts, has more than Limit hits that
\* were not over the limit: the promise of RATE_LIMIT_*_LIMIT, without the
\* bursts on the edge of a window that fixed windows let through.
WindowLimit ==
    \A i \in DOMAIN hits :
       Cardinality({j \in 1..i : /\ hits[i].at < hits[j].at + Ttl
                                /\ hits[j].total <= Limit}) <= Limit

\* A tracker is refused (429) only after an overrun: who stays away for Ttl
\* starts anew, and a failed round trip is held against nobody.
RefusedForCause ==
    [][\A c \in Calls :
         call[c].pc # "idle" /\ call'[c].answer = "refuse" => Overrun]_limiterVars
=============================================================================
