---------------------------- MODULE FeatureFlags ----------------------------
(***************************************************************************)
(* The feature flag of one key: its row, and the cache every process keeps *)
(* of it (FeatureFlagService.cache).  Keys have entries and rows of their  *)
(* own and do not meet.  A read that misses the cache is two steps, its    *)
(* SELECT and what it stores; a write is its statement and the removal of  *)
(* the entry in the process that made it.  An entry runs out 60 seconds    *)
(* after it was stored: at any time, in the model.                         *)
(***************************************************************************)
CONSTANTS
    Instances,  \* processes of the API
    FlagCalls,  \* calls of the service in flight at the same time
    Nobody      \* no process

VARIABLES
    flag,       \* feature_flags.enabled, or that there is no row
    entry,      \* of each process
    running     \* calls in flight

flagVars == <<flag, entry, running>>

Flag == {"absent", "on", "off"}

Entry ==
    [value : {"none", "on", "off"},
     excused : BOOLEAN]     \* history: nothing the process did could drop it

NoEntry == [value |-> "none", excused |-> FALSE]

Running ==
    [pc : {"idle", "store", "drop"},
     at : Instances \cup {Nobody},
     read : {"none", "on", "off"},
     crossed : BOOLEAN]     \* history: the flag was written since the SELECT

Idle == [pc |-> "idle", at |-> Nobody, read |-> "none", crossed |-> FALSE]

FlagInit ==
    /\ flag = "absent"
    /\ entry = [i \in Instances |-> NoEntry]
    /\ running = [c \in FlagCalls |-> Idle]

-----------------------------------------------------------------------------
\* isEnabled with an entry that has not run out changes nothing.  Without one
\* it selects the row, and is done when there is none.
FindByKey(c, i) ==
    /\ running[c].pc = "idle"
    /\ entry[i].value = "none"
    /\ flag # "absent"
    /\ running' = [running EXCEPT ![c] =
         [pc |-> "store", at |-> i, read |-> flag, crossed |-> FALSE]]
    /\ UNCHANGED <<flag, entry>>

Store(c) ==
    /\ running[c].pc = "store"
    /\ entry' = [entry EXCEPT ![running[c].at] =
         [value |-> running[c].read, excused |-> running[c].crossed]]
    /\ running' = [running EXCEPT ![c] = Idle]
    /\ UNCHANGED flag

Expires(i) ==
    /\ entry[i] # NoEntry
    /\ entry' = [entry EXCEPT ![i] = NoEntry]
    /\ UNCHANGED <<flag, running>>

\* A statement of the process i commits the value: reads of any process that
\* are under way, and entries of other processes, are out of its reach.
Commit(c, i, value) ==
    /\ flag' = value
    /\ entry' = [j \in Instances |->
         IF j = i \/ entry[j].value = "none" THEN entry[j]
         ELSE [entry[j] EXCEPT !.excused = TRUE]]
    /\ running' = [d \in FlagCalls |->
         IF d = c THEN [Idle EXCEPT !.pc = "drop", !.at = i]
         ELSE IF running[d].pc = "store" THEN [running[d] EXCEPT !.crossed = TRUE]
         ELSE running[d]]

\* create: INSERT, disabled by default; refused when the key is taken.
Create(c, i) ==
    /\ running[c].pc = "idle"
    /\ flag = "absent"
    /\ Commit(c, i, "off")

\* update: UPDATE ... RETURNING; nothing happens when the row is gone.
Update(c, i) ==
    /\ running[c].pc = "idle"
    /\ flag # "absent"
    /\ \E value \in {"on", "off"} : Commit(c, i, value)

\* delete: DELETE ... RETURNING
Delete(c, i) ==
    /\ running[c].pc = "idle"
    /\ flag # "absent"
    /\ Commit(c, i, "absent")

\* Plausible bug in the next definition: the row that comes back has no key.
DropNothing(c) ==
    /\ running[c].pc = "drop"
    /\ running' = [running EXCEPT ![c] = Idle]
    /\ UNCHANGED <<flag, entry>>

\* this.cache.delete(key)
Drop(c) ==
    /\ running[c].pc = "drop"
    /\ entry' = [entry EXCEPT ![running[c].at] = NoEntry]
    /\ running' = [running EXCEPT ![c] = Idle]
    /\ UNCHANGED flag

FlagNext ==
    \/ \E c \in FlagCalls :
         \/ Store(c) \/ Drop(c)
         \/ \E i \in Instances : \/ FindByKey(c, i) \/ Create(c, i)
                                 \/ Update(c, i) \/ Delete(c, i)
    \/ \E i \in Instances : Expires(i)

FlagSpec == FlagInit /\ [][FlagNext]_flagVars

-----------------------------------------------------------------------------
FlagTypeOK ==
    /\ flag \in Flag
    /\ entry \in [Instances -> Entry]
    /\ running \in [FlagCalls -> Running]
    /\ \A c \in FlagCalls :
         /\ running[c].pc # "idle" => running[c].at \in Instances
         /\ running[c].pc = "store" => running[c].read # "none"

\* A write that is about to drop the entry of the process i.
Dropping(i) == \E c \in FlagCalls : running[c].pc = "drop" /\ running[c].at = i

\* What isEnabled answers from the cache is the row's value, except between a
\* write and the removal that belongs to it, after a write of another process
\* and after a read that a write overtook: a process sees its own writes.
StaleFlagForCause ==
    \A i \in Instances :
       entry[i].value \notin {"none", flag} => entry[i].excused \/ Dropping(i)

\* A read that no write has overtaken holds what the row has.
ReadIsFresh ==
    \A c \in FlagCalls :
       running[c].pc = "store" => running[c].crossed \/ running[c].read = flag

\* All of it together, which every step preserves.
FlagInv == FlagTypeOK /\ ReadIsFresh /\ StaleFlagForCause
=============================================================================
