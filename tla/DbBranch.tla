------------------------------- MODULE DbBranch -------------------------------
(***************************************************************************)
(* scripts/dbBranch.ts: a database of its own for the branch of an issue.  *)
(* "create" looks whether the database is there, drops it if told to,      *)
(* creates it, pushes the schema, adds what the push leaves out by psql,   *)
(* marks the migrations as applied, seeds, and points .env of the worktree *)
(* at it; when the set-up fails it drops the database again.  "drop" drops *)
(* it.  A command may be broken off anywhere, and commands of two          *)
(* worktrees may name the same issue.                                      *)
(*                                                                         *)
(* psql (external) reads the SQL from its standard input without           *)
(* ON_ERROR_STOP: an error of a statement does not change its exit status, *)
(* only a connection that fails does.                                      *)
(***************************************************************************)
EXTENDS FiniteSets

CONSTANTS
    Worktrees,      \* each with a terminal and a .env file
    Issues,
    NoIssue         \* .env points at the default database

ASSUME BranchAssumption == NoIssue \notin Issues

VARIABLES
    database,       \* database[i]: what was done to the database of i
    env,            \* env[w]: the issue whose database .env names
    command         \* command[w]: the last command of the terminal

branchVars == <<database, env, command>>

Absent == {}
Empty == {"created"}
Done == {"created", "pushed", "policies", "stamped", "seeded"}

Stages == {"idle", "look", "drop", "createdb", "push", "policies", "stamp", "seed",
           "cleanup", "env"}
Outcomes == {"none", "ready", "skipped", "cleaned", "dropped"}

NoCommand == [name |-> "none", issue |-> NoIssue, at |-> "idle", outcome |-> "none",
              lost |-> {}, touched |-> FALSE, agreed |-> FALSE]

BranchTypeOK ==
    /\ database \in [Issues -> SUBSET Done]
    /\ env \in [Worktrees -> Issues \cup {NoIssue}]
    /\ command \in [Worktrees ->
         [name : {"none", "create", "drop"}, issue : Issues \cup {NoIssue},
          at : Stages, outcome : Outcomes,
          lost : SUBSET {"policies", "stamped"},    \* steps psql failed at unnoticed
          touched : BOOLEAN,                        \* another terminal wrote since
          agreed : BOOLEAN]]                        \* --force, or the answer yes

BranchInit ==
    /\ database \in [Issues -> {Absent, Done}]
    /\ env = [w \in Worktrees |-> NoIssue]
    /\ command = [w \in Worktrees |-> NoCommand]

-----------------------------------------------------------------------------
Reached(w, stage) == command[w].at = stage

The(w) == command[w].issue
Exists(w) == database[The(w)] # Absent

NextStage(w, stage) == command' = [command EXCEPT ![w] = [@ EXCEPT !.at = stage]]

EndCommand(w, outcome) ==
    command' = [command EXCEPT ![w] = [@ EXCEPT !.at = "idle", !.outcome = outcome]]

\* what it said of its database is forgotten
GiveUp(w) == command' = [command EXCEPT ![w] = NoCommand]

\* w writes its database and has c as command then; the others learn nothing,
\* and what those said that ended before is out of date
WriteDb(w, content, c) ==
    /\ database' = [database EXCEPT ![The(w)] = content]
    /\ command' = [v \in Worktrees |->
         IF v = w THEN c
         ELSE IF The(v) # The(w) THEN command[v]
         ELSE IF Reached(v, "idle") THEN NoCommand
         ELSE [command[v] EXCEPT !.touched = TRUE]]

AtStage(w, stage) == [command[w] EXCEPT !.at = stage]
Ended(w, outcome) == [command[w] EXCEPT !.at = "idle", !.outcome = outcome]

StartCommand(w, name, issue, force) ==
    /\ Reached(w, "idle")
    /\ command' = [command EXCEPT ![w] =
         [NoCommand EXCEPT !.name = name, !.issue = issue, !.agreed = force,
                           !.at = IF name = "drop" THEN "drop" ELSE "look"]]
    /\ UNCHANGED <<database, env>>

-----------------------------------------------------------------------------
(* handleCreate                                                            *)

\* steps 1 and 2: the container answers; databaseExists
LookAbsent(w) ==
    /\ Reached(w, "look") /\ ~Exists(w)
    /\ NextStage(w, "createdb")
    /\ UNCHANGED <<database, env>>

LookExists(w) ==
    /\ Reached(w, "look") /\ Exists(w)
    /\ \/ command[w].agreed /\ NextStage(w, "drop")
       \/ /\ ~command[w].agreed
          /\ \/ command' = [command EXCEPT ![w] =
                              [@ EXCEPT !.at = "drop", !.agreed = TRUE]]
             \/ EndCommand(w, "skipped")
             \/ GiveUp(w)                       \* not a terminal
    /\ UNCHANGED <<database, env>>

\* dropdb --if-exists; fails while somebody is connected
DropDatabase(w) ==
    /\ Reached(w, "drop")
    /\ WriteDb(w, Absent, IF command[w].name = "drop" THEN Ended(w, "dropped")
                         ELSE AtStage(w, "createdb"))
    /\ UNCHANGED env

CreateDatabase(w) ==
    /\ Reached(w, "createdb") /\ ~Exists(w)
    /\ WriteDb(w, Empty, AtStage(w, "push"))
    /\ UNCHANGED env

\* runMigrations, the push of the schema
PushSchema(w) ==
    /\ Reached(w, "push") /\ Exists(w)
    /\ WriteDb(w, database[The(w)] \cup {"pushed"}, AtStage(w, "policies"))
    /\ UNCHANGED env

WithStep(w, step, fails) ==
    IF fails \/ ~Exists(w) THEN database[The(w)] ELSE database[The(w)] \cup {step}

Noted(w, stage, step, fails) ==
    [command[w] EXCEPT !.at = stage,
                       !.lost = IF fails THEN @ \cup {step} ELSE @]

\* roles, functions and policies of row-level security and the grants of the
\* application's user: whatever goes wrong is a warning
ApplyPolicies(w, fails) ==
    /\ Reached(w, "policies")
    /\ WriteDb(w, WithStep(w, "policies", fails), Noted(w, "stamp", "policies", fails))
    /\ UNCHANGED env

\* stampMigrations; without a database the connection fails
StampMigrations(w, fails) ==
    /\ Reached(w, "stamp") /\ Exists(w)
    /\ WriteDb(w, WithStep(w, "stamped", fails), Noted(w, "seed", "stamped", fails))
    /\ UNCHANGED env

RunSeed(w) ==
    /\ Reached(w, "seed") /\ Exists(w)
    /\ WriteDb(w, database[The(w)] \cup {"seeded"}, AtStage(w, "env"))
    /\ UNCHANGED env

\* mutant: the error ends the command at once
SetupFailsWithoutCleanup(w) ==
    /\ command[w].at \in {"push", "stamp", "seed"}
    /\ EndCommand(w, "cleaned")
    /\ UNCHANGED <<database, env>>

\* a step throws
SetupFails(w) ==
    /\ command[w].at \in {"push", "stamp", "seed"}
    /\ NextStage(w, "cleanup")
    /\ UNCHANGED <<database, env>>

Cleanup(w) ==
    /\ Reached(w, "cleanup")
    /\ WriteDb(w, Absent, Ended(w, "cleaned"))
    /\ UNCHANGED env

UpdateEnvFile(w) ==
    /\ Reached(w, "env")
    /\ env' = [env EXCEPT ![w] = The(w)]
    /\ EndCommand(w, "ready")
    /\ UNCHANGED database

\* process.exit(1), for want of a container or a .env file or when dropdb or
\* createdb fails; or, at any stage, the terminal is closed
BreakOff(w) ==
    /\ ~Reached(w, "idle")
    /\ GiveUp(w)
    /\ UNCHANGED <<database, env>>

BranchNext ==
    \E w \in Worktrees :
      \/ \E i \in Issues : \/ StartCommand(w, "drop", i, FALSE)
                          \/ \E force \in BOOLEAN : StartCommand(w, "create", i, force)
      \/ LookAbsent(w) \/ LookExists(w) \/ DropDatabase(w) \/ CreateDatabase(w)
      \/ PushSchema(w) \/ RunSeed(w) \/ SetupFails(w) \/ Cleanup(w)
      \/ UpdateEnvFile(w) \/ BreakOff(w)
      \/ \E fails \in BOOLEAN : ApplyPolicies(w, fails) \/ StampMigrations(w, fails)

BranchSpec == BranchInit /\ [][BranchNext]_branchVars

-----------------------------------------------------------------------------
(* Properties                                                              *)

\* Wherever steps fail or a command is broken off, unless another terminal
\* worked on the same database: "is ready" is said of a database that has
\* the schema and the seed, and the policies and the stamp unless psql failed
\* at them (which the script does not notice); a set-up that cleaned up leaves no
\* database; and only who had agreed has an existing one dropped.
BranchInv ==
    /\ BranchTypeOK
    /\ \A w \in Worktrees : ~command[w].touched =>
         CASE command[w].outcome = "ready" ->
                env[w] = The(w) /\ Done \ command[w].lost \subseteq database[The(w)]
           [] command[w].outcome \in {"cleaned", "dropped"} -> ~Exists(w)
           [] command[w].outcome = "skipped" -> Exists(w) /\ ~command[w].agreed
           [] OTHER -> TRUE
    /\ \A w \in Worktrees : command[w].name = "create" /\ Reached(w, "drop") => command[w].agreed
===============================================================================
