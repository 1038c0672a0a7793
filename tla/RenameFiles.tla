----------------------------- MODULE RenameFiles -----------------------------
(***************************************************************************)
(* The scripts that renamed the repository's files to camelCase and        *)
(* PascalCase: renameFiles moves the files and then rewrites imports;      *)
(* fixJsImports repairs what the first left.  Both know an import by the   *)
(* last part of its path only, the stem, in whatever file it is.           *)
(***************************************************************************)
EXTENDS FiniteSets, Integers

CONSTANTS
    Sources,    \* files named in kebab-case
    StemOf,     \* their stems
    Convention, \* of each: "camel", "pascal", or "kebab", in a directory to skip
    Imports,    \* records [in, to, ext]: where, of which file, with '.js' or not
    Collected   \* the places under apps/, packages/ and scripts/

ASSUME RenameAssumption ==
    /\ Convention \in [Sources -> {"camel", "pascal", "kebab"}]
    /\ \A i \in Imports : i.to \in Sources /\ i.ext \in {"none", "js"}

VARIABLES
    named,      \* the name of every file, by its convention
    head,       \* the name it has in git's HEAD
    written,    \* the name every import has
    script,     \* the script under way and how far it is
    outcome,    \* what the last script ended with
    renamePast  \* history: broken, a run ended between moves and rewrites;
                \* restored, somebody saved imports over a script's

renameVars == <<named, head, written, script, outcome, renamePast>>

Stems == {StemOf[f] : f \in Sources}
Places == {i.in : i \in Imports}

\* Of the entries with a stem, the one that is replaced first: they are sorted by
\* length alone, so any.
Firsts(entries) ==
    {first \in [Stems -> Sources] : \A s \in Stems :
        LET those == {f \in entries : StemOf[f] = s}
        IN  IF those = {} THEN first[s] = CHOOSE f \in Sources : TRUE ELSE first[s] \in those}

NoScript == [at |-> "none", dry |-> FALSE, entries |-> {}, todo |-> {}, places |-> {},
             first |-> CHOOSE first \in Firsts({}) : TRUE]
ScriptAt(s) == script.at = s

\* Files another file shares its stem with, and not its name afterwards.
Ambiguous(f) == \E g \in Sources : StemOf[g] = StemOf[f] /\ Convention[g] # Convention[f]

Resolves(i) == written[i] = named[i.to]

RenameTypeOK ==
    /\ named \in [Sources -> {"kebab", "camel", "pascal"}]
    /\ written \in [Imports -> {"kebab", "camel", "pascal"}]
    /\ script.at \in {"none", "moving", "updating", "verifying", "fixing"}
    /\ script.entries \subseteq Sources /\ script.todo \subseteq script.entries
    /\ script.places \subseteq Places
    /\ \A f \in Sources : named[f] \in {"kebab", Convention[f]} /\ head[f] \in {"kebab", named[f]}

RenameInit ==
    /\ named = [f \in Sources |-> "kebab"]
    /\ head = named
    /\ written = [i \in Imports |-> "kebab"]
    /\ script = NoScript
    /\ outcome = "none"
    /\ renamePast = [broken |-> FALSE, restored |-> FALSE]

-----------------------------------------------------------------------------
(* renameFiles                                                             *)

EndScript(with) == script' = NoScript /\ outcome' = with

\* discoverFiles: what an earlier run moved is not found again
ToRename == {f \in Sources : Convention[f] # "kebab" /\ named[f] = "kebab"}

DiscoverFiles(dry) ==
    /\ ScriptAt("none")
    /\ IF ToRename = {}
       THEN EndScript("done")
       ELSE /\ \E first \in Firsts(ToRename) :
                 script' = [at |-> "moving", dry |-> dry, entries |-> ToRename,
                            todo |-> ToRename, places |-> {}, first |-> first]
            /\ UNCHANGED outcome
    /\ UNCHANGED <<named, head, written, renamePast>>

\* One 'git mv', the longest names first: any order, as names are abstract.
GitMv(f) ==
    /\ ScriptAt("moving") /\ f \in script.todo /\ ~script.dry
    /\ named' = [named EXCEPT ![f] = Convention[f]]
    /\ script' = [script EXCEPT !.todo = @ \ {f}]
    /\ UNCHANGED <<head, written, outcome, renamePast>>

\* After the moves: the sources are collected, the script's own ones among them.
CollectSources ==
    /\ ScriptAt("moving") /\ (script.dry \/ script.todo = {})
    /\ script' = [script EXCEPT !.at = "updating", !.todo = {}, !.places = Places \cap Collected]
    /\ UNCHANGED <<named, head, written, outcome, renamePast>>

\* The imports of a file whose old stem, quoted, an entry has.
Matches(i, place, exts) ==
    /\ i.in = place /\ i.ext \in exts /\ written[i] = "kebab"
    /\ \E f \in script.entries : StemOf[f] = StemOf[i.to]

Rewritten(place, exts) ==
    [i \in Imports |-> IF Matches(i, place, exts)
                       THEN Convention[script.first[StemOf[i.to]]] ELSE written[i]]

\* mutant: as the script was when fixJsImports was written
UpdateImportsBare(place) ==
    /\ ScriptAt("updating") /\ place \in script.places
    /\ written' = IF script.dry THEN written ELSE Rewritten(place, {"none"})
    /\ script' = [script EXCEPT !.places = @ \ {place}]
    /\ UNCHANGED <<named, head, outcome, renamePast>>

\* updateImports, one file: read, replaced and written
UpdateImports(place) ==
    /\ ScriptAt("updating") /\ place \in script.places
    /\ written' = IF script.dry THEN written ELSE Rewritten(place, {"none", "js"})
    /\ script' = [script EXCEPT !.places = @ \ {place}]
    /\ UNCHANGED <<named, head, outcome, renamePast>>

\* Files were moved, and imports are not all rewritten.
Halfway ==
    /\ script.at \in {"moving", "updating"} /\ ~script.dry
    /\ \E f \in script.entries : named[f] # "kebab"

\* 'git mv', a read or a write fails, or somebody stops the script.
BreakOffScript ==
    /\ ~ScriptAt("none")
    /\ EndScript("failed")
    /\ renamePast' = [renamePast EXCEPT !.broken = @ \/ Halfway]
    /\ UNCHANGED <<named, head, written>>

Stale == {i \in Imports : i.in \in Collected /\ Matches(i, i.in, {"none", "js"})}

\* verify, and the exit code.  A dry run is verified too, and what it would have
\* replaced is stale.
Verify ==
    /\ \/ /\ ScriptAt("updating") /\ script.places = {}
          /\ script' = [script EXCEPT !.at = "verifying"] /\ UNCHANGED outcome
       \/ /\ ScriptAt("verifying")
          /\ EndScript(CASE script.dry -> "dry"
                         [] ~script.dry /\ Stale # {} -> "stale"
                         [] OTHER -> "done")
    /\ UNCHANGED <<named, head, written, renamePast>>

-----------------------------------------------------------------------------
(* fixJsImports                                                            *)

\* git diff against HEAD; a file whose stem stays is left out
MovedSinceHead == {f \in Sources : head[f] # named[f]}

ParseRenameMap(dry) ==
    /\ ScriptAt("none")
    /\ IF MovedSinceHead = {}
       THEN EndScript("nothing")
       ELSE /\ \E first \in Firsts(MovedSinceHead) :
                 script' = [at |-> "fixing", dry |-> dry, entries |-> MovedSinceHead,
                            todo |-> {}, places |-> Places \cap Collected, first |-> first]
            /\ UNCHANGED outcome
    /\ UNCHANGED <<named, head, written, renamePast>>

\* mutant: after the first file that changed
FixImportsOnce(place) ==
    /\ ScriptAt("fixing") /\ place \in script.places
    /\ written' = IF script.dry THEN written ELSE Rewritten(place, {"js"})
    /\ script' = [script EXCEPT !.places = IF written' = written THEN @ \ {place} ELSE {}]
    /\ UNCHANGED <<named, head, outcome, renamePast>>

FixImports(place) ==
    /\ ScriptAt("fixing") /\ place \in script.places
    /\ written' = IF script.dry THEN written ELSE Rewritten(place, {"js"})
    /\ script' = [script EXCEPT !.places = @ \ {place}]
    /\ UNCHANGED <<named, head, outcome, renamePast>>

Fixed ==
    /\ ScriptAt("fixing") /\ script.places = {}
    /\ EndScript(IF script.dry THEN "dry" ELSE "fixed")
    /\ UNCHANGED <<named, head, written, renamePast>>

-----------------------------------------------------------------------------
(* Developers                                                              *)

GitCommit ==
    /\ ScriptAt("none") /\ head # named
    /\ head' = named
    /\ UNCHANGED <<named, written, script, outcome, renamePast>>

\* An editor saves the file it has open over what a script wrote.
SaveOldImports(place) ==
    /\ ~renamePast.restored
    /\ written' = [i \in Imports |-> IF i.in = place THEN "kebab" ELSE written[i]]
    /\ written' # written
    /\ renamePast' = [renamePast EXCEPT !.restored = TRUE]
    /\ UNCHANGED <<named, head, script, outcome>>

RenameNext ==
    \/ \E dry \in BOOLEAN : DiscoverFiles(dry) \/ ParseRenameMap(dry)
    \/ \E f \in Sources : GitMv(f)
    \/ CollectSources
    \/ \E place \in Places : UpdateImports(place) \/ FixImports(place) \/ SaveOldImports(place)
    \/ BreakOffScript \/ Verify \/ Fixed \/ GitCommit

RenameSpec == RenameInit /\ [][RenameNext]_renameVars

-----------------------------------------------------------------------------
(* Properties                                                              *)

\* When renameFiles says it is done, imports resolve: those of files whose stem
\* is nobody else's, in a place it collects, and unless an earlier run broke
\* off or an editor undid it.  Verify searches what was replaced just before and
\* sees none of the three.
DoneResolves ==
    outcome = "done" /\ ScriptAt("none") =>
        \A i \in Imports :
            Resolves(i) \/ Ambiguous(i.to) \/ i.in \notin Collected
            \/ renamePast.broken \/ renamePast.restored

\* Another file of the stem is renamed and f is not, or not so.
NamedApart(f) == \E g \in Sources : StemOf[g] = StemOf[f] /\ named[g] # named[f]

\* The scripts break no import but those of files that share a stem and are named
\* apart, in the end or after a run that broke off: any other that does not
\* resolve still has its old name.
BrokenByStem ==
    \A i \in Imports :
        Resolves(i) \/ written[i] = "kebab" \/ Ambiguous(i.to) \/ NamedApart(i.to)

\* A verification of a real run that finds something means an editor was there.
StaleForCause == outcome = "stale" => renamePast.restored

\* What fixJsImports is for: after a run that broke off, and before the renames
\* are committed, it leaves no import with '.js' that does not resolve.
JsFixed ==
    outcome = "fixed" /\ ScriptAt("none") /\ ~renamePast.restored =>
        \A i \in Imports :
            i.ext = "js" /\ i.in \in Collected /\ head[i.to] # named[i.to] =>
                Resolves(i) \/ Ambiguous(i.to)

RenameInv == RenameTypeOK /\ DoneResolves /\ BrokenByStem /\ StaleForCause /\ JsFixed
=============================================================================
