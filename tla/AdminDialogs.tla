----------------------------- MODULE AdminDialogs -----------------------------
(***************************************************************************)
(* The dialogs of the admin console that ban, unban, archive and restore a *)
(* user or archive and restore an organization, from its page or from the  *)
(* menu of a list.  Which of them are offered depends on the row as it was *)
(* fetched; the server looks again, and for all but a ban writes in a      *)
(* second statement outside any transaction.                               *)
(*                                                                         *)
(* One administrator and one row; the statements of the other              *)
(* administrators, and of the user, may fall between any two of his.       *)
(***************************************************************************)
EXTENDS FiniteSets

VARIABLES
    subject,        \* "user" or "organization"
    status,         \* of the row: a subset of Marks
    shown,          \* the status the page or the list has fetched
    dialog,         \* the dialog that is open
    action          \* the request under way

dialogVars == <<subject, status, shown, dialog, action>>

Marks == {"archived", "banned", "superadmin"}
Operations == {"ban", "unban", "delete", "restore"}

NoAction == [op |-> "none"]

Closed == [op |-> "none", stale |-> FALSE]

\* found: the status that the server looked up
\* stale: the row was written since it was fetched for the page or the dialog
\* raced: marks that others wrote since the server looked
Actions == [op : Operations, state : {"sent", "found", "done", "refused"},
            found : SUBSET Marks, stale : BOOLEAN, raced : SUBSET Marks]

DialogsTypeOK ==
    /\ subject \in {"user", "organization"}
    /\ status \subseteq Marks
    /\ shown \in [marks : SUBSET Marks, stale : BOOLEAN]
    /\ dialog \in [op : Operations \cup {"none"}, stale : BOOLEAN]
    /\ action \in Actions \cup {NoAction}

DialogsInit ==
    /\ subject \in {"user", "organization"}
    /\ status \in IF subject = "user" THEN SUBSET Marks ELSE SUBSET {"archived"}
    /\ shown = [marks |-> status, stale |-> FALSE]
    /\ dialog = Closed
    /\ action = NoAction

-----------------------------------------------------------------------------
(* The page or the list                                                    *)

\* after an action that succeeded, or when the query is stale
RefetchStatus ==
    /\ shown' = [marks |-> status, stale |-> FALSE]
    /\ UNCHANGED <<subject, status, dialog, action>>

\* ActionButtons, UserStatusMenuItems
Offered(marks) ==
    (IF "archived" \in marks THEN {"restore"} ELSE {"delete"})
      \cup (IF subject = "organization" THEN {}
            ELSE IF "banned" \in marks THEN {"unban"}
            ELSE IF "archived" \in marks THEN {} ELSE {"ban"})

OpenDialog(op) ==
    /\ dialog = Closed
    /\ op \in Offered(shown.marks)
    /\ dialog' = [op |-> op, stale |-> shown.stale]
    /\ UNCHANGED <<subject, status, shown, action>>

CloseDialog ==
    /\ dialog # Closed
    /\ dialog' = Closed
    /\ UNCHANGED <<subject, status, shown, action>>

\* the button is off while the request runs, and the dialog stays
Confirm ==
    /\ dialog # Closed /\ action = NoAction
    /\ action' = [op |-> dialog.op, state |-> "sent", found |-> {},
                  stale |-> dialog.stale, raced |-> {}]
    /\ UNCHANGED <<subject, status, shown, dialog>>

\* a success closes the dialog, an error only says so
ActionAnswered ==
    /\ action.op # "none" /\ action.state \in {"done", "refused"}
    /\ dialog' = IF action.state = "done" THEN Closed ELSE dialog
    /\ action' = NoAction
    /\ UNCHANGED <<subject, status, shown>>

-----------------------------------------------------------------------------
(* The server                                                              *)

Target(op) == IF op \in {"ban", "unban"} THEN "banned" ELSE "archived"

Performed(op, marks) == IF op \in {"ban", "delete"} THEN marks \cup {Target(op)}
                        ELSE marks \ {Target(op)}

\* the page and an open dialog are older than this write
Outdate ==
    /\ shown' = [shown EXCEPT !.stale = TRUE]
    /\ dialog' = IF dialog = Closed THEN Closed
                 ELSE [dialog EXCEPT !.stale = TRUE]

\* mutant: validateDeleteEligibility does not look at deleted_at
AllowedTwice(op, marks) ==
    CASE op = "ban" -> marks \cap {"superadmin", "banned"} = {}
      [] op = "unban" -> TRUE
      [] op = "delete" -> "superadmin" \notin marks
      [] op = "restore" -> "archived" \in marks

\* validateBanEligibility, validateDeleteEligibility, the check of restoreUser
\* and those of the organizations
Allowed(op, marks) ==
    CASE op = "ban" -> marks \cap {"superadmin", "banned"} = {}
      [] op = "unban" -> TRUE
      [] op = "delete" -> marks \cap {"superadmin", "archived"} = {}
      [] op = "restore" -> "archived" \in marks

\* findUserSnapshotOrThrow, findOrgSnapshotOrThrow
Find ==
    /\ action.op # "none" /\ action.state = "sent"
    /\ action' = [action EXCEPT !.state = IF Allowed(action.op, status)
                                          THEN "found" ELSE "refused",
                                !.found = status]
    /\ UNCHANGED <<subject, status, shown, dialog>>

\* the UPDATE; banUser is serializable, and fails when its row was written
Perform ==
    /\ action.op # "none" /\ action.state = "found"
    /\ action.op = "ban" => action.raced = {}
    /\ status' = Performed(action.op, status)
    /\ action' = [action EXCEPT !.state = "done"]
    /\ Outdate
    /\ UNCHANGED subject

ActionFails ==
    /\ action.op # "none" /\ action.state \in {"sent", "found"}
    /\ action' = [action EXCEPT !.state = "refused"]
    /\ UNCHANGED <<subject, status, shown, dialog>>

\* A statement of somebody else: an operation of another administrator, which
\* may have looked before, an account deleted or reactivated by its user, a
\* promotion, or a superadmin who gives up the role.
OthersMark(mark) ==
    /\ mark \in IF subject = "user" THEN Marks ELSE {"archived"}
    /\ mark = "banned" /\ mark \notin status => "superadmin" \notin status
    /\ status' = IF mark \in status THEN status \ {mark} ELSE status \cup {mark}
    /\ Outdate
    /\ action' = IF action.op = "none" THEN action
                 ELSE [action EXCEPT !.stale = TRUE,
                                     !.raced = IF action.state = "found"
                                               THEN @ \cup {mark} ELSE @]
    /\ UNCHANGED subject

DialogsNext ==
    \/ RefetchStatus \/ CloseDialog \/ Confirm \/ ActionAnswered
    \/ Find \/ Perform \/ ActionFails
    \/ \E op \in Operations : OpenDialog(op)
    \/ \E mark \in Marks : OthersMark(mark)

DialogsSpec == DialogsInit /\ [][DialogsNext]_dialogVars

-----------------------------------------------------------------------------
(* Properties                                                              *)

PerformedNow ==
    /\ action.op # "none" /\ action'.op # "none"
    /\ action.state = "found" /\ action'.state = "done"

\* What the administrator confirmed, when it is done at last: the audit log
\* has the row as it was except for what others wrote between the look and the
\* UPDATE; a superadmin is archived, and a deletion that was running starts
\* again (with thirty new days), only if that came in between too; and
\* an operation that changes nothing was still offered for a reason, the page
\* being older than some write.
ActsForCause ==
    [][PerformedNow =>
         /\ \A mark \in Marks \ action.raced : mark \in action.found <=> mark \in status
         /\ action.op = "ban" => "superadmin" \notin status
         /\ action.op = "delete" /\ status \cap {"superadmin", "archived"} # {} =>
              status \cap {"superadmin", "archived"} \cap action.raced # {}
         /\ status' = status => action.stale]_dialogVars
===============================================================================
