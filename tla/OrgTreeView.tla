----------------------------- MODULE OrgTreeView -----------------------------
(***************************************************************************)
(* The tree of organizations in the admin console: the page asks for all   *)
(* that are not archived, assembles the tree itself and remembers which    *)
(* rows are expanded.  Parents are whatever the API lets them become, a    *)
(* circle included (OrgTree), and change meanwhile.                        *)
(***************************************************************************)
EXTENDS FiniteSets, Naturals

CONSTANTS
    Nodes,          \* ids of organizations
    NoParent,
    TreeLimit,      \* most organizations of a tree: 1000 in the code
    MaxMoves        \* bound: changes of organizations

ASSUME TreeViewAssumption ==
    IsFiniteSet(Nodes) /\ NoParent \notin Nodes /\ MaxMoves \in Nat

VARIABLES
    orgRow,         \* table organizations
    moves,
    treeQuery,      \* the request: count, then rows
    treeData,       \* what useQuery holds; of: who was archived then (history)
    mounted,        \* TreeModeView
    expanded,       \* of TreeView
    touched         \* history: the user toggled since the effect ran

treeVars == <<orgRow, moves, treeQuery, treeData, mounted, expanded, touched>>

NoTree == [state |-> "loading", rows |-> {}, parent |-> [n \in Nodes |-> NoParent],
           gone |-> {}]

TreeTypeOK ==
    /\ orgRow \in [Nodes -> [parent : Nodes \cup {NoParent}, archived : BOOLEAN]]
    /\ moves \in 0..MaxMoves
    /\ treeQuery \in {"none", "asked", "counted"}
    /\ treeData \in [state : {"loading", "tree", "too many", "error"}, rows : SUBSET Nodes,
                     parent : [Nodes -> Nodes \cup {NoParent}], gone : SUBSET Nodes]
    /\ mounted \in BOOLEAN /\ touched \in BOOLEAN
    /\ expanded \subseteq Nodes

\* isNull(organizations.deletedAt)
NotArchived == {n \in Nodes : ~orgRow[n].archived}

TreeInit ==
    /\ orgRow \in [Nodes -> [parent : Nodes \cup {NoParent}, archived : BOOLEAN]]
    /\ \A n \in Nodes : orgRow[n].parent # n
    /\ moves = 0 /\ treeQuery = "none" /\ treeData = NoTree
    /\ mounted = FALSE /\ expanded = {} /\ touched = FALSE

-----------------------------------------------------------------------------
(* buildTree                                                               *)

\* roots: without a parent, or orphans, whose parent is not among the rows
Orphan(d, n) == d.parent[n] # NoParent /\ d.parent[n] \notin d.rows

\* mutant: orphans are nowhere
RootsWithoutOrphans(d) == {n \in d.rows : d.parent[n] = NoParent}

Roots(d) == {n \in d.rows : d.parent[n] = NoParent \/ Orphan(d, n)}
Children(d, n) == {c \in d.rows : d.parent[c] = n}

\* TreeNodeRow: a row is shown when it is a root, or its parent is shown and
\* expanded
Rendered(d, open) ==
    LET upTo[i \in 0..Cardinality(Nodes)] ==
          IF i = 0 THEN Roots(d)
          ELSE upTo[i - 1] \cup UNION {Children(d, n) : n \in upTo[i - 1] \cap open}
    IN  upTo[Cardinality(Nodes)]

HasTree == treeData.state = "tree" /\ treeData.rows # {}
Shown == IF mounted /\ HasTree THEN Rendered(treeData, expanded) ELSE {}

-----------------------------------------------------------------------------
(* The API                                                                 *)

\* somebody moves, archives or restores an organization
Move(n, p, archived) ==
    /\ moves < MaxMoves /\ moves' = moves + 1
    /\ p # n /\ orgRow[n] # [parent |-> p, archived |-> archived]
    /\ orgRow' = [orgRow EXCEPT ![n] = [parent |-> p, archived |-> archived]]
    /\ UNCHANGED <<treeQuery, treeData, mounted, expanded, touched>>

\* listOrganizationsForTree counts
Count ==
    /\ treeQuery = "asked" /\ Cardinality(NotArchived) <= TreeLimit
    /\ treeQuery' = "counted"
    /\ UNCHANGED <<orgRow, moves, treeData, mounted, expanded, touched>>

\* mutant: the effect is missing
FollowsWithoutEffect(d) ==
    LET there == d.state = "tree" /\ d.rows # {}
    IN  /\ treeData' = d
        /\ expanded' = IF ~(mounted /\ there) THEN {}
                       ELSE IF HasTree THEN expanded ELSE Roots(d)
        /\ touched' = (touched /\ mounted /\ HasTree /\ d = treeData)

\* What becomes of TreeView with other data: it is not there without rows; a
\* new one starts with its roots, and the effect adds the roots of a tree that
\* changed.
Follows(d) ==
    LET there == d.state = "tree" /\ d.rows # {}
    IN  /\ treeData' = d
        /\ expanded' = IF ~(mounted /\ there) THEN {}
                       ELSE IF HasTree /\ d = treeData THEN expanded
                       ELSE IF HasTree THEN expanded \cup Roots(d) ELSE Roots(d)
        /\ touched' = (touched /\ mounted /\ HasTree /\ d = treeData)

\* the rows, read after the count
RowsArrive ==
    /\ treeQuery = "counted" /\ treeQuery' = "none"
    /\ Follows([state |-> "tree", rows |-> NotArchived,
                parent |-> [n \in Nodes |-> IF n \in NotArchived THEN orgRow[n].parent ELSE NoParent],
                gone |-> {n \in Nodes : orgRow[n].archived}])
    /\ UNCHANGED <<orgRow, moves, mounted>>

\* treeViewAvailable: false
TooMany ==
    /\ treeQuery = "asked" /\ Cardinality(NotArchived) > TreeLimit
    /\ treeQuery' = "none"
    /\ Follows([NoTree EXCEPT !.state = "too many"])
    /\ UNCHANGED <<orgRow, moves, mounted>>

\* the card of the error takes the place of the tree that was there
TreeFails ==
    /\ treeQuery # "none" /\ treeQuery' = "none"
    /\ Follows([NoTree EXCEPT !.state = "error"])
    /\ UNCHANGED <<orgRow, moves, mounted>>

-----------------------------------------------------------------------------
(* The page                                                                *)

\* the button Tree: what is kept is shown and asked for again
ShowTree ==
    /\ ~mounted /\ mounted' = TRUE
    /\ treeQuery' = IF treeQuery = "none" THEN "asked" ELSE treeQuery
    /\ expanded' = IF HasTree THEN Roots(treeData) ELSE {}
    /\ touched' = FALSE
    /\ UNCHANGED <<orgRow, moves, treeData>>

\* the button List, or the page of an organization: handleSelect
LeaveTree ==
    /\ mounted /\ mounted' = FALSE
    /\ expanded' = {} /\ touched' = FALSE
    /\ UNCHANGED <<orgRow, moves, treeQuery, treeData>>

\* refetchOnWindowFocus
FocusTree ==
    /\ mounted /\ treeQuery = "none" /\ treeQuery' = "asked"
    /\ UNCHANGED <<orgRow, moves, treeData, mounted, expanded, touched>>

\* The dialog of the page opens or closes: TreeView gets a new array of nodes,
\* and its effect runs though they are the same.
Redrawn ==
    /\ mounted /\ HasTree
    /\ expanded' = expanded \cup Roots(treeData) /\ touched' = FALSE
    /\ UNCHANGED <<orgRow, moves, treeQuery, treeData, mounted>>

\* handleToggle of a row with children
Toggle(n) ==
    /\ n \in Shown /\ Children(treeData, n) # {}
    /\ expanded' = IF n \in expanded THEN expanded \ {n} ELSE expanded \cup {n}
    /\ touched' = TRUE
    /\ UNCHANGED <<orgRow, moves, treeQuery, treeData, mounted>>

TreeNext ==
    \/ \E n \in Nodes, p \in Nodes \cup {NoParent}, archived \in BOOLEAN : Move(n, p, archived)
    \/ Count \/ RowsArrive \/ TooMany \/ TreeFails
    \/ ShowTree \/ LeaveTree \/ FocusTree \/ Redrawn
    \/ \E n \in Nodes : Toggle(n)

TreeSpec == TreeInit /\ [][TreeNext]_treeVars

-----------------------------------------------------------------------------
(* Properties                                                              *)

\* n is its own ancestor, or somebody above it is
UnderCircle(d, n) ==
    \E above \in SUBSET d.rows : n \in above /\ \A a \in above : d.parent[a] \in above

\* With every row expanded the tree shows each organization of the answer but
\* those of a circle and below one, which it shows nowhere.
AllButCircles ==
    HasTree => Rendered(treeData, Nodes) = {n \in treeData.rows : ~UnderCircle(treeData, n)}

\* A row is marked as one whose parent is archived when it was, as the rows
\* were read; nobody is shown who was archived then.
MarkedForCause ==
    \A n \in treeData.rows :
        /\ n \notin treeData.gone
        /\ Orphan(treeData, n) <=> treeData.parent[n] \in treeData.gone

\* Until the user toggles a row, a tree that comes or changes has its roots
\* expanded: no child of a root is hidden for want of a click.
RootsExpanded ==
    mounted /\ HasTree /\ ~touched =>
        \A n \in Roots(treeData) : Children(treeData, n) \subseteq Shown

OrgTreeViewInv == TreeTypeOK /\ AllButCircles /\ MarkedForCause /\ RootsExpanded
=============================================================================
