------------------------------- MODULE OrgTree -------------------------------
(***************************************************************************)
(* The hierarchy of organizations: superadmins create them under a parent  *)
(* and move them (AdminOrganizationsService).  The checks walk the tree    *)
(* with one SELECT per hop, each with a snapshot of its own, also inside   *)
(* the transaction of validateHierarchy (READ COMMITTED); the write comes  *)
(* after it.  So a walk may cross the writes of other requests, and only a *)
(* request that overlapped no write is promised anything.                  *)
(*                                                                         *)
(* Deleted organizations keep their place.  What getDeletionImpact counts  *)
(* changes nothing and is left out.                                        *)
(***************************************************************************)
EXTENDS Naturals, FiniteSets

CONSTANTS
    Orgs,           \* organizations that may ever be created
    NoOrg,          \* parent_organization_id IS NULL
    Requests,       \* HTTP requests that may be in flight at the same time
    MaxIterations   \* MAX_PARENT_WALK_ITERATIONS

ASSUME TreeAssumption ==
    /\ NoOrg \notin Orgs
    /\ MaxIterations \in Nat /\ MaxIterations > 3

VARIABLES
    created,        \* rows of the table
    parent,         \* parent_organization_id
    req,            \* the walk of each request in flight
    overlapped      \* history: a request wrote after somebody else's write
                    \* had crossed its walk

vars == <<created, parent, req, overlapped>>

Walk ==
    [pc : {"idle", "up", "children", "below", "write"},
     org : Orgs \cup {NoOrg},       \* the one moved; NoOrg when created
     to : Orgs \cup {NoOrg},        \* the parent wanted
     at : Orgs \cup {NoOrg},        \* where the walk up stands
     left : 0..MaxIterations,       \* SELECTs the walk up may still make
     depth : 0..MaxIterations,      \* ancestors of "to" seen
     todo : SUBSET Orgs,            \* children still to be asked for theirs
     crossed : BOOLEAN]             \* somebody wrote since it began

Idle == [pc |-> "idle", org |-> NoOrg, to |-> NoOrg, at |-> NoOrg, left |-> 0,
         depth |-> 0, todo |-> {}, crossed |-> FALSE]

TypeOK ==
    /\ created \subseteq Orgs
    /\ parent \in [Orgs -> Orgs \cup {NoOrg}]
    /\ req \in [Requests -> Walk]
    /\ overlapped \in BOOLEAN

Init ==
    /\ created = {}
    /\ parent = [o \in Orgs |-> NoOrg]
    /\ req = [r \in Requests |-> Idle]
    /\ overlapped = FALSE

-----------------------------------------------------------------------------
Children(o) == {c \in created : parent[c] = o}

Continue(r, walk) ==
    /\ req' = [req EXCEPT ![r] = walk]
    /\ UNCHANGED <<created, parent, overlapped>>

Refuse(r) == Continue(r, Idle)

\* the write is next, and what the walk counted is not needed any more
Accept(r) ==
    Continue(r, [Idle EXCEPT !.pc = "write", !.org = req[r].org,
                    !.to = req[r].to, !.crossed = req[r].crossed])

\* r writes and ends: every other walk has been crossed
Written(r) ==
    /\ req' = [q \in Requests |->
                 IF q = r \/ req[q] = Idle THEN Idle
                 ELSE [req[q] EXCEPT !.crossed = TRUE]]
    /\ overlapped' = (overlapped \/ (req[r].crossed /\ req[r].to # NoOrg))

\* an organization without a parent needs no walk
Begin(r, o, p) ==
    /\ req[r] = Idle
    /\ Continue(r, [Idle EXCEPT !.pc = IF p = NoOrg THEN "write" ELSE "up",
                       !.org = o, !.to = p, !.at = p, !.left = MaxIterations])

\* POST /api/admin/organizations
CreateArrive(r, p) ==
    /\ created # Orgs
    /\ p \in created \cup {NoOrg}
    /\ Begin(r, NoOrg, p)

\* PATCH /api/admin/organizations/:id with a parent, or with null
MoveArrive(r, o, p) ==
    /\ o \in created /\ p \in (created \cup {NoOrg}) \ {o}
    /\ Begin(r, o, p)

\* mutant: the deepest level is compared with the number of levels
TooDeepLater(above, below) == above + 1 + below > 3

\* mutant: the organization itself is counted below its parent twice
TooDeepEarly(above, below) == above + 2 + below >= 3

TooDeep(above, below) == above + 1 + below >= 3

\* the loop of getDepth and walkParentChain is over
TopReached(r, depth) ==
    IF req[r].org # NoOrg
    THEN Continue(r, [req[r] EXCEPT !.pc = "children", !.depth = depth,
                         !.at = NoOrg, !.left = 0])
    ELSE IF TooDeep(depth, 0)
         THEN Refuse(r)
         ELSE Accept(r)

\* one SELECT of the loop; the moved organization above its parent is a cycle
WalkUp(r) ==
    LET q == req[r]
        next == parent[q.at]
        depth == IF next = NoOrg THEN q.depth ELSE q.depth + 1
    IN
    /\ q.pc = "up"
    /\ IF next = q.org /\ next # NoOrg
       THEN Refuse(r)
       ELSE IF next = NoOrg \/ q.left = 1
            THEN TopReached(r, depth)
            ELSE Continue(r, [q EXCEPT !.at = next, !.depth = depth,
                                 !.left = @ - 1])

\* getSubtreeDepth of the organization moved, then of each of its children,
\* in any order
WalkChildren(r) ==
    LET q == req[r] IN
    /\ q.pc = "children"
    /\ IF Children(q.org) # {}
       THEN Continue(r, [q EXCEPT !.pc = "below", !.todo = Children(q.org)])
       ELSE IF TooDeep(q.depth, 0) THEN Refuse(r) ELSE Accept(r)

\* A grandchild decides: what the walk sees further down can only make the
\* subtree deeper.  (In a cycle it sees no end, and writes nothing either.)
WalkBelow(r) ==
    LET q == req[r] IN
    /\ q.pc = "below"
    /\ \E c \in q.todo :
         IF Children(c) # {}
         THEN Refuse(r)
         ELSE IF q.todo # {c}
              THEN Continue(r, [q EXCEPT !.todo = @ \ {c}])
              ELSE IF TooDeep(q.depth, 1) THEN Refuse(r) ELSE Accept(r)

CreateInsert(r) ==
    /\ req[r].pc = "write" /\ req[r].org = NoOrg
    /\ \E o \in Orgs \ created :
         /\ created' = created \cup {o}
         /\ parent' = [parent EXCEPT ![o] = req[r].to]
    /\ Written(r)

MoveWrite(r) ==
    /\ req[r].pc = "write" /\ req[r].org # NoOrg
    /\ parent' = [parent EXCEPT ![req[r].org] = req[r].to]
    /\ Written(r)
    /\ UNCHANGED created

\* the slug is taken: the statement fails and the request answers 409
SlugConflict(r) == req[r].pc = "write" /\ Refuse(r)

-----------------------------------------------------------------------------
Proceed(r) ==
    \/ WalkUp(r) \/ WalkChildren(r) \/ WalkBelow(r)
    \/ CreateInsert(r) \/ MoveWrite(r) \/ SlugConflict(r)

Next ==
    \E r \in Requests :
       \/ \E p \in Orgs \cup {NoOrg} : CreateArrive(r, p)
       \/ \E o \in Orgs, p \in Orgs \cup {NoOrg} : MoveArrive(r, o, p)
       \/ Proceed(r)

Spec == Init /\ [][Next]_vars

-----------------------------------------------------------------------------
(* Properties *)

Up(o) == IF o = NoOrg THEN NoOrg ELSE parent[o]

\* Nobody has a great-grandparent: three levels, and no cycle either.
Nested == \A o \in Orgs : Up(Up(Up(o))) = NoOrg

\* The depth and cycle checks of createOrganization and updateOrganization,
\* hop by hop, keep the forest to three levels as long as no write crosses the
\* walk of a request that then writes.
ThreeLevels == ~overlapped => Nested

\* Parents are rows, and who has no row has no parent.
Rooted ==
    /\ \A o \in Orgs : parent[o] \in created \cup {NoOrg}
    /\ \A o \in Orgs \ created : parent[o] = NoOrg
    /\ \A r \in Requests : {req[r].org, req[r].to} \subseteq created \cup {NoOrg}

\* A walk stands on a row, and counts hops up to the limit.
OnItsWay(q) ==
    /\ q.pc = "up" => q.to # NoOrg /\ q.at # NoOrg
                      /\ q.left > 0 /\ q.left + q.depth = MaxIterations
    /\ q.pc \in {"children", "below"} => q.to # NoOrg /\ q.org # NoOrg

DepthIs(o, d) ==
    \/ d = 0 /\ Up(o) = NoOrg
    \/ d = 1 /\ Up(o) # NoOrg /\ Up(Up(o)) = NoOrg
    \/ d = 2 /\ Up(Up(o)) # NoOrg /\ Up(Up(Up(o))) = NoOrg

\* the organization moved is not one of the ancestors of its new parent
NotAbove(q) == q.org = NoOrg \/ q.org \notin {q.to, Up(q.to), Up(Up(q.to))}

\* What a walk that nobody crossed has found out so far.
Established(q) ==
    /\ q.pc = "up" =>
         /\ q.org # NoOrg => q.org # q.to
         /\ \/ q.depth = 0 /\ q.at = q.to
            \/ q.depth = 1 /\ q.at = Up(q.to) /\ (q.org # NoOrg => q.org # q.at)
            \/ /\ q.depth = 2 /\ q.at = Up(Up(q.to))
               /\ q.org # NoOrg => q.org \notin {q.at, Up(q.to)}
    /\ q.pc \in {"children", "below"} =>
         NotAbove(q) /\ DepthIs(q.to, q.depth)
    /\ q.pc = "below" =>
         /\ q.todo # {} /\ q.todo \subseteq Children(q.org)
         /\ \A c \in Children(q.org) \ q.todo : Children(c) = {}
    /\ q.pc = "write" /\ q.to # NoOrg =>
         /\ NotAbove(q)
         /\ \/ /\ q.org # NoOrg => Children(q.org) = {}
               /\ Up(Up(q.to)) = NoOrg
            \/ /\ q.org # NoOrg => \A c \in Children(q.org) : Children(c) = {}
               /\ Up(q.to) = NoOrg

\* The inductive invariant behind ThreeLevels.
TreeInv ==
    /\ TypeOK
    /\ Rooted
    /\ ThreeLevels
    /\ \A r \in Requests : OnItsWay(req[r])
    /\ ~overlapped => \A r \in Requests : ~req[r].crossed => Established(req[r])

\* The forest a request asks for; the id of a new organization is any other.
Wanted(q) ==
    LET above == Up(q.to)
        height(o) == IF Children(o) = {} THEN 0
                     ELSE IF \A c \in Children(o) : Children(c) = {} THEN 1
                     ELSE 2
        depth(o) == IF Up(o) = NoOrg THEN 0 ELSE IF Up(Up(o)) = NoOrg THEN 1 ELSE 2
    IN /\ q.org = NoOrg \/ q.org \notin {q.to, above, Up(above)}
       /\ depth(q.to) + 1 + (IF q.org = NoOrg THEN 0 ELSE height(q.org)) <= 2

\* OrgDepthExceededException and OrgCycleDetectedException are thrown only
\* where the organization would have come to lie too deep or under itself.
RefusedForCause ==
    [][\A r \in Requests :
         /\ req[r].pc \in {"up", "children", "below"} /\ req'[r] = Idle
         /\ ~overlapped /\ ~req[r].crossed
         => ~Wanted(req[r])]_vars

=============================================================================
