------------------------------ MODULE AdminLists ------------------------------
(***************************************************************************)
(* A list of the admin console: its filters, the search box that follows   *)
(* them with a delay, the answers kept by filters, and the menu of a row,  *)
(* whose action makes the page ask again.  An answer is modelled by when   *)
(* it was read; its rows and its further pages are those of                *)
(* CursorPagination.                                                       *)
(***************************************************************************)
EXTENDS FiniteSets, Naturals

CONSTANTS
    Words,          \* what is typed into the search box
    Options,        \* options of the select of the filter bar
    NoWord,         \* '': no filter
    NoTimer,
    MaxChanges,     \* bound: changes of rows by this page
    MaxQueries      \* bound: requests under way, and answers kept

ASSUME ListAssumption == MaxChanges \in Nat /\ NoTimer \notin Words \cup {NoWord}

VARIABLES
    changes,        \* changes of rows so far
    display,        \* the list, or the tree or the page of a row instead
    filters,
    searchBox,      \* text: localValue; timer: the text that is waiting
    keptAnswers,    \* of the query client; of, at: filters and time of reading
    query,          \* requests under way, by key
    rowAction,      \* the request of a row's menu
    listPast        \* history, see ListTypeOK

listVars == <<changes, display, filters, searchBox, keptAnswers, query, rowAction, listPast>>

Filters == [status : Options \cup {NoWord}, search : Words \cup {NoWord}]
INITIAL_FILTERS == [status |-> NoWord, search |-> NoWord]

Never == [of |-> INITIAL_FILTERS, at |-> MaxChanges + 1]     \* no answer yet
Answers == [of : Filters, at : 0..MaxChanges]

NoQuery == [state |-> "idle", of |-> INITIAL_FILTERS, at |-> 0]

ListTypeOK ==
    /\ changes \in 0..MaxChanges
    /\ display \in {"list", "other"}
    /\ filters \in Filters
    /\ searchBox \in [text : Words \cup {NoWord}, timer : Words \cup {NoWord, NoTimer}]
    /\ keptAnswers \in [Filters -> Answers \cup {Never}]
    /\ query \in [Filters -> [state : {"idle", "asked", "read"}, of : Filters,
                              at : 0..MaxChanges]]
    /\ rowAction \in {"none", "asked", "done"}
    /\ listPast \in [told : 0..MaxChanges,          \* changes the page was told of
                     excused : SUBSET Filters]      \* the last request failed, or
                                                    \* was under way when it was told

ListInit ==
    /\ changes = 0 /\ display = "list" /\ rowAction = "none"
    /\ filters = INITIAL_FILTERS
    /\ searchBox = [text |-> NoWord, timer |-> NoTimer]
    /\ keptAnswers = [f \in Filters |-> Never]
    /\ query = [f \in Filters |-> IF f = filters THEN [NoQuery EXCEPT !.state = "asked"] ELSE NoQuery]
    /\ listPast = [told |-> 0, excused |-> {}]

-----------------------------------------------------------------------------
(* The query of the list: useCursorPagination                              *)

Loaded(k) == keptAnswers[k] # Never
UnderWay(k) == query[k].state # "idle"

\* mutant: the key leaves the search out
KeyWithoutSearch(f) == [f EXCEPT !.search = NoWord]

\* queryKey: the filters as a whole
Key(f) == f

AskedWith(f) == [state |-> "asked", of |-> f, at |-> 0]
Asking(k) == [listPast EXCEPT !.excused = @ \ {k}]

\* A request for f, unless one is under way: on mount, on another key, on focus.
AskFor(f) ==
    IF UnderWay(Key(f)) THEN UNCHANGED <<query, listPast>>
    ELSE /\ Cardinality({k \in Filters : UnderWay(k)}) < MaxQueries
         /\ query' = [query EXCEPT ![Key(f)] = AskedWith(f)]
         /\ listPast' = Asking(Key(f))

ListRead(k) ==
    /\ query[k].state = "asked"
    /\ query' = [query EXCEPT ![k].state = "read", ![k].at = changes]
    /\ UNCHANGED <<changes, display, filters, searchBox, keptAnswers, rowAction, listPast>>

ListArrives(k) ==
    /\ query[k].state = "read"
    /\ Loaded(k) \/ Cardinality({j \in Filters : Loaded(j)}) < MaxQueries
    /\ keptAnswers' = [keptAnswers EXCEPT ![k] = [of |-> query[k].of, at |-> query[k].at]]
    /\ query' = [query EXCEPT ![k] = NoQuery]
    /\ UNCHANGED <<changes, display, filters, searchBox, rowAction, listPast>>

\* after the last retry
ListFails(k) ==
    /\ UnderWay(k)
    /\ query' = [query EXCEPT ![k] = NoQuery]
    /\ listPast' = IF Loaded(k) THEN [listPast EXCEPT !.excused = @ \cup {k}] ELSE Asking(k)
    /\ UNCHANGED <<changes, display, filters, searchBox, keptAnswers, rowAction>>

\* gcTime is over for an answer that nobody shows
Forgets(k) ==
    /\ Loaded(k) /\ ~UnderWay(k) /\ (display = "list" => k # Key(filters))
    /\ keptAnswers' = [keptAnswers EXCEPT ![k] = Never]
    /\ listPast' = Asking(k)
    /\ UNCHANGED <<changes, display, filters, searchBox, query, rowAction>>

\* refetchOnWindowFocus
Focus ==
    /\ display = "list" /\ ~UnderWay(Key(filters))
    /\ AskFor(filters)
    /\ UNCHANGED <<changes, display, filters, searchBox, keptAnswers, rowAction>>

-----------------------------------------------------------------------------
(* FilterBar                                                               *)

\* mutant: the box keeps its own text
SetFiltersOnly(f, timer) ==
    /\ filters' = f
    /\ searchBox' = [searchBox EXCEPT !.timer = timer]
    /\ IF f # filters THEN AskFor(f) ELSE UNCHANGED <<query, listPast>>
    /\ UNCHANGED <<changes, display, keptAnswers, rowAction>>

\* setFilters; the effect of DebouncedSearchInput follows a value that changed
SetFilters(f, timer) ==
    /\ filters' = f
    /\ searchBox' = [text |-> IF f.search # filters.search THEN f.search ELSE searchBox.text,
                     timer |-> timer]
    /\ IF f # filters THEN AskFor(f) ELSE UNCHANGED <<query, listPast>>
    /\ UNCHANGED <<changes, display, keptAnswers, rowAction>>

\* handleChange of DebouncedSearchInput
Type(w) ==
    /\ display = "list" /\ w # searchBox.text
    /\ searchBox' = [text |-> w, timer |-> w]
    /\ UNCHANGED <<changes, display, filters, keptAnswers, query, rowAction, listPast>>

TimerFires ==
    /\ searchBox.timer # NoTimer
    /\ SetFilters([filters EXCEPT !.search = searchBox.timer], NoTimer)

Choose(c) ==
    /\ display = "list" /\ c # filters.status
    /\ SetFilters([filters EXCEPT !.status = c], searchBox.timer)

\* handleFilterReset: a text that is waiting still comes
Reset ==
    /\ display = "list"
    /\ SetFilters(INITIAL_FILTERS, searchBox.timer)

-----------------------------------------------------------------------------
(* Views and rows                                                          *)

\* The filter bar and the list are unmounted, its timer with them.  The tree
\* leaves the filters alone; the page of a row takes the place of the whole page.
LeaveList ==
    /\ display = "list" /\ display' = "other"
    /\ filters' \in {filters, INITIAL_FILTERS}
    /\ searchBox' = [text |-> filters'.search, timer |-> NoTimer]
    /\ UNCHANGED <<changes, keptAnswers, query, rowAction, listPast>>

ReturnToList ==
    /\ display # "list" /\ display' = "list"
    /\ AskFor(filters)
    /\ UNCHANGED <<changes, filters, searchBox, keptAnswers, rowAction>>

\* the menu of a row, confirmed
ConfirmRowAction ==
    /\ display = "list" /\ Loaded(Key(filters)) /\ rowAction = "none" /\ changes < MaxChanges
    /\ rowAction' = "asked"
    /\ UNCHANGED <<changes, display, filters, searchBox, keptAnswers, query, listPast>>

CommitRowAction ==
    /\ rowAction = "asked"
    /\ rowAction' = "done" /\ changes' = changes + 1
    /\ UNCHANGED <<display, filters, searchBox, keptAnswers, query, listPast>>

\* mutant: a request under way is left to itself
ToldGently ==
    /\ rowAction = "done" /\ rowAction' = "none"
    /\ LET k == Key(filters)
       IN  /\ query' = IF UnderWay(k) THEN query ELSE [query EXCEPT ![k] = AskedWith(filters)]
           /\ listPast' = [told |-> changes, excused |-> {j \in Filters :
                               IF j = k THEN UnderWay(k) /\ ~Loaded(k)
                               ELSE UnderWay(j) \/ j \in listPast.excused}]
    /\ UNCHANGED <<changes, display, filters, searchBox, keptAnswers>>

\* onActionComplete: refetch asks for the filters of now and cancels the request
\* under way, but for the first of its key
Told ==
    /\ rowAction = "done" /\ rowAction' = "none"
    /\ LET k == Key(filters)
           first == UnderWay(k) /\ ~Loaded(k)
       IN  /\ query' = IF first THEN query ELSE [query EXCEPT ![k] = AskedWith(filters)]
           /\ listPast' = [told |-> changes, excused |-> {j \in Filters :
                               IF j = k THEN first ELSE UnderWay(j) \/ j \in listPast.excused}]
    /\ UNCHANGED <<changes, display, filters, searchBox, keptAnswers>>

\* onError: a toast
ActionRefused ==
    /\ rowAction = "asked" /\ rowAction' = "none"
    /\ UNCHANGED <<changes, display, filters, searchBox, keptAnswers, query, listPast>>

ListNext ==
    \/ \E k \in Filters : ListRead(k) \/ ListArrives(k) \/ ListFails(k) \/ Forgets(k)
    \/ Focus \/ TimerFires \/ Reset \/ ReturnToList
    \/ \E w \in Words \cup {NoWord} : Type(w)
    \/ \E c \in Options \cup {NoWord} : Choose(c)
    \/ LeaveList \/ ConfirmRowAction \/ CommitRowAction \/ Told \/ ActionRefused

ListSpec == ListInit /\ [][ListNext]_listVars

-----------------------------------------------------------------------------
(* Properties                                                              *)

\* The rows shown are those asked for with the filters shown.
RowsForFilters ==
    display = "list" /\ Loaded(Key(filters)) => keptAnswers[Key(filters)].of = filters

\* What the page was told it did is in the list it shows once no request is
\* under way, unless the last one failed or was under way at that time.
ShowsWhatWasTold ==
    display = "list" /\ Loaded(Key(filters)) /\ ~UnderWay(Key(filters)) =>
        \/ keptAnswers[Key(filters)].at >= listPast.told
        \/ Key(filters) \in listPast.excused

\* Once no text is waiting, the search box shows the text that is searched for.
BoxForFilters ==
    display = "list" /\ searchBox.timer = NoTimer => searchBox.text = filters.search

ListPageInv == ListTypeOK /\ RowsForFilters /\ ShowsWhatWasTold /\ BoxForFilters
=============================================================================
