------------------------------ MODULE Activity ------------------------------
(***************************************************************************)
(* The home and the rewards page: a table of what everybody did, or of     *)
(* what the connected account did, page by page.  What is everybody's is   *)
(* kept by SWR under a key with the page, and asked for again every 100 s; *)
(* what is the account's is loaded by two fetchers when the account or the *)
(* page changes.  What the page shows is memoized: it is worked out again  *)
(* only by a render that finds one of six values changed.                  *)
(***************************************************************************)
EXTENDS Integers, Sequences, FiniteSets

CONSTANTS
  Address, Nobody,
  Owner,     \* of every row, the oldest first
  First,     \* how many rows there are in the beginning
  PerPage,   \* rowsPerPage (12)
  Cap,       \* of the rows that the table counts (240)
  LastPage,  \* that the routes answer for (20)
  Typed,     \* a bound: pages that are typed into the address bar
  MaxSwitches, MaxFaults \* bounds

Everybody == "everybody"

ActivityAssumption ==
  /\ Nobody \notin Address /\ Everybody \notin Address
  /\ Owner \in Seq(Address) /\ First \in 0..Len(Owner)
  /\ {PerPage, Cap, LastPage} \subseteq Nat \ {0} /\ Typed \subseteq Nat \ {0}
  /\ {MaxSwitches, MaxFaults} \subseteq Nat

VARIABLES
  size,      \* how many rows the database has
  route,     \* the page that is open, or the error boundary
  page,      \* of the table, from the URL
  typed,     \* whether that was typed
  user,      \* the address of the connected account
  filter,    \* activeTableFilterIndex: 0 everybody, 1 mine
  rowsFetcher, homeFetcher,
  rowsCache, homeCache, \* of SWR: userTransactions by page, home
  shown,     \* the memoized values
  switches, faults

vars == <<size, route, page, typed, user, filter, rowsFetcher, homeFetcher,
          rowsCache, homeCache, shown, switches, faults>>
fetchers == <<rowsFetcher, homeFetcher>>
caches == <<rowsCache, homeCache>>
counts == <<switches, faults>>

Pages == 1..LastPage \union Typed
Min2(a, b) == IF a < b THEN a ELSE b

---------------------------------------------------------------------------
\* What the routes answer.
Own(n, who) == {i \in 1..n : who \in {Everybody, Owner[i]}}
\* Newest first: of the k'th row there are k that are no older.
RowsOf == [n \in 0..Len(Owner) |-> [who \in Address \union {Everybody} |->
  [k \in 1..Cardinality(Own(n, who)) |->
     CHOOSE i \in Own(n, who) : Cardinality({j \in Own(n, who) : j >= i}) = k]]]
PageOf(who, p) ==
  LET rows == RowsOf[size][who] IN SubSeq(rows, (p - 1) * PerPage + 1, Min2(p * PerPage, Len(rows)))
NoRows == [page |-> 0, rows |-> <<>>, loaded |-> FALSE]
\* Beyond the last page the route returns an Error, which arrives as {}.
AnswerRows(who, p) ==
  IF p \notin 1..LastPage THEN NoRows ELSE [page |-> p, rows |-> PageOf(who, p), loaded |-> TRUE]
NoHome == [whose |-> Nobody, count |-> 0]
AnswerHome(who) == [whose |-> who, count |-> Len(RowsOf[size][who])]

\* A fetcher follows the last question of an account's.
NotFetched(data) == [question |-> <<>>, data |-> data]
Busy(fetcher) == fetcher.question # <<>>
Load(fetcher, who, p) == IF who = Nobody THEN fetcher ELSE [fetcher EXCEPT !.question = <<who, p>>]

Memo(f, rf, hf, rc, hc, p) ==
  IF f = 1 THEN [table |-> rf.data, home |-> hf.data] ELSE [table |-> rc[p], home |-> hc]
RenderByFilter(newHome) ==
  shown' = IF filter' # filter \/ newHome
           THEN Memo(filter', rowsFetcher', homeFetcher', rowsCache', homeCache', page') ELSE shown
\* A render: the dependencies are the filter, the states of the fetchers, the
\* time of the home data (when it is new) and the page of the rows in the cache.
Render(newHome) ==
  LET changed == \/ filter' # filter \/ Busy(rowsFetcher') # Busy(rowsFetcher)
                 \/ Busy(homeFetcher') # Busy(homeFetcher) \/ newHome
                 \/ rowsCache'[page'].page # rowsCache[page].page
  IN  shown' = IF changed
               THEN Memo(filter', rowsFetcher', homeFetcher', rowsCache', homeCache', page')
               ELSE shown

Init ==
  /\ size = First /\ route \in {"home", "rewards"} /\ page = 1 /\ typed = FALSE
  /\ user = Nobody /\ filter = 0
  /\ rowsFetcher = NotFetched(NoRows) /\ homeFetcher = NotFetched(NoHome)
  /\ rowsCache = [p \in Pages |-> NoRows] /\ homeCache = NoHome
  /\ shown = [table |-> NoRows, home |-> NoHome] /\ switches = 0 /\ faults = 0

Grow ==
  /\ size < Len(Owner) /\ size' = size + 1
  /\ UNCHANGED <<route, page, typed, user, filter, fetchers, caches, shown, counts>>

\* A component that mounts: fresh state, then its effects.
Mount(r, p, who) ==
  /\ route' = r /\ page' = p /\ user' = who
  /\ filter' = (IF r = "rewards" /\ who # Nobody THEN 1 ELSE 0)
  /\ rowsFetcher' = Load(NotFetched(NoRows), who, p)
  /\ homeFetcher' = Load(NotFetched(NoHome), who, p)
  /\ shown' = Memo(filter', rowsFetcher', homeFetcher', rowsCache, homeCache, p)
  /\ UNCHANGED <<size, caches, counts>>

\* By the navigation, within the application; or by the address bar, which loads
\* the document again, without the wallet.
Open(r) == r # route /\ Mount(r, 1, user) /\ typed' = FALSE
Type(p) == route # "error" /\ Mount(route, p, Nobody) /\ typed' = TRUE

\* The buttons under the table.
PageCount == (Min2(Cap, shown.home.count) + PerPage - 1) \div PerPage
\* What the table has above and in the place of its rows: the filters, the range that
\* it announces, the rows or a word instead of them.
Filters == IF user = Nobody THEN {0} ELSE {0, 1}
Heading ==
  LET n == Min2(Cap, shown.home.count) IN
  [from |-> IF n > 0 THEN (page - 1) * PerPage + 1 ELSE 0, to |-> IF n > 0 THEN Min2(page * PerPage, n) ELSE 0, of |-> n]
Body ==
  CASE shown.table.rows # <<>> -> "rows"
    [] shown.table.rows = <<>> /\ shown.table.loaded -> "No records found!"
    [] OTHER -> "Fetching table data..."
\* The rest of the two pages, as far as it depends on the view: whose dashboard it is
\* said to be, the count, the link to the rows, and what is only there for everybody.
HomePage ==
  [whose |-> IF filter = 1 THEN "My" ELSE "Global", count |-> shown.home.count,
   activity |-> shown.home.count # 0, volume |-> filter = 0]
RewardsPage ==
  [whose |-> IF filter = 1 THEN "My" ELSE "Global", count |-> shown.home.count,
   activity |-> TRUE, volume |-> FALSE]
Visible == IF route = "home" THEN HomePage ELSE RewardsPage
\* A row leads to its transaction, and names who sent or won it.
transactionRow(i) == [tx |-> i, account |-> Owner[i]]
Numbers == {1, PageCount} \union {n \in page - 2 .. page + 2 : n > 1 /\ n < PageCount}
Arrows == {page - 1, page + 1}
\* The load of the user's rows is an effect of the new page.
Turn(p) ==
  /\ route # "error" /\ PageCount > 0 /\ p \in Numbers \union Arrows
  /\ p # 0 /\ p <= PageCount /\ p # page
  /\ page' = p /\ typed' = FALSE
  /\ rowsFetcher' = Load(rowsFetcher, user, p) /\ homeFetcher' = Load(homeFetcher, user, p)
  /\ UNCHANGED <<size, route, user, filter, caches, counts>> /\ Render(FALSE)

Press(i) ==
  /\ route # "error" /\ i # filter /\ i \in Filters
  /\ filter' = i
  /\ UNCHANGED <<size, route, page, typed, user, fetchers, caches, counts>> /\ Render(FALSE)

\* The effects of an account: its rows are loaded; when it is the first, the filter
\* is set, on the home page by the rows that there are at that moment.
Default(who) ==
  CASE who = Nobody -> 0
    [] who # Nobody /\ user # Nobody -> filter
    [] who # Nobody /\ user = Nobody /\ route = "rewards" -> 1
    [] OTHER -> IF rowsFetcher.data.rows # <<>> THEN 1 ELSE 0
Switch(who) ==
  /\ route # "error" /\ who # user /\ switches < MaxSwitches /\ switches' = switches + 1
  /\ user' = who /\ filter' = Default(who)
  /\ rowsFetcher' = Load(rowsFetcher, who, page) /\ homeFetcher' = Load(homeFetcher, who, page)
  /\ UNCHANGED <<size, route, page, typed, caches, faults>> /\ Render(FALSE)

RowsLand ==
  /\ route # "error" /\ Busy(rowsFetcher)
  /\ rowsFetcher' = NotFetched(AnswerRows(rowsFetcher.question[1], rowsFetcher.question[2]))
  /\ UNCHANGED <<size, route, page, typed, user, filter, homeFetcher, caches, counts>>
  /\ Render(FALSE)
HomeLands ==
  /\ route # "error" /\ Busy(homeFetcher)
  /\ homeFetcher' = NotFetched(AnswerHome(homeFetcher.question[1]))
  /\ UNCHANGED <<size, route, page, typed, user, filter, rowsFetcher, caches, counts>>
  /\ Render(FALSE)
\* An error of a fetcher's takes the whole page: the boundary is in its place.
Fail ==
  /\ route # "error" /\ (Busy(rowsFetcher) \/ Busy(homeFetcher))
  /\ faults < MaxFaults /\ faults' = faults + 1 /\ route' = "error" /\ filter' = 0
  /\ rowsFetcher' = NotFetched(NoRows) /\ homeFetcher' = NotFetched(NoHome)
  /\ shown' = [table |-> NoRows, home |-> NoHome]
  /\ UNCHANGED <<size, page, typed, user, caches, switches>>

\* SWR asks again; an error leaves what there is.
RowsRefresh ==
  /\ route # "error" /\ rowsCache' = [rowsCache EXCEPT ![page] = AnswerRows(Everybody, page)]
  /\ UNCHANGED <<size, route, page, typed, user, filter, fetchers, homeCache, counts>>
  /\ Render(FALSE)
HomeRefresh ==
  /\ route # "error" /\ homeCache' = AnswerHome(Everybody)
  /\ UNCHANGED <<size, route, page, typed, user, filter, fetchers, rowsCache, counts>>
  /\ Render(TRUE)

Next ==
  \/ Grow \/ (\E r \in {"home", "rewards"} : Open(r)) \/ (\E p \in Typed : Type(p))
  \/ (\E p \in Pages : Turn(p)) \/ (\E who \in Address \union {Nobody} : Switch(who))
  \/ RowsLand \/ HomeLands \/ Fail \/ RowsRefresh \/ HomeRefresh
  \/ (\E i \in {0, 1} : Press(i))

\* Requests end, and the timer of SWR comes round.
Fairness == WF_vars(RowsLand) /\ WF_vars(HomeLands) /\ WF_vars(RowsRefresh) /\ WF_vars(HomeRefresh)
Spec == Init /\ [][Next]_vars /\ Fairness

---------------------------------------------------------------------------
Mine == filter = 1 /\ route # "error"
Settled == ~Busy(rowsFetcher) /\ ~Busy(homeFetcher)

\* While nothing is being loaded, the rows under MY DASHBOARD and MY REWARDS, and the
\* number that the pages are counted from, are those of the account that is connected
\* (home.tsx:195-203, 375-382; rewards/index.tsx:180-196, 414-422).
MineIsOwn ==
  (route # "error" /\ Visible.whose = "My" /\ Settled) =>
    /\ user # Nobody /\ shown.home.whose = user /\ Visible.count <= Len(RowsOf[size][user])
    /\ \A i \in DOMAIN shown.table.rows : transactionRow(shown.table.rows[i]).account = user

\* The rows shown are of the page that is marked as the current one.
RowsOfPage == (route # "error" /\ (Mine => Settled)) => shown.table.page \in {0, page}

\* The buttons lead to pages that the routes answer for, only the address bar beyond
\* (Table/index.tsx:79-94 with userTransactions.tsx:66); nor does the range that is
\* announced go beyond them.
ButtonsAreAnswered ==
  /\ page \in 1..LastPage \/ typed
  /\ route # "error" => Heading.to <= LastPage * PerPage

\* A table does not stay at "Fetching table data..." on a page that is answered for.
Fetching(p) == page = p /\ route # "error" /\ Body = "Fetching table data..."

\* What is new arrives in the open table of everybody's (useCache.ts, home.tsx:375-382).
Stale ==
  /\ size = Len(Owner) /\ filter = 0 /\ page \in 1..LastPage /\ route # "error"
  /\ shown.table # AnswerRows(Everybody, page)
=============================================================================
