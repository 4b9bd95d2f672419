---------------------------- MODULE Leaderboard ----------------------------
(***************************************************************************)
(* The leaderboard competition, an application of its own                  *)
(* (web/leaderboard).  A provider asks for the rankings of two periods and *)
(* for the rows of the account that is connected; the page asks for the    *)
(* same rankings again, and uses of its own answers only whether they are  *)
(* still loading.  The rows of the table are worked out when the period is *)
(* changed, when the page has loaded and when a wallet connects or leaves; *)
(* not when the provider's answers arrive, nor when the account is         *)
(* another one.                                                            *)
(***************************************************************************)
EXTENDS Integers, Sequences, FiniteSets, SequencesExt

CONSTANTS
  Account, NoAccount,
  Ranking,          \* of each period: the rows of the server, the most transactions first
  Mine,             \* of each period and account: its row, if it has one
  MaxSwitches       \* a bound

VARIABLES
  account, connecting, details, \* the wallet, and the dialogs of the profile
  board, mine, asked,          \* apiState: the rankings, the rows of the account; what is awaited
  loading,                     \* of the page's own queries
  period, sortedBy, rows,      \* filterIndex, sortedByItem and sortedData
  menu, closing,               \* the choices of the order, and the timer that hides them
  switches

profile == <<account, connecting, details, switches>>
api == <<board, mine, asked>>
table == <<period, sortedBy, rows>>
vars == <<profile, api, loading, table, menu, closing>>

Holder == Account \cup {NoAccount}
Period == {"24hour", "allTime"}
Order == {"number", "volume", "rewards"}

\* The queries of the provider that are well formed: the one for the ranking of a day
\* names a variable that it does not declare.
WellFormed == {"allTime"}

Init ==
  /\ account = NoAccount /\ connecting = FALSE /\ details = FALSE /\ switches = 0
  /\ board = [p \in Period |-> <<>>] /\ mine = [p \in Period |-> <<>>]
  /\ asked = {<<"mine", p>> : p \in Period} \cup {<<"board", p>> : p \in Period}
  /\ loading = [p \in Period |-> TRUE]
  /\ period = "24hour" /\ sortedBy = "number" /\ rows = <<>>
  /\ menu = FALSE /\ closing = FALSE

-----------------------------------------------------------------------------
(* The rows.                                                               *)

Ranked(ranking) == [i \in DOMAIN ranking |-> [ranking[i] EXCEPT !.rank = i]]

\* A row of nothing for the account.
Unranked(a) == [user |-> a, rank |-> -1, number |-> 0, volume |-> 0, rewards |-> 0]

\* receiveData, of a period; nobody waits for the page's answer, an account does not.
Received(p, a, pending) ==
  CASE a # NoAccount -> Ranked(board[p]) \o (IF mine[p] = <<>> THEN <<Unranked(a)>> ELSE mine[p])
    [] a = NoAccount /\ ~pending[p] -> Ranked(board[p])
    [] OTHER -> rows

Descending(s, key) ==
  LET Before(i, j) == s[i][key] > s[j][key] \/ (s[i][key] = s[j][key] /\ i < j)
  IN [i \in DOMAIN s |-> s[SetToSortSeq(DOMAIN s, Before)[i]]]

\* sortData: a row without a rank is put first, the others are ranked anew.
Sorted(s, key) ==
  SelectSeq(s, LAMBDA r : r.rank = -1) \o Ranked(Descending(SelectSeq(s, LAMBDA r : r.rank # -1), key))

\* Of a row: the account is called "ME", and a rank that is not known "???".
leaderboardRankRow(r) ==
  [r EXCEPT !.user = IF @ = account THEN "ME" ELSE @, !.rank = IF @ = -1 THEN "???" ELSE @]

\* Table: the rows of the account that is connected are frozen at the top.
Table(s) ==
  SelectSeq(s, LAMBDA r : r.user = account) \o SelectSeq(s, LAMBDA r : r.user # account)

\* Nothing ever says that the page has loaded: without rows it goes on "fetching".
Shown == [i \in DOMAIN rows |-> leaderboardRankRow(Table(rows)[i])]

-----------------------------------------------------------------------------
(* The wallet and the profile.                                             *)

\* The rows of another address are asked for again, in both periods.
AskMine == {<<"mine", p>> : p \in Period}

\* The effects of isConnected: the rows, and the dialog that connects.
WalletChanges(a) ==
  /\ switches < MaxSwitches /\ switches' = switches + 1
  /\ account' = a /\ asked' = asked \cup AskMine
  /\ rows' = IF (a = NoAccount) = (account = NoAccount) THEN rows ELSE Received(period, a, loading)
  /\ connecting' = (connecting /\ a = NoAccount)
  /\ UNCHANGED <<board, mine, loading, period, sortedBy, menu, closing>>

Connect(a) == account = NoAccount /\ WalletChanges(a) /\ UNCHANGED details
SwitchAccount(a) == account \notin {a, NoAccount} /\ WalletChanges(a) /\ UNCHANGED details

\* The wallet leaves by itself: the dialog of the account stays.
Leave == account # NoAccount /\ WalletChanges(NoAccount) /\ UNCHANGED details
Disconnect == account # NoAccount /\ details /\ WalletChanges(NoAccount) /\ details' = FALSE

OpenConnect ==
  /\ account = NoAccount /\ ~connecting /\ connecting' = TRUE
  /\ UNCHANGED <<account, details, switches, api, loading, table, menu, closing>>

CloseConnect ==
  /\ connecting /\ connecting' = FALSE
  /\ UNCHANGED <<account, details, switches, api, loading, table, menu, closing>>

ToggleProfile ==
  /\ account # NoAccount \/ details
  /\ details' = ~details
  /\ UNCHANGED <<account, connecting, switches, api, loading, table, menu, closing>>

-----------------------------------------------------------------------------
(* The answers.                                                            *)

BoardArrives(p) ==
  /\ <<"board", p>> \in asked /\ p \in WellFormed
  /\ asked' = asked \ {<<"board", p>>} /\ board' = [board EXCEPT ![p] = Ranking[p]]
  /\ UNCHANGED <<profile, mine, loading, table, menu, closing>>

\* The query is of the address of the moment: nobody's is called "undefined".
MineArrives(p) ==
  /\ <<"mine", p>> \in asked /\ asked' = asked \ {<<"mine", p>>}
  /\ mine' = [mine EXCEPT ![p] = IF account = NoAccount THEN <<>> ELSE Mine[p][account]]
  /\ UNCHANGED <<profile, board, loading, table, menu, closing>>

QueryFails(q) ==
  /\ q \in asked /\ asked' = asked \ {q}
  /\ UNCHANGED <<profile, board, mine, loading, table, menu, closing>>

\* A query of the page has an answer, or an error: the rows are worked out from what
\* the provider has by then.
PageLoads(p) ==
  /\ loading[p] /\ loading' = [loading EXCEPT ![p] = FALSE]
  /\ rows' = Received(period, account, loading')
  /\ UNCHANGED <<profile, api, period, sortedBy, menu, closing>>

-----------------------------------------------------------------------------
(* The filters.                                                            *)

\* A bug to be caught: the effect does not depend on the period.
Filtered(p) == rows

\* The rows when the period has changed.
Filter(p) == IF p = period THEN rows ELSE Received(p, account, loading)

\* The order is said to be the first one again, also when the period is the same.
SetFilterIndex(p) ==
  /\ period' = p /\ sortedBy' = "number" /\ rows' = Filter(p)
  /\ UNCHANGED <<profile, api, loading, menu, closing>>

ToggleMenu ==
  /\ menu' = ~menu
  /\ UNCHANGED <<profile, api, loading, table, closing>>

\* A click outside hides the choices 200 ms later, also those that were shown since.
ClickOutside ==
  /\ ~closing /\ closing' = TRUE
  /\ UNCHANGED <<profile, api, loading, table, menu>>

MenuHides ==
  /\ closing /\ closing' = FALSE /\ menu' = FALSE
  /\ UNCHANGED <<profile, api, loading, table>>

SetSortedBy(key) ==
  /\ menu /\ menu' = FALSE /\ sortedBy' = key /\ rows' = Sorted(rows, key)
  /\ UNCHANGED <<profile, api, loading, period, closing>>

-----------------------------------------------------------------------------
Next ==
  \/ \E a \in Account : Connect(a) \/ SwitchAccount(a)
  \/ Leave \/ Disconnect \/ OpenConnect \/ CloseConnect \/ ToggleProfile
  \/ \E p \in Period : BoardArrives(p) \/ MineArrives(p) \/ PageLoads(p) \/ SetFilterIndex(p)
  \/ \E q \in asked : QueryFails(q)
  \/ ToggleMenu \/ ClickOutside \/ MenuHides
  \/ \E key \in Order : SetSortedBy(key)

Spec == Init /\ [][Next]_vars

-----------------------------------------------------------------------------
(* Properties.                                                             *)

\* Once its page has loaded, the rows are of the period that the title names: those of
\* an account or those of the ranking, never of the period before.
RowsOfPeriod ==
  ~loading[period] => \A i \in DOMAIN rows : LET r == rows[i] IN
    r.rank # -1 =>
      \/ \E j \in DOMAIN Ranking[period] : [Ranking[period][j] EXCEPT !.rank = r.rank] = r
      \/ \E a \in Account, j \in {1} : Mine[period][a] # <<>> /\ [Mine[period][a][j] EXCEPT !.rank = r.rank] = r

\* Whatever the order and whoever has connected since, the rows of the account come
\* before all others, and only hers are called hers.
MineFirst ==
  \A i, j \in DOMAIN Shown : Shown[j].user = "ME" /\ i < j => Shown[i].user = "ME"

\* Sorting shows whom it showed before, each as often: also the account without a row.
SortKeepsRows ==
  [][sortedBy' # sortedBy /\ period' = period
       => /\ Len(rows') = Len(rows)
          /\ \A i \in DOMAIN rows : Cardinality({j \in DOMAIN rows : rows[j].user = rows[i].user})
               = Cardinality({j \in DOMAIN rows' : rows'[j].user = rows[i].user})]_vars
=============================================================================
