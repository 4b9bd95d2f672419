----------------------------- MODULE MCRecords -----------------------------
(* The routes about rewards, the statistics of the home page and the        *)
(* leaderboard competition have nothing in common: one of them moves in a   *)
(* behaviour.                                                               *)
EXTENDS History, Statistics

VARIABLES
  account, connecting, details, board, mine, asked, loading, period, sortedBy, rows, menu, closing,
  switches

Win(t, a, k, c, u, n) ==
  [tx |-> t, address |-> a, token |-> k, category |-> c, utility |-> u, amount |-> n, side |-> "send"]
\* The first transaction transfers two tokens, and wins in one of them LABS; in the
\* second two addresses win as much.
MCWins == <<Win(1, "u", "USDC", "USDC", "FLUID", 1), Win(1, "u", "LABS", "USDT", "LABS", 2),
            Win(2, "u", "USDC", "USDC", "FLUID", 4), Win(2, "v", "USDC", "USDC", "FLUID", 4)>>
MCWindows == [day |-> 2, all |-> 0]
MCViews == {[bins |-> 2, length |-> 1, span |-> 2], [bins |-> 2, length |-> 2, span |-> 5]}

\* One account is ranked in both periods, the other in none.
Row(u, rank, number, volume) == [user |-> u, rank |-> rank, number |-> number, volume |-> volume, rewards |-> volume]
MCRanking ==
  ("allTime" :> <<Row("x", 1, 5, 1), Row("a", 2, 4, 2)>>) @@ ("24hour" :> <<Row("x", 1, 3, 3)>>)
MCMine ==
  ("allTime" :> [a |-> <<Row("a", 2, 4, 2)>>, b |-> <<>>])
    @@ ("24hour" :> [a |-> <<Row("a", 9, 1, 1)>>, b |-> <<>>])

Board == INSTANCE Leaderboard WITH
           Account <- {"a", "b"}, NoAccount <- "none", Ranking <- MCRanking, Mine <- MCMine,
           MaxSwitches <- 2

leaderboard == <<account, connecting, details, board, mine, asked, loading, period, sortedBy, rows, menu,
                 closing, switches>>
everything == <<vars, statistics, leaderboard>>

MCInit == Init /\ InitStatistics /\ Board!Init

HistoryRests == clock = 0 /\ req = Idle /\ cache = {}
StatisticsRest == volumes = <<>> /\ step = "count" /\ now = Start
BoardRests == Board!Init

MCNext ==
  \/ StatisticsRest /\ BoardRests /\ Next /\ UNCHANGED <<statistics, leaderboard>>
  \/ HistoryRests /\ BoardRests /\ NextStatistics /\ UNCHANGED <<vars, leaderboard>>
  \/ HistoryRests /\ StatisticsRest /\ Board!Next /\ UNCHANGED <<vars, statistics>>

MCSpec == MCInit /\ [][MCNext]_everything

-----------------------------------------------------------------------------
\* The graph shows the largest transaction of every bin that has one and no
\* other, however the clock moves between the filter and the bins, and nothing
\* that the count beside it did not count (query/dashboard/home.tsx:53-259).
GraphsAreTrue == PeaksAreShown /\ GraphWithinCount

\* Once its page has loaded, the rows of the leaderboard are of the period that
\* the title names, those of the account first, and sorting shows whom it showed
\* before, each as often (leaderboard/src/app/page.tsx:68-152).
BoardIsOfPeriod == [](Board!RowsOfPeriod /\ Board!MineFirst) /\ Board!SortKeepsRows
=============================================================================
