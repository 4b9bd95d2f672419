------------------------------ MODULE History ------------------------------
(***************************************************************************)
(* What the resource routes answer about rewards.  A transaction wins      *)
(* rewards, each of an address, a token and a utility.  A reward is        *)
(* pending, then taken by a batch (reward_sent), then paid, when a row of  *)
(* the winners table replaces it; the aggregated transactions are filled   *)
(* by another service.  A route reads one table at a time, so that a       *)
(* reward may be in both of the tables it reads, or in neither; the yields *)
(* are read in one query, whose answer the service keeps for a while.      *)
(***************************************************************************)
EXTENDS Integers, Sequences, FiniteSets, SequencesExt, TLC

CONSTANTS
  Wins,          \* the rewards: their transaction, address, token, category, utility, amount and side
  Transactions,  \* how many transactions there are; later ones have larger numbers
  Fluid,         \* the utility of a reward in the fluid token itself
  FluidTokens,   \* the table fluid_tokens: the tokens that yields are about
  All,           \* a question that is not about an address
  PerPage,       \* rows of a page (12)
  Windows,       \* the periods a yield is asked for, in events ("all" has no end)
  CacheLife,     \* how many events the answer about yields is kept for (300 s)
  WinnersLimit,  \* limit of the queries for winners (240)
  PendingLimit   \* limit of the queries for pending winners (10)

Reward == DOMAIN Wins
Tx == 1..Transactions

ASSUME HistoryAssumption ==
  /\ Wins \in Seq([tx : Tx, address : STRING, token : STRING, category : STRING, utility : STRING,
                  amount : Nat, side : {"send", "receive"}])
  /\ {Transactions, CacheLife} \subseteq Nat /\ {PerPage, WinnersLimit, PendingLimit} \subseteq Nat \ {0}

VARIABLES
  happened,  \* the transactions so far, 1..happened
  stage,     \* where each reward is
  clock,     \* a count of events, in the place of the time
  time,      \* inserted_date of a pending reward, awarded_time of a paid one
  instant,   \* when its row was stored, of those stored by one event
  cache,     \* what the answer about yields that is kept was computed from
  req        \* the one question that a behaviour asks, and its answer

world == <<happened, stage, clock, time, instant>>
vars == <<world, cache, req>>

Address == {Wins[r].address : r \in Reward}
Idle == [at |-> "idle"]
At(s) == {r \in Reward : stage[r] = s}
Of(who, rs) == {r \in rs : who = All \/ Wins[r].address = who}
Total(rs) == FoldLeft(LAMBDA sum, r : sum + IF r \in rs THEN Wins[r].amount ELSE 0,
                      0, [r \in Reward |-> r])

Init ==
  /\ happened = 0 /\ clock = 0 /\ req = Idle /\ cache = {}
  /\ stage = [r \in Reward |-> "none"]
  /\ time = [r \in Reward |-> 0] /\ instant = [r \in Reward |-> r]

\* Whether an answer that is kept is young enough.
Fresh(c) == clock - c.then.clock < CacheLife

\* The events that the tables hear of, in any order with the reads.  Rows are
\* stored one by one, and may still have the same time to the microsecond, which
\* matters where they agree in the rest.  A bound: none once the answer is too old.
Alike(r, q) ==
  <<Wins[r].amount, Wins[r].side, Wins[r].token>> = <<Wins[q].amount, Wins[q].side, Wins[q].token>>
Event(rs, s) ==
  /\ req.at # "answered" /\ \A c \in cache : Fresh(c)
  /\ stage' = [r \in Reward |-> IF r \in rs THEN s ELSE stage[r]]
  /\ time' = [r \in Reward |-> IF r \in rs /\ s # "sent" THEN clock + 1 ELSE time[r]]
  /\ \E same \in {{}} \union {{r \in rs : s # "sent" /\ \E q \in rs \ {r} : Alike(r, q)}} :
       instant' = [r \in Reward |-> IF r \in same THEN 0
                                    ELSE IF r \in rs /\ s # "sent" THEN r ELSE instant[r]]
  /\ clock' = clock + 1 /\ UNCHANGED cache
  /\ req' = IF req = Idle THEN req ELSE [req EXCEPT !.moved = @ \union rs]

Happen ==
  /\ happened < Transactions /\ happened' = happened + 1
  /\ Event({r \in Reward : Wins[r].tx = happened + 1}, "pending")
\* All that is pending of a category, which a fluid token is, goes with the batch.
Batch(category) == {r \in At("pending") : Wins[r].category = category}
Send(category) ==
  /\ Batch(category) # {} /\ Event(Batch(category), "sent") /\ UNCHANGED happened
Track(r) ==
  /\ stage[r] = "sent" /\ Event({r}, "paid") /\ UNCHANGED happened

---------------------------------------------------------------------------
\* The queries.
Newest(rs) == SetToSortSeq(rs, LAMBDA a, b : time[a] > time[b] \/ (time[a] = time[b] /\ a < b))
FirstOf(n, s) == SubSeq(s, 1, IF Len(s) < n THEN Len(s) ELSE n)
WinnersOf(who) == FirstOf(WinnersLimit, Newest(Of(who, At("paid"))))
PendingOf(who) == FirstOf(PendingLimit, Newest(Of(who, At("pending"))))
UnclaimedOf(who) == Newest(Of(who, At("pending")))  \* this one has no limit
Stamped(s, paid) == [i \in DOMAIN s |-> [reward |-> s[i], paid |-> paid, time |-> time[s[i]]]]

Page(p, s) == SubSeq(s, (p - 1) * PerPage + 1, IF p * PerPage < Len(s) THEN p * PerPage ELSE Len(s))

Joined(pending, winners) == pending \o winners
\* Pending rewards come first and the sort is stable.
Merged(pending, winners) ==
  LET both == pending \o winners
      order == SetToSortSeq(DOMAIN both, LAMBDA i, j :
                 both[i].time > both[j].time \/ (both[i].time = both[j].time /\ i < j))
  IN  [k \in DOMAIN both |-> both[order[k]]]

\* One row of a transaction: the first of its rewards gives the winner and
\* the hash, the sums are by utility.
Add(rows, m) ==
  LET win == Wins[m.reward]
      old == SelectSeq(rows, LAMBDA row : row.tx = win.tx)
      fresh == [tx |-> win.tx, winner |-> win.address, paid |-> m.paid, reward |-> 0, utilities |-> 0]
      sum(row) == IF win.utility = Fluid THEN [row EXCEPT !.reward = @ + win.amount]
                  ELSE [row EXCEPT !.utilities = @ + win.amount]
  IN  IF old = <<>> THEN Append(rows, sum(fresh))
      ELSE [i \in DOMAIN rows |-> IF rows[i].tx = win.tx THEN sum(rows[i]) ELSE rows[i]]
Grouped(merged) == FoldLeft(Add, <<>>, merged)

\* winningUserTransactions: rows without a transfer are left out of the page.
WinningRows(q, indexed) == SelectSeq(Page(q.page, Grouped(Merged(q.pending, q.winners))),
                            LAMBDA row : row.tx \in indexed)

\* unclaimed: the totals, and what each token has, of which only the last is kept.
Sum(s) == FoldLeft(LAMBDA sum, m : sum + Wins[m.reward].amount, 0, s)
LastOf(token, s) ==
  LET its == SelectSeq(s, LAMBDA m : Wins[m.reward].token = token)
  IN  IF its = <<>> THEN 0 ELSE Wins[Last(its).reward].amount
Tokens == {Wins[r].token : r \in Reward}
Breakdown(q) == [token \in Tokens |-> LastOf(token, q.pending)]

\* total_reward, of the world at a moment: what was paid within a window, and all
\* that is pending however old it is, of the fluid tokens. It has no limit. What a
\* batch has taken and nobody tracked yet is in none of them.
Now == [stage |-> stage, time |-> time, instant |-> instant, clock |-> clock, happened |-> happened]
In(w, s) == {r \in Reward : w.stage[r] = s}
YieldOf(who, window, w) ==
  {r \in Of(who, In(w, "pending")
                  \union {r \in In(w, "paid") : window = "all" \/ w.time[r] > w.clock - Windows[window]}) :
     Wins[r].token \in FluidTokens}

ColumnsTimeless(r, w) == [amount |-> Wins[r].amount, side |-> Wins[r].side, token |-> Wins[r].token]

\* The UNION of the two tables keeps one of the rows that agree in these columns, the
\* time they were stored among them, but neither in their address nor their hash.
Columns(r, w) ==
  [amount |-> Wins[r].amount, side |-> Wins[r].side, token |-> Wins[r].token,
   created |-> <<w.time[r], w.instant[r]>>]
Kept(rs, w) == {r \in rs : \A q \in rs : Columns(q, w) = Columns(r, w) => r <= q}
Yields(who, w) == [window \in DOMAIN Windows |-> Total(Kept(YieldOf(who, window, w), w))]

\* The answer is kept: the same question is answered from it, until it is too old.
Answering(who) ==
  LET kept == {c \in cache : c.who = who /\ Fresh(c)}
  IN  IF kept # {} THEN kept ELSE {[who |-> who, then |-> Now]}

\* Somebody else asks: at most one answer is kept before the question is asked.
AskedBefore(who) ==
  /\ req = Idle /\ cache = {} /\ clock > 0 /\ cache' = Answering(who)
  /\ UNCHANGED <<world, req>>

---------------------------------------------------------------------------
\* The routes: the two reads of a question are in either order.
Kinds == {"winning", "unclaimed", "card", "yield"}
Ask(kind, who, page) ==
  /\ req = Idle
  /\ who = All => kind \in {"winning", "yield"}
  /\ page > 1 => kind = "winning"
  /\ cache # {} => kind = "yield"  \* a bound: nothing else is answered from it
  /\ req' = [at |-> "reading", kind |-> kind, who |-> who, page |-> page, moved |-> {},
             toRead |-> CASE kind = "yield" -> {} [] kind = "card" -> {"pending"}
                         [] OTHER -> {"pending", "winners"},
             pending |-> <<>>, winners |-> <<>>]
  /\ UNCHANGED <<world, cache>>

ReadWinners ==
  /\ req.at = "reading" /\ "winners" \in req.toRead
  /\ req' = [req EXCEPT !.toRead = @ \ {"winners"}, !.winners = Stamped(WinnersOf(req.who), TRUE)]
  /\ UNCHANGED <<world, cache>>
ReadPending ==
  /\ req.at = "reading" /\ "pending" \in req.toRead
  /\ req' = [req EXCEPT !.toRead = @ \ {"pending"},
               !.pending = Stamped(IF req.kind = "winning" THEN PendingOf(req.who)
                                   ELSE UnclaimedOf(req.who), FALSE)]
  /\ UNCHANGED <<world, cache>>

Answer(q, indexed) ==
  CASE q.kind = "winning" -> [rows |-> WinningRows(q, indexed)]
    [] q.kind = "yield" -> [c \in Answering(q.who) |-> Yields(q.who, c.then)]
    [] OTHER -> [unclaimed |-> Sum(q.pending), claimed |-> Sum(q.winners), breakdown |-> Breakdown(q)]
\* Which transfers aggregated_user_transactions holds by then is up to a service
\* that hears of the transactions on a queue of its own.
Reply(indexed) ==
  /\ req.at = "reading" /\ req.toRead = {} /\ indexed \subseteq 1..happened
  /\ req.kind # "winning" => indexed = {}
  /\ req' = [req EXCEPT !.at = "answered"] @@ [answer |-> Answer(req, indexed), indexed |-> indexed]
  /\ cache' = IF req.kind = "yield" THEN Answering(req.who) ELSE cache
  /\ UNCHANGED world

---------------------------------------------------------------------------
\* What the pages make of the answers.  A reward that is not paid opens a tooltip.
RewardRow(row) ==
  [winner |-> row.winner, reward |-> row.reward, utilities |-> row.utilities,
   opens |-> IF row.paid THEN "explorer" ELSE "still pending"]
\* The card is there when there is something to claim.
Card(answer) ==
  IF answer.unclaimed = 0 THEN [unclaimed |-> 0, claimed |-> 0]
  ELSE [unclaimed |-> answer.unclaimed, claimed |-> answer.claimed]
\* The rewards page has that card, or what invites to use the fluid tokens.
InfoCards(answer) == IF answer.unclaimed > 0 THEN {"UserRewards"} ELSE {"NoUserRewards", "SpendToEarnCTA"}
\* My Winnings and My Breakdown.
WinningRow(m) == [token |-> Wins[m.reward].token, reward |-> Wins[m.reward].amount, tx |-> Wins[m.reward].tx]
BreakdownRow(answer, token) == [token |-> token, reward |-> answer.breakdown[token]]
UnclaimedPage(answer, pending) ==
  [card |-> Card(answer), winnings |-> [i \in DOMAIN pending |-> WinningRow(pending[i])],
   breakdown |-> {BreakdownRow(answer, token) : token \in Tokens}]

Next ==
  \/ Happen \/ (\E r \in Reward : Send(Wins[r].category))
  \/ \E who \in Address \union {All} : AskedBefore(who)
  \/ \E r \in Reward : Track(r)
  \/ \E kind \in Kinds, who \in Address \union {All}, page \in 1..Transactions : Ask(kind, who, page)
  \/ ReadWinners \/ ReadPending \/ \E indexed \in SUBSET Tx : Reply(indexed)

Spec == Init /\ [][Next]_vars

---------------------------------------------------------------------------
Told(kinds) == req.at = "answered" /\ req.kind \in kinds
Visible == Of(req.who, At("pending") \union At("paid"))
Within == /\ Cardinality(Of(req.who, At("pending"))) <= PendingLimit
          /\ Cardinality(Of(req.who, At("paid"))) <= WinnersLimit
Its(t) == {r \in Visible : Wins[r].tx = t}
Latest(t) == CHOOSE n \in {time[r] : r \in Its(t)} : \A r \in Its(t) : time[r] <= n
Winning == {Wins[r].tx : r \in Visible}
Rank(t) == Cardinality({u \in Winning : Latest(u) > Latest(t)})

\* A page of the rewards table holds the transactions whose rank by their
\* latest event falls on it, each once, in that order, with all that it won so far,
\* and opens the explorer only for what was paid: so the pages together hold each
\* once (winningUserTransactions.tsx:80-165, rewards/index.tsx:424-573).
\* It is so while the queries' limits do not cut and nothing happened in between.
PageIsTrue ==
  (Told({"winning"}) /\ Within /\ req.moved = {}) =>
    LET rows == req.answer.rows
        on == {t \in Winning : Rank(t) \in (req.page - 1) * PerPage .. req.page * PerPage - 1}
    IN  /\ {rows[i].tx : i \in DOMAIN rows} = on \intersect req.indexed
        /\ \A i, j \in DOMAIN rows : i < j => Rank(rows[i].tx) < Rank(rows[j].tx)
        /\ \A i \in DOMAIN rows :
             LET its == Its(rows[i].tx)
                 row == RewardRow(rows[i])
             IN  /\ row.reward = Total({r \in its : Wins[r].utility = Fluid})
                 /\ row.utilities = Total({r \in its : Wins[r].utility # Fluid})
                 /\ row.opens = "explorer" => \E r \in its : stage[r] = "paid"

\* Between the two reads rewards move from one table to the other, and still the
\* card shows all that stayed where it was once, as unclaimed or as claimed, and
\* what moved at most once as each, and is there when something is left to claim;
\* the winnings under it add up to its total, and each token of theirs is in the
\* breakdown (unclaimed.tsx:49-75, unclaimedRewards.tsx:34-46).
CardIsTrue ==
  (Told({"unclaimed", "card"}) /\ Within) =>
    LET own(s) == Total(Of(req.who, At(s)) \ req.moved)
        moved == Total(Of(req.who, req.moved))
        page == UnclaimedPage(req.answer, req.pending)
    IN  /\ req.answer.unclaimed \in own("pending") .. own("pending") + moved
        /\ (req.kind = "unclaimed" /\ page.card.unclaimed > 0) =>
             page.card.claimed \in own("paid") .. own("paid") + moved
        /\ FoldLeft(LAMBDA sum, row : sum + row.reward, 0, page.winnings) = page.card.unclaimed
        /\ own("pending") > 0 => InfoCards(req.answer) = {"UserRewards"}
        /\ {row.token : row \in ToSet(page.winnings)} =
             {row.token : row \in {line \in page.breakdown : line.reward > 0}}

\* A yield, of the moment it was computed at, which is less than CacheLife ago, is all
\* that was ever won in the fluid tokens except what is on its way, and a shorter period
\* misses only what was paid before it; as long as no two equal rewards were stored in
\* the same microsecond (query/dashboard/rewards.tsx:90-104, useUserYield.ts:10, total_reward).
Distinct(rs, w) == \A r, q \in rs :
  (r # q /\ w.time[r] = w.time[q] /\ w.instant[r] = w.instant[q]) => ~Alike(r, q)
YieldIsTrue ==
  Told({"yield"}) =>
    \A c \in DOMAIN req.answer :
      LET w == c.then
          won == Of(req.who, {r \in Reward : Wins[r].tx <= w.happened /\ Wins[r].token \in FluidTokens})
          coming == won \intersect In(w, "sent")
          early(window) == {r \in In(w, "paid") : w.time[r] <= w.clock - Windows[window]}
          answer == req.answer[c]
      IN  /\ c.who = req.who /\ w.clock + CacheLife > clock
          /\ Distinct(won, w) =>
               /\ answer["all"] + Total(coming) = Total(won)
               /\ \A window \in DOMAIN Windows \ {"all"} :
                    answer[window] + Total(coming \union (won \intersect early(window))) = Total(won)

SumsAreTrue == CardIsTrue /\ YieldIsTrue
=============================================================================
