---------------------------- MODULE AirdropData ----------------------------
(***************************************************************************)
(* What the airdrop page knows of the account that is connected: its place *)
(* on the leaderboard, its balances and stakes, what it is owed.           *)
(*                                                                         *)
(* The leaderboard is kept per address of its query, so that each account  *)
(* and period has data of its own, and the rows are worked out only when   *)
(* the data are others. Balances and stakes are asked for when the account *)
(* changes, and an answer is not disregarded when it is about an account   *)
(* that has left.                                                          *)
(***************************************************************************)
EXTENDS Integers, Sequences

CONSTANTS
  Account, Stranger, NoAccount, \* the ones who connect, another on the leaderboard, nobody
  Owing,                  \* the accounts that an earlier airdrop owes something
  Boards,                 \* rankings the server can give
  Top,                    \* the rows everyone sees, 16
  MaxSwitches, MaxFetches \* bounds: of the account, of the leaderboard

\* The server ranks nobody twice.
DataAssumption ==
  /\ NoAccount \notin Account \cup {Stranger}
  /\ \A ranking \in Boards :
       /\ ranking \in Seq(Account \cup {Stranger})
       /\ \A i, j \in DOMAIN ranking : ranking[i] = ranking[j] => i = j
  /\ {Top, MaxSwitches, MaxFetches} \subseteq Nat

VARIABLES
  arbitrum,               \* whether this is the chain that has the airdrop
  account, period,        \* who is connected, and the filter of the leaderboard
  cache, fetched,         \* the answers by query, and how many there were
  memo,                   \* the rows, and what they were worked out from
  balances, stakes,       \* the accounts that these are shown of
  loads, redeeming,       \* answers that are awaited, of whom; whose withdrawal there is
  owed, checked, enabled, \* what the page of another chain knows of an earlier airdrop
  switches, upset         \* changes of the account; whether one met a load, or one failed

board == <<period, cache, fetched, memo>>
funds == <<balances, stakes, loads, redeeming>>
eligibility == <<owed, checked, enabled>>
history == <<arbitrum, switches, upset>>
vars == <<account, board, funds, eligibility, history>>

Holder == Account \cup {NoAccount}
Period == {"24", "all"}
Absent == [loaded |-> FALSE, rows |-> <<>>]

-----------------------------------------------------------------------------
(* The leaderboard.                                                        *)

Unranked(a) == [user |-> a, rank |-> -1]
Ranked(ranking) == [i \in DOMAIN ranking |-> [user |-> ranking[i], rank |-> i]]
Places(rows, a) == {i \in DOMAIN rows : rows[i].user = a}
FindIndex(rows, a) == CHOOSE i \in Places(rows, a) : \A j \in Places(rows, a) : i <= j
First(rows) == SubSeq(rows, 1, IF Len(rows) < Top THEN Len(rows) ELSE Top)

\* getLeaderboardWithUser.
WithUser(rows, a) ==
  CASE a = NoAccount -> First(rows)
    [] a # NoAccount /\ Places(rows, a) = {} -> <<Unranked(a)>> \o First(rows)
    [] a # NoAccount /\ Places(rows, a) # {} ->
         IF FindIndex(rows, a) > Top THEN <<rows[FindIndex(rows, a)]>> \o First(rows) ELSE First(rows)

\* The query as it would be for everyone alike.
SharedQuery(p, a) == <<p, NoAccount>>

\* The address of the query, with the account although the server has no use for it.
Query(p, a) == <<p, a>>

Queries == {Query(p, a) : p \in Period, a \in Holder}
Data(c, q) == IF q \in DOMAIN c THEN c[q] ELSE Absent

\* useMemo: the rows stay as long as the data are the same.
Memo(c, p, a) ==
  LET data == Data(c, Query(p, a))
      from == IF data.loaded THEN <<Query(p, a), data.rows>> ELSE <<>>
  IN IF memo.from = from THEN memo
     ELSE [from |-> from, rows |-> WithUser(Ranked(data.rows), a)]

\* Leaderboard adds a row of nothing for somebody the rows do not have.
Loaded == Data(cache, Query(period, account)).loaded
Rows ==
  IF Loaded /\ account # NoAccount /\ Places(memo.rows, account) = {}
  THEN Append(memo.rows, Unranked(account)) ELSE memo.rows

Init ==
  /\ account = NoAccount /\ period = "24"
  /\ cache = [q \in Queries |-> Absent] /\ fetched = 0 /\ memo = [from |-> <<>>, rows |-> <<>>]
  /\ balances = NoAccount /\ stakes = NoAccount /\ loads = {} /\ redeeming = NoAccount
  /\ owed = NoAccount /\ checked = FALSE /\ enabled = FALSE
  /\ arbitrum \in BOOLEAN /\ switches = 0 /\ upset = FALSE

\* The server answers the query of the moment. It is asked again every 100
\* seconds, when the window is looked at again, and for a new query.
Fetch(ranking) ==
  LET q == Query(period, account) IN
  /\ arbitrum /\ fetched < MaxFetches /\ fetched' = fetched + 1
  /\ cache' = [cache EXCEPT ![q] = [loaded |-> TRUE, rows |-> ranking]]
  /\ memo' = Memo(cache', period, account)
  /\ UNCHANGED <<account, period, funds, eligibility, history>>

SetFilterIndex(p) ==
  /\ arbitrum /\ p # period /\ period' = p /\ memo' = Memo(cache, p, account)
  /\ UNCHANGED <<account, cache, fetched, funds, eligibility, history>>

-----------------------------------------------------------------------------
(* The account.                                                            *)

Ask(a) == {[kind |-> k, of |-> a] : k \in IF arbitrum THEN {"balances", "stakes"} ELSE {"owed"}}

\* The effect of the account: nobody has no balances, but keeps the stakes and
\* the amount that are shown. Two loads of an account would answer alike.
AskForAccount(a) ==
  /\ balances' = IF a = NoAccount THEN NoAccount ELSE balances
  /\ loads' = IF a = NoAccount THEN loads ELSE loads \cup Ask(a)

Switch(a) ==
  /\ a # account /\ switches < MaxSwitches /\ switches' = switches + 1
  /\ upset' = (upset \/ loads # {}) /\ arbitrum' = arbitrum
  /\ account' = a /\ memo' = IF arbitrum THEN Memo(cache, period, a) ELSE memo
  /\ AskForAccount(a)
  /\ UNCHANGED <<period, cache, fetched, stakes, redeeming, eligibility>>

\* An answer is shown, whoever is connected by then.
Answer(load) ==
  /\ load \in loads /\ loads' = loads \ {load}
  /\ balances' = IF load.kind = "balances" THEN load.of ELSE balances
  /\ stakes' = IF load.kind = "stakes" THEN load.of ELSE stakes
  /\ owed' = IF load.kind = "owed" THEN load.of ELSE owed
  /\ enabled' = (enabled \/ load.kind = "owed")
  /\ UNCHANGED <<account, board, redeeming, checked, history>>

\* An error of a load is caught by nobody, and leaves what is shown.
LoadFails(load) ==
  /\ load \in loads /\ loads' = loads \ {load} /\ upset' = TRUE
  /\ UNCHANGED <<account, board, balances, stakes, redeeming, eligibility, arbitrum, switches>>

\* getStakingDeposits: without a signer, or with an error that is let through, there are
\* no deposits, and the stakes that were shown are gone.
DepositsUnknown(load) ==
  /\ load \in loads /\ load.kind = "stakes" /\ loads' = loads \ {load}
  /\ stakes' = NoAccount
  /\ UNCHANGED <<account, board, balances, redeeming, eligibility, history>>

\* handleWithdraw.
Withdraw ==
  /\ arbitrum /\ redeeming = NoAccount /\ account # NoAccount /\ redeeming' = account
  /\ UNCHANGED <<account, board, balances, stakes, loads, eligibility, history>>

\* redeemTokens is confirmed, or has no signer or an error that is let through, which the page
\* does not tell from it: everything is asked for again, of the account there was. The button
\* is not put back: it says that it redeems until the dialog is closed.
WithdrawWorks ==
  /\ redeeming # NoAccount /\ redeeming' = NoAccount /\ loads' = loads \cup Ask(redeeming)
  /\ upset' = (upset \/ redeeming # account)
  /\ UNCHANGED <<account, board, balances, stakes, eligibility, arbitrum, switches>>

WithdrawFails ==
  /\ redeeming # NoAccount /\ redeeming' = NoAccount
  /\ UNCHANGED <<account, board, balances, stakes, loads, eligibility, history>>

-----------------------------------------------------------------------------
(* The page of a chain that has no airdrop any more.                       *)

HandleCheckEligibility ==
  /\ enabled /\ ~checked /\ enabled' = FALSE /\ checked' = TRUE
  /\ UNCHANGED <<account, board, funds, owed, history>>

\* TGEDisplay: what was owed decides, once it was asked for.
TGEDisplay ==
  CASE ~checked -> "prompt"
    [] checked /\ owed \in Owing -> "eligible"
    [] checked /\ owed \notin Owing -> "not eligible"

-----------------------------------------------------------------------------
BoardStep ==
  \/ \E ranking \in Boards : Fetch(ranking)
  \/ \E p \in Period : SetFilterIndex(p)

SwitchStep == \E a \in Holder : Switch(a)

FundsStep ==
  \/ \E load \in loads : Answer(load) \/ LoadFails(load) \/ DepositsUnknown(load)
  \/ Withdraw \/ WithdrawWorks \/ WithdrawFails \/ HandleCheckEligibility

Next == BoardStep \/ SwitchStep \/ FundsStep

Spec == Init /\ [][Next]_vars

-----------------------------------------------------------------------------
(* Properties.                                                             *)

\* A leaderboard that has loaded has one row of the account that is connected,
\* with the rank the server gave it, and otherwise the first rows in order: rows
\* worked out for an account or a period before are never left.
OneRowOfMine ==
  LET ranking == Ranked(Data(cache, Query(period, account)).rows)
      mine == IF Places(ranking, account) = {} THEN Unranked(account)
              ELSE ranking[FindIndex(ranking, account)]
  IN Loaded /\ account # NoAccount =>
       /\ \E i \in DOMAIN Rows : Places(Rows, account) = {i} /\ Rows[i] = mine
       /\ Len(Rows) <= 1 + Len(First(ranking))
       /\ \E i \in 0..1 : SubSeq(Rows, 1 + i, i + Len(First(ranking))) = First(ranking)

\* When nothing is awaited any more, the balances are those of the account that
\* is connected, unless the account changed while something was, or a load failed.
\* So are the stakes, and the word on who is eligible, as long as there is an account.
BalancesAreMine ==
  loads = {} /\ ~upset =>
    /\ arbitrum => balances = account
    /\ (~arbitrum /\ account # NoAccount) =>
         TGEDisplay \in {"prompt", IF account \in Owing THEN "eligible" ELSE "not eligible"}
    /\ (arbitrum /\ account # NoAccount) => stakes \in {account, NoAccount}
=============================================================================
