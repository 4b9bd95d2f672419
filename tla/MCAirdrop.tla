----------------------------- MODULE MCAirdrop -----------------------------
(* The dialog that locks liquidity, the page it is on, the data of that     *)
(* page and the referrals share nothing that changes: in a behaviour one of *)
(* them moves.  Of the data, the leaderboard and the rest have only the     *)
(* account in common, and move in different behaviours.  There is enough    *)
(* for one deposit of the least amount, and no wETH; a referral takes two   *)
(* bottles, and a win brings one or two.                                    *)
(*                                                                          *)
(* Where bottles are won, one change of the account and nothing that failed *)
(* came before, and the dashboards are at rest from then on but for the     *)
(* acceptances that are on their way.                                       *)
EXTENDS Referrals

CONSTANTS
  Wallet, Typed, Ratio, Minimum, MaxTests, MaxSlides, MaxOpens,
  MaxVisits,
  Owing, Stranger, Boards, Top, MaxFetches
VARIABLES
  open, opens, form, ratio, canStake, state, offered, refreshing, tests, runs, held, allowed,
  read, mined, short, swallowed,
  visits, wide, at, leaving, modal, hash, timer, scroll, local, stored, slide, intro, autos, finished,
  arbitrum, account, period, cache, fetched, memo, balances, stakes, loads, redeeming,
  owed, checked, enabled, changes, upset,
  part

MCWallet == [t \in {"fUSDC", "USDC", "wETH"} |-> CASE t = "fUSDC" -> 2 [] t = "USDC" -> 2 [] t = "wETH" -> 0]

\* An account that is below the top, or at it; nobody else is ranked.
First == CHOOSE a \in Address : TRUE
MCBoards == {<<Stranger, First>>, <<First, Stranger>>}

Stake == INSTANCE StakeNow
Page == INSTANCE AirdropPage
Data == INSTANCE AirdropData WITH Account <- Address, NoAccount <- Nobody, switches <- changes

ASSUME AirdropAssumption == Stake!StakeAssumption /\ Page!PageAssumption /\ Data!DataAssumption

stakeVars == <<open, opens, form, ratio, canStake, state, offered, refreshing, tests, runs, held, allowed,
               read, mined, short, swallowed>>
pageVars == <<visits, wide, at, leaving, modal, hash, timer, scroll, local, stored, slide, intro, autos, finished>>
dataVars == <<arbitrum, account, period, cache, fetched, memo, balances, stakes, loads, redeeming,
              owed, checked, enabled, changes, upset>>
everything == <<stakeVars, pageVars, dataVars, vars, part>>

\* Those that stand still are in one of their initial states.
Still ==
  /\ part # "data" => arbitrum
  /\ part \notin {"referrals", "rewards"} => \A t \in Tab : tabs[t].acct = First

AtRest == calls = {} /\ \A t \in Tab : ~tabs[t].asking
RewardsStep ==
  /\ Next
  /\ messages = <<>> => switches' <= 1 /\ UNCHANGED <<epoch, faults>>
  /\ messages' # <<>> => AtRest /\ UNCHANGED <<tabs, switches, accepted, shared>>

MCInit ==
  /\ Stake!Init /\ Page!Init /\ Data!Init /\ Init
  /\ part \in {"dialog", "page", "board", "data", "referrals", "rewards"} /\ Still

MCNext ==
  \/ part = "dialog" /\ Stake!Next /\ UNCHANGED <<pageVars, dataVars, vars, part>>
  \/ part = "page" /\ Page!Next /\ UNCHANGED <<stakeVars, dataVars, vars, part>>
  \/ part = "board" /\ (Data!BoardStep \/ Data!SwitchStep) /\ UNCHANGED <<stakeVars, pageVars, vars, part>>
  \/ part = "data" /\ (Data!FundsStep \/ Data!SwitchStep) /\ UNCHANGED <<stakeVars, pageVars, vars, part>>
  \/ part = "referrals" /\ Next /\ UNCHANGED <<messages, stakeVars, pageVars, dataVars, part>>
  \/ part = "rewards" /\ RewardsStep /\ UNCHANGED <<stakeVars, pageVars, dataVars, part>>

\* The interval of the cache asks again for the links, and the server answers.
LinksFairness ==
  \A t \in Tab :
    /\ WF_vars(part = "referrals" /\ Ask(t))
    /\ \A a \in Address :
         WF_vars(part = "referrals" /\ \E c \in calls : c.tab = t /\ c.row.address = a /\ InsertCode(c))

MCSpec ==
  /\ MCInit /\ [][MCNext]_everything
  /\ \A i \in Stake!Slides : WF_stakeVars(Stake!RunStep(i))
  /\ LinksFairness

-----------------------------------------------------------------------------
\* However late the tests answer, the wallet is only asked for amounts that the account holds, or
\* held until a deposit was mined that the dialog does not know of; and a deposit finds the
\* allowances it asked for, unless another attempt was under way while it was
\* (airdrop/common.tsx:884-1003, 1118-1141, transaction.ts:424-526).
StakesWithinMeans == Stake!AskedWithinMeans /\ Stake!ShortOnlyByOverlap

\* The tutorial and the intro are not shown again, and a dialog that was opened is open,
\* and in the address (airdrop/index.tsx:569-582, 661-671, 711-801).
DialogsKeep == []Page!ShownOnce /\ Page!OpenedStays

\* The leaderboard has one row of the account that is connected, and when nothing is
\* awaited any more the balances are that account's (airdrop/index.tsx:518-628, 681-696).
DataIsMine == Data!OneRowOfMine /\ Data!BalancesAreMine

\* transaction.ts:487 "Check whether to increase allowance": a deposit asks for an
\* approval only if the contract may not take the amount yet.
RaisedOnlyWhenLow == Stake!RaisedOnlyWhenLow

\* A slide ends in a success or in a slider that can be used again, unless the error of
\* one was let through; and a user whom no earlier epoch gave a code has a link with one,
\* if they stay.
StayersAreServed ==
  /\ []<>~(part = "dialog" /\ Stake!Stuck)
  /\ \A t \in Tab, a \in Address : []<>~(part = "referrals" /\ Linkless(t, a))
=============================================================================
