------------------------------ MODULE StakeNow ------------------------------
(***************************************************************************)
(* The dialog of the airdrop page that locks liquidity: an amount of a     *)
(* fluid token and one of a base token are deposited together.             *)
(*                                                                         *)
(* Every change of the two inputs asks the contract whether it would take  *)
(* them, and the answers come in any order. A slide asks once more, has    *)
(* the wallet approve each token at the same time, and then deposits. The  *)
(* slider works on while an attempt is under way, and nothing ends an      *)
(* attempt when the dialog closes. Prices are 1, and have been loaded.     *)
(***************************************************************************)
EXTENDS Integers, FiniteSets

CONSTANTS
  Wallet,                 \* what the account holds at first, of each token
  Typed, Ratio,           \* amounts a user types; base tokens for a fluid token
  Minimum,                \* MINIMUM_FLUID_LIQUIDITY_USD
  MaxTests, MaxSlides, MaxOpens \* bounds: tests in flight, attempts, openings of the dialog

Base == {"USDC", "wETH"}
Token == Base \cup {"fUSDC"}
Symbols == {"USDC", "fUSDC", "wETH"}

StakeAssumption ==
  /\ Wallet \in [Token -> Nat] /\ Typed \subseteq Nat /\ Ratio \subseteq Nat
  /\ {Minimum, MaxTests, MaxSlides, MaxOpens} \subseteq Nat

VARIABLES
  open, opens, form, ratio, \* the dialog: its inputs, and 0 while there is no ratio
  canStake, state,        \* whether the slider can be used, and what it says
  offered, refreshing,    \* the balances the page knows, and whether it asks for them
  tests, runs,            \* the tests of inputs in flight, and the attempts
  held, allowed,          \* the chain
  read, mined,            \* deposits that were mined when the page read its balances, and by now
  short, swallowed        \* whether an attempt that met no other lacked allowance, and one vanished

inputs == <<open, opens, form, ratio>>
slider == <<canStake, state>>
page == <<offered, refreshing, read>>
chain == <<held, allowed, mined>>
history == <<short, swallowed>>
vars == <<inputs, slider, page, tests, runs, chain, history>>

Idle == [step |-> "idle"]
Over == [step |-> "over"]
Slides == 1..MaxSlides
Active(run) == run \notin {Idle, Over}

-----------------------------------------------------------------------------
(* What is staked, and for what.                                           *)

\* stakingLiquidityMultiplierEq, times 4129975: what a stake counts for after
\* "days" of the "total" it is locked for.
Full == 4129975
Clamp(n) == IF n < 0 THEN 0 ELSE IF n > Full THEN Full ELSE n
Multiplier(days, total) == Clamp(396 * (365 - total) * days + 12276 * total - 350765)

\* What the dialog promises for an input, and what a stake counts for on a day.
Power(input, days, total) == (input.fluid + input.base) * Multiplier(days, total)
Worth(stake, day) == stake.usd * Multiplier(day - stake.since, stake.total)
DaysLeft(stake, day) == IF day - stake.since > stake.total THEN 0 ELSE stake.total - (day - stake.since)

\* The tokens of the dialog with what the page knew of them when they were taken up; nothing is
\* entered, which is not the same as a 0.
Fresh(b) == [fluid |-> 0, base |-> 0, symbol |-> b, entered |-> {},
             known |-> [fluid |-> offered["fUSDC"], base |-> offered[b]], read |-> read]

Amounts(input) ==
  [t \in Token |-> IF t = "fUSDC" THEN input.fluid ELSE IF t = input.symbol THEN input.base ELSE 0]

\* The inputs that are marked: more is entered than there is.
Insufficient(input) ==
  {side \in {"fluid", "base"} : input[side] > input.known[side]}

\* The part of testStake that needs no answer: the first of its errors.
WithinMeans(input) ==
  /\ input.entered = {"fluid", "base"}
  /\ input.fluid >= Minimum
  /\ Insufficient(input) = {}

\* The contract is asked about the tokens by address, and about what each of them
\* allows out of its own balance.
AllowanceSeen(t) == 0
Unapproved(input) == {t \in Symbols : AllowanceSeen(t) < Amounts(input)[t]}

Init ==
  /\ open = FALSE /\ opens = 0 /\ offered = [t \in Token |-> 0] /\ read = 0 /\ refreshing = TRUE
  /\ form = Fresh("USDC") /\ ratio = 0 /\ canStake = FALSE /\ state = "ready"
  /\ tests = 0 /\ runs = [i \in Slides |-> Idle]
  /\ held = Wallet /\ mined = 0 /\ allowed = [t \in Token |-> 0]
  /\ short = FALSE /\ swallowed = FALSE

-----------------------------------------------------------------------------
(* The page.                                                               *)

\* The dialog begins with the balances of the moment, and never has later ones.
Open ==
  /\ ~open /\ open' = TRUE /\ opens < MaxOpens /\ opens' = opens + 1
  /\ form' = Fresh("USDC") /\ ratio' = 0
  /\ canStake' = FALSE /\ state' = "ready"
  /\ UNCHANGED <<page, tests, runs, chain, history>>

\* What is in flight goes on, but there is nothing it could set any more.
Close ==
  /\ open /\ open' = FALSE /\ opens' = opens /\ form' = Fresh("USDC") /\ ratio' = 0
  /\ canStake' = FALSE /\ state' = "ready" /\ tests' = 0
  /\ runs' = [i \in Slides |-> IF ~Active(runs[i]) THEN runs[i] ELSE [runs[i] EXCEPT !.own = FALSE]]
  /\ UNCHANGED <<page, chain, history>>

\* fetchUserTokenBalance, at first and after a deposit.
BalancesArrive ==
  /\ refreshing /\ refreshing' = FALSE /\ offered' = held /\ read' = mined
  /\ UNCHANGED <<inputs, slider, tests, runs, chain, history>>

\* The effect that asks every ten seconds.
RatioArrives(r) ==
  /\ open /\ r # ratio /\ ratio' = r
  /\ UNCHANGED <<open, opens, form, slider, page, tests, runs, chain, history>>

-----------------------------------------------------------------------------
(* The inputs.                                                             *)

\* The effect of new inputs. An error of its own is known at once, the answer of
\* the contract is awaited; an older answer is not disregarded.
Enter(input) ==
  /\ open /\ form' = input
  /\ IF WithinMeans(input)
     THEN /\ tests < MaxTests /\ tests' = tests + 1 /\ canStake' = canStake
     ELSE tests' = tests /\ canStake' = FALSE
  /\ UNCHANGED <<open, opens, ratio, state, page, runs, chain, history>>

\* handleChangeStakingInput: the other amount follows when the ratio is known.
TypeFluid(n) ==
  Enter([form EXCEPT !.fluid = n, !.base = IF ratio = 0 THEN @ ELSE n * ratio,
                     !.entered = IF ratio = 0 THEN @ \cup {"fluid"} ELSE {"fluid", "base"}])
TypeBase(n) ==
  Enter([form EXCEPT !.base = n, !.fluid = IF ratio = 0 THEN @ ELSE n \div ratio,
                     !.entered = IF ratio = 0 THEN @ \cup {"base"} ELSE {"fluid", "base"}])

\* The other amount does not follow an input that is emptied.
Erase(side) ==
  /\ side \in form.entered
  /\ Enter([form EXCEPT !.fluid = IF side = "fluid" THEN 0 ELSE @, !.base = IF side = "base" THEN 0 ELSE @,
                        !.entered = @ \ {side}])

\* inputMaxBalance.
TypeMax ==
  LET matching == form.known.fluid * ratio IN
  Enter(IF form.known.base >= matching
        THEN [form EXCEPT !.fluid = form.known.fluid, !.base = matching, !.entered = {"fluid", "base"}]
        ELSE [form EXCEPT !.base = form.known.base, !.fluid = form.known.base \div ratio,
                          !.entered = {"fluid", "base"}])

\* Another base token starts from nothing, with the balance the page has by now.
ChooseBase(b) ==
  /\ b # form.symbol
  /\ Enter([form EXCEPT !.symbol = b, !.base = 0, !.entered = @ \ {"base"}, !.known.base = offered[b]])

\* One of them answers. An error about an allowance counts as a yes.
TestAnswers(yes) ==
  /\ tests > 0 /\ tests' = tests - 1 /\ canStake' = yes
  /\ UNCHANGED <<inputs, state, page, runs, chain, history>>

-----------------------------------------------------------------------------
(* An attempt.                                                             *)

Becomes(i, run) == runs' = [runs EXCEPT ![i] = run]
Says(i, s) == state' = IF runs[i].own THEN s ELSE state

Others == \E j \in Slides : Active(runs[j])

Attempt ==
  [step |-> "test", input |-> [fluid |-> form.fluid, base |-> form.base, symbol |-> form.symbol],
   wants |-> {}, own |-> TRUE, read |-> form.read, met |-> Others]

\* An attempt begins, and those that are under way meet it.
Begins(i) ==
  /\ runs' = [j \in Slides |-> IF j = i THEN Attempt
                              ELSE IF Active(runs[j]) THEN [runs[j] EXCEPT !.met = TRUE] ELSE runs[j]]
  /\ state' = "staking"

\* A success puts a button in the place of the slider; "staking" does not.
Slidable(i) ==
  /\ open /\ canStake /\ state # "complete" /\ runs[i] = Idle
  /\ \A j \in 1..(i - 1) : runs[j] # Idle

\* handleStake as it would be without a test of its own.
SlideUntested(i) ==
  /\ Slidable(i) /\ Begins(i)
  /\ UNCHANGED <<inputs, canStake, page, tests, chain, history>>

\* handleStake tests what is entered now, whatever the last answer was about.
Slide(i) ==
  /\ Slidable(i)
  /\ IF WithinMeans(form) THEN Begins(i) ELSE runs' = runs /\ state' = "ready"
  /\ UNCHANGED <<inputs, canStake, page, tests, chain, history>>

\* makeStakingDeposit asks for all the approvals at once.
Prompting(i) ==
  LET wants == Unapproved(runs[i].input) IN
  /\ runs[i].step = "test"
  /\ Becomes(i, [runs[i] EXCEPT !.step = IF wants = {} THEN "deposit" ELSE "approve", !.wants = wants])
  /\ UNCHANGED <<inputs, slider, page, tests, chain, history>>

TestedInVain(i) ==
  /\ runs[i].step = "test" /\ Becomes(i, Over) /\ Says(i, "ready")
  /\ UNCHANGED <<inputs, canStake, page, tests, chain, history>>

After(run, wants) ==
  CASE run.step = "approve" /\ wants = {} -> [run EXCEPT !.step = "deposit", !.wants = wants]
    [] run.step = "failed" /\ wants = {} -> Over
    [] OTHER -> [run EXCEPT !.wants = wants]

\* An approval is given, and mined. It is not taken back when another is refused,
\* and its prompt stays when its attempt has failed.
Approve(i, t) ==
  /\ runs[i].step \in {"approve", "failed"} /\ t \in runs[i].wants
  /\ allowed' = [allowed EXCEPT ![t] = Amounts(runs[i].input)[t]]
  /\ Becomes(i, After(runs[i], runs[i].wants \ {t}))
  /\ UNCHANGED <<inputs, slider, page, tests, held, mined, history>>

\* The first refusal fails the attempt; its error is the one that is shown.
RefuseApproval(i, t) ==
  /\ runs[i].step \in {"approve", "failed"} /\ t \in runs[i].wants
  /\ LET wants == runs[i].wants \ {t} IN
     Becomes(i, IF wants = {} THEN Over ELSE [runs[i] EXCEPT !.step = "failed", !.wants = wants])
  /\ IF runs[i].step = "approve" THEN Says(i, "ready") ELSE state' = state
  /\ UNCHANGED <<inputs, canStake, page, tests, chain, history>>

SendDeposit(i) ==
  /\ runs[i].step = "deposit" /\ Becomes(i, [runs[i] EXCEPT !.step = "mining"])
  /\ UNCHANGED <<inputs, slider, page, tests, chain, history>>

\* handleContractErrors throws, and the catch of handleStake has the text.
RefuseDeposit(i) ==
  /\ runs[i].step = "deposit" /\ Becomes(i, Over) /\ Says(i, "ready")
  /\ UNCHANGED <<inputs, canStake, page, tests, chain, history>>

\* The provider is gone, or the error is of a kind handleContractErrors lets
\* through: there is no receipt, the callback is called and the slider says nothing.
Swallow(i) ==
  /\ runs[i].step \in {"approve", "deposit"}
  /\ Becomes(i, IF runs[i].wants = {} THEN Over ELSE [runs[i] EXCEPT !.step = "failed"])
  /\ swallowed' = (swallowed \/ runs[i].own) /\ refreshing' = TRUE
  /\ UNCHANGED <<inputs, slider, offered, read, tests, chain, short>>

Covered(input, funds) == \A t \in Token : Amounts(input)[t] <= funds[t]

Mine(i) ==
  LET input == runs[i].input
      taken(funds) == [t \in Token |-> funds[t] - Amounts(input)[t]]
  IN
  /\ runs[i].step = "mining" /\ Becomes(i, Over)
  /\ IF Covered(input, held) /\ Covered(input, allowed)
     THEN /\ held' = taken(held) /\ allowed' = taken(allowed) /\ mined' = mined + 1
          /\ Says(i, "complete") /\ refreshing' = TRUE
     ELSE UNCHANGED <<chain, refreshing>> /\ Says(i, "ready")
  /\ short' = (short \/ (~Covered(input, allowed) /\ ~runs[i].met))
  /\ UNCHANGED <<inputs, canStake, offered, read, tests, swallowed>>

\* "SUCCESS! - STAKE MORE?"
Again ==
  /\ state = "complete" /\ state' = "ready"
  /\ UNCHANGED <<inputs, canStake, page, tests, runs, chain, history>>

-----------------------------------------------------------------------------
InputStep ==
  \/ \E n \in Typed : TypeFluid(n) \/ TypeBase(n)
  \/ \E side \in {"fluid", "base"} : Erase(side)
  \/ \E b \in Base : ChooseBase(b)
  \/ \E yes \in BOOLEAN : TestAnswers(yes)
  \/ TypeMax

RunStep(i) ==
  \/ Prompting(i) \/ TestedInVain(i)
  \/ \E t \in Token : Approve(i, t) \/ RefuseApproval(i, t)
  \/ SendDeposit(i) \/ RefuseDeposit(i) \/ Swallow(i) \/ Mine(i)

Next ==
  \/ Open \/ Close \/ BalancesArrive \/ Again \/ InputStep
  \/ \E r \in Ratio : RatioArrives(r)
  \/ \E i \in Slides : Slide(i) \/ RunStep(i)

Spec == Init /\ [][Next]_vars /\ \A i \in Slides : WF_vars(RunStep(i))

-----------------------------------------------------------------------------
(* Properties.                                                             *)

TypeOK ==
  /\ {open, canStake, refreshing, short, swallowed} \subseteq BOOLEAN
  /\ state \in {"ready", "staking", "complete"} /\ ratio \in Nat
  /\ {offered, held, allowed} \subseteq [Token -> Nat]
  /\ \A i \in Slides : ~Active(runs[i]) \/ runs[i].step \in {"test", "approve", "deposit", "mining", "failed"}

\* However late the answers about earlier inputs come, the wallet is only asked for amounts that
\* reach the minimum and that the account holds, unless a deposit was mined since the balances were
\* read that the dialog began with: it never has later ones, and what it asks for may be gone.
AskedWithinMeans ==
  \A i \in Slides : Active(runs[i]) =>
    /\ runs[i].input.fluid >= Minimum
    /\ mined > runs[i].read \/ Covered(runs[i].input, held)

\* A deposit finds the allowances it asked for, in whatever order its approvals were given, and
\* whatever earlier attempts left, unless another attempt was under way while it was: an allowance
\* is set and not added to, and one of the two then finds less.
ShortOnlyByOverlap == ~short

\* A slide ends in a success or in a slider that can be used again, unless the
\* error of one was let through or the dialog has closed.
Stuck == state = "staking" /\ ~swallowed

\* transaction.ts:487 "Check whether to increase allowance": an approval is asked
\* for only if the contract may not take the amount yet.
RaisedOnlyWhenLow ==
  [][\A i \in Slides : Prompting(i) =>
       \A t \in runs'[i].wants : allowed[t] < Amounts(runs[i].input)[t]]_vars
=============================================================================
