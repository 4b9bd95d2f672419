-------------------------------- MODULE Swap --------------------------------
(***************************************************************************)
(* The pages that move tokens: /fluidify, where a token is swapped for its *)
(* fluid counterpart and back, and /transfer/send.  They run on the wallet *)
(* functions of one of the three facades (Ethereum and its layers, Solana, *)
(* Sui), and these on the chain.                                           *)
(*                                                                         *)
(* A press of the button starts a flow: the awaited calls of swap() or of  *)
(* handleSubmit(), with the user's wallet asking her at some of them.  The *)
(* button stays enabled while a flow waits for the wallet, so that flows   *)
(* may overlap; the modal that waits for the confirmation replaces the     *)
(* form once the transaction was sent.  ui is the state of the page that   *)
(* is open; it starts anew when the page is left.  Its crossed is history: *)
(* whether flows of the page overlapped, or one was answered while the     *)
(* modal was not about it.                                                 *)
(***************************************************************************)
EXTENDS Integers, FiniteSets

CONSTANTS
  Account, NoAccount,
  Networks,                 \* the facades considered, of "evm", "solana" and "sui"
  Narrow,                   \* whether the viewport is a tablet's
  Decimals,                 \* of the token and its counterpart
  Eager,                    \* the accounts that may be connected at first, or none
  Linked,                   \* the coins that links to the pages name
  Typed, Holds, Allowed,    \* what a user types, has and has allowed at first
  MaxFlows, MaxSwitches, MaxVisits \* bounds

Coin == {"base", "fluid"}
Infinite == 10 ^ 6          \* constants.MaxUint256

ASSUME SwapAssumption ==
  /\ NoAccount \notin Account /\ Eager \subseteq Account \cup {NoAccount}
  /\ Networks \subseteq {"evm", "solana", "sui"}
  /\ Narrow \subseteq BOOLEAN
  /\ Linked \subseteq {"base", "fluid"} /\ Decimals \in Nat /\ Typed \subseteq [whole : Nat, digits : Nat, places : Nat]
  /\ Holds \in [Account -> [base : Nat, fluid : Nat]] /\ Allowed \subseteq Nat
  /\ \A w \in Account : Holds[w].base + Holds[w].fluid <= Infinite
  /\ {MaxFlows, MaxSwitches, MaxVisits} \subseteq Nat

VARIABLES
  network, tablet,          \* the route's network; whether the viewport is narrow
  account, switches,        \* the wallet
  held, allow,              \* the chain: balances, and allowances for the fluid token
  flows,                    \* the flows, by their number
  ui, visits                \* the page that is open, the visits'th

fixed == <<network, tablet>>
wallet == <<account, switches>>
chain == <<held, allow>>
vars == <<fixed, wallet, chain, flows, ui, visits>>

Flow == 1..MaxFlows
None == "none"
Zero == [base |-> 0, fluid |-> 0]
Smaller(m, n) == IF m < n THEN m ELSE n

-----------------------------------------------------------------------------
(* Amounts, in the smallest unit of the token.                             *)

Power(n) == 10 ^ n

\* A fact of arithmetic, which the provers do not know.
ASSUME PowersArePositive ==
  /\ Power(Decimals) > 0
  /\ \A t \in Typed : Power(t.places - Smaller(t.places, Decimals)) > 0

\* parseSwapInputToTokenAmount and ethers' parseUnits
Units(t) == t.whole * Power(Decimals) + t.digits * Power(Decimals - t.places)

\* The swap form keeps the last of too many decimals ...
SwapInput(t) ==
  [t EXCEPT !.digits = @ % Power(Decimals), !.places = Smaller(@, Decimals)]

\* ... the transfer form the first.
SendInput(t) ==
  [t EXCEPT !.digits = @ \div Power(t.places - Smaller(t.places, Decimals)),
            !.places = Smaller(@, Decimals)]

-----------------------------------------------------------------------------
(* The pages when they open.                                               *)

Loads(a, swapping) ==
  IF a = NoAccount \/ swapping THEN {} ELSE {a}

\* ?token= in the address picks a token, before any balance is known.
Deeplinks == {None} \cup Linked

Fluidify(a, asset) ==
  [page |-> "fluidify", tokens |-> Zero, asset |-> asset,
   open |-> tablet /\ asset # None, swapping |-> FALSE, shown |-> 0, confirmed |-> FALSE,
   error |-> FALSE, crossed |-> FALSE, loads |-> Loads(a, FALSE)]

Send(a, asset) ==
  [page |-> "send", balance |-> 0, asset |-> asset, remaining |-> 0, sending |-> FALSE,
   loads |-> Loads(a, FALSE)]

Opened(a) ==
  {Fluidify(a, d) : d \in Deeplinks} \cup {Send(a, d) : d \in Deeplinks \ {"base"}}

Idle ==
  [step |-> "idle", kind |-> "none", amount |-> 0, who |-> NoAccount,
   here |-> FALSE, alone |-> FALSE, told |-> FALSE]

Init ==
  /\ network \in Networks /\ tablet \in Narrow
  /\ account \in Eager /\ switches = 0
  /\ held = Holds /\ allow \in {[w \in Account |-> n] : n \in Allowed}
  /\ flows = [i \in Flow |-> Idle]
  /\ visits = 1 /\ ui \in Opened(account)

-----------------------------------------------------------------------------
(* The effects of the swap page.                                           *)

\* The effect on [address, swapping]; an earlier load is not given up.
Reload(u, a) ==
  IF a = NoAccount \/ u.swapping THEN [u EXCEPT !.tokens = Zero]
  ELSE [u EXCEPT !.loads = @ \cup Loads(a, FALSE)]

OnSwapPage == ui.page = "fluidify"
OnSendPage == ui.page = "send"

\* The wallet connects, disconnects or changes its account under both pages, and
\* under the flows.
WalletEvent(a) ==
  /\ a # account /\ account' = a
  /\ switches < MaxSwitches /\ switches' = switches + 1
  /\ ui' = IF OnSwapPage THEN Reload(ui, a)
           ELSE [ui EXCEPT !.loads = @ \cup Loads(a, FALSE)]
  /\ flows' = [i \in Flow |-> [flows[i] EXCEPT !.alone = FALSE]]
  /\ UNCHANGED <<fixed, chain, visits>>

SwapLoaded ==
  /\ OnSwapPage
  /\ \E w \in ui.loads : ui' = [ui EXCEPT !.tokens = held[w], !.loads = @ \ {w}]
  /\ UNCHANGED <<fixed, wallet, chain, flows, visits>>

\* On the transfer page a balance of zero is not taken over.
SendLoaded ==
  /\ OnSendPage
  /\ \E w \in ui.loads :
       ui' = [ui EXCEPT !.loads = @ \ {w},
                        !.balance = IF held[w].fluid = 0 THEN @ ELSE held[w].fluid]
  /\ UNCHANGED <<fixed, wallet, chain, flows, visits>>

LoadFails ==
  /\ \E w \in ui.loads : ui' = [ui EXCEPT !.loads = @ \ {w}]
  /\ UNCHANGED <<fixed, wallet, chain, flows, visits>>

-----------------------------------------------------------------------------
(* The swap page.                                                          *)

Unflowed == UNCHANGED <<fixed, wallet, chain, flows, visits>>

\* What the page shows: on a tablet the cards or the form, otherwise both, and
\* neither behind the modal.
CardsShown == OnSwapPage /\ ~ui.swapping /\ ~(tablet /\ ui.open)
TabletForm == OnSwapPage /\ ~ui.swapping /\ tablet /\ ui.open
FormShown == (TabletForm \/ (CardsShown /\ ~tablet)) /\ ui.asset # None

\* A card is clicked or dropped on the circle.  The search box and the filters,
\* which hide some, and the half second by which the list is late are left out.
Pick(c) ==
  /\ CardsShown
  /\ ui' = [ui EXCEPT !.asset = c, !.open = tablet]
  /\ Unflowed

CancelForm ==
  /\ TabletForm /\ ui' = [ui EXCEPT !.open = FALSE]
  /\ Unflowed

Balance == ui.tokens[ui.asset]

\* What the input may hold: what was typed, or the balance after a press of max.
Inputs == {Units(SwapInput(t)) : t \in Typed} \cup {Balance}

\* snapToValidValue
Snapped(input) == Smaller(input, Balance)

-----------------------------------------------------------------------------
(* Flows.                                                                  *)

Ended == {"mined", "reverted", "declined", "failed"}
Active(f) == f.step \notin Ended \cup {"idle"}

\* The next flow, which takes away the solitude of those under way.
Start(kind, amount, step) ==
  \E i \in Flow :
    /\ flows[i] = Idle /\ \A j \in Flow : j < i => flows[j] # Idle
    /\ flows' = [j \in Flow |->
         IF j = i THEN [step |-> step, kind |-> kind, amount |-> amount, who |-> account, here |-> TRUE,
                        alone |-> \A k \in Flow : ~Active(flows[k]), told |-> FALSE]
         ELSE [flows[j] EXCEPT !.alone = FALSE]]

\* No token of the configuration has a userMintLimit, which would lower this.
AssertCanSwap(amount) == account # NoAccount /\ amount > 0 /\ amount <= Balance

\* A flow of this page that was not answered yet.
Open(f) == f.here /\ ~f.told /\ f.step \notin {"idle", "failed"}

SwapAndRedirect ==
  /\ FormShown
  /\ \E input \in Inputs :
       /\ AssertCanSwap(Snapped(input))
       /\ Start(IF ui.asset = "fluid" THEN "unwrap" ELSE "wrap", Snapped(input), "balance")
  /\ ui' = [ui EXCEPT !.crossed = @ \/ \E i \in Flow : Open(flows[i])]
  /\ UNCHANGED <<fixed, wallet, chain, visits>>

\* An Ethereum signer is of the account of the moment, the others of the press.
Signer(i) == IF network = "evm" THEN account ELSE flows[i].who
CoinOf(kind) == IF kind = "wrap" THEN "base" ELSE "fluid"
Wraps(i) == network = "evm" /\ flows[i].kind = "wrap"

Step(i, from, to) == flows[i].step = from /\ flows' = [flows EXCEPT ![i].step = to]
Asking(i, from, to) ==
  /\ flows[i].step = from /\ Signer(i) # NoAccount
  /\ flows' = [flows EXCEPT ![i].step = to, ![i].who = Signer(i)]

Has(i) == held[Signer(i)][CoinOf(flows[i].kind)]

\* balanceOf; for Solana the balance of the token account, for Sui as many of the
\* coins as have to be merged for the amount.
EvmEnough(i) == network = "evm" /\ Signer(i) # NoAccount /\ Has(i) >= flows[i].amount
SolanaEnough(i) == network = "solana" /\ Has(i) >= flows[i].amount
SuiEnough(i) == network = "sui" /\ Has(i) >= flows[i].amount

CheckBalance(i) ==
  /\ Step(i, "balance", IF Wraps(i) THEN "allowance" ELSE "send")
  /\ EvmEnough(i) \/ SolanaEnough(i) \/ SuiEnough(i)
  /\ UNCHANGED <<fixed, wallet, chain, ui, visits>>

CheckAllowance(i) ==
  /\ Signer(i) # NoAccount
  /\ Step(i, "allowance", IF allow[Signer(i)] >= flows[i].amount THEN "send"
                          ELSE IF allow[Signer(i)] # 0 THEN "zero" ELSE "max")
  /\ UNCHANGED <<fixed, wallet, chain, ui, visits>>

Approve(i) ==
  /\ Asking(i, "zero", "zeroing") \/ Asking(i, "max", "maxing")
  /\ UNCHANGED <<fixed, wallet, chain, ui, visits>>

\* "some tokens (USDT) will revert if approving from nonzero -> nonzero"
ApprovalMined(i) ==
  LET w == flows[i].who
  IN  \/ Step(i, "zeroing", "max") /\ allow' = [allow EXCEPT ![w] = 0]
      \/ Step(i, "maxing", "send") /\ allow[w] = 0 /\ allow' = [allow EXCEPT ![w] = Infinite]
      \/ Step(i, "maxing", "reverted") /\ allow[w] # 0 /\ allow' = allow

Approved(i) == ApprovalMined(i) /\ UNCHANGED <<fixed, wallet, held, ui, visits>>

\* handleRedirect, on the page that started the flow, if it is still open: the
\* modal takes the place of the form, and balances are hidden behind it.
Redirected(i) ==
  IF ~flows[i].here THEN ui
  ELSE IF OnSendPage THEN [ui EXCEPT !.sending = TRUE]
  ELSE IF ui.swapping THEN [ui EXCEPT !.shown = i]
  ELSE [ui EXCEPT !.tokens = Zero, !.swapping = TRUE, !.shown = i]

\* The user signs, and the transaction is on its way.
Submitted(i) ==
  /\ Asking(i, "send", "sent")
  /\ ui' = Redirected(i)
  /\ UNCHANGED <<fixed, wallet, chain, visits>>

\* erc20In, erc20Out or transfer, from the account of the moment
EvmSubmit(i) == network = "evm" /\ Submitted(i)

\* A transaction with the instructions that create the token accounts that are
\* missing, the swap and a fresh blockhash; only who pressed can sign it.
SolanaSubmit(i) == network = "solana" /\ account = flows[i].who /\ Submitted(i)

\* A block that merges the coins, splits the amount off and wraps or unwraps it,
\* in the name of who pressed.
SuiSubmit(i) == network = "sui" /\ account = flows[i].who /\ Submitted(i)

\* Sui's swap returns without a digest when the wallet refuses.
Decline(i) ==
  /\ network = "sui" /\ flows[i].kind # "send"
  /\ Step(i, "send", "declined") /\ ui' = Redirected(i)
  /\ UNCHANGED <<fixed, wallet, chain, visits>>

\* Any call before may be refused or fail, and the form is left as it was.
Fail(i) ==
  /\ flows[i].step \in {"balance", "allowance", "zero", "max", "send"}
  /\ flows' = [flows EXCEPT ![i].step = "failed"]
  /\ UNCHANGED <<fixed, wallet, chain, ui, visits>>

Funded(f) ==
  /\ held[f.who][CoinOf(f.kind)] >= f.amount
  /\ (network = "evm" /\ f.kind = "wrap") => allow[f.who] >= f.amount

Moved(has, f) ==
  [base |-> has.base + (CASE f.kind = "wrap" -> -f.amount [] f.kind = "unwrap" -> f.amount [] OTHER -> 0),
   fluid |-> has.fluid + (IF f.kind = "wrap" THEN f.amount ELSE -f.amount)]

Mine(i) ==
  LET f == flows[i]
  IN  /\ \/ Step(i, "sent", "reverted") /\ ~Funded(f) /\ UNCHANGED chain
         \/ /\ Step(i, "sent", "mined") /\ Funded(f)
            /\ held' = [held EXCEPT ![f.who] = Moved(@, f)]
            /\ allow' = IF Wraps(i) /\ allow[f.who] # Infinite
                        THEN [allow EXCEPT ![f.who] = @ - f.amount] ELSE allow
      /\ UNCHANGED <<fixed, wallet, ui, visits>>

\* What a confirmation that was answered leaves of the error shown before.
ErrorAfter(f, shown) ==
  IF f.step = "reverted" /\ network = "evm" THEN shown ELSE f.step = "declined"

\* Answers have crossed when one comes while the modal is of another flow, or closed.
Crossed(i) == ui.crossed \/ ~ui.swapping \/ ui.shown # i

ConfirmedRetried(i) ==
  /\ flows[i].step \in {"mined", "reverted", "declined"} /\ flows[i].kind # "send" /\ ~flows[i].told
  /\ flows' = IF flows[i].step = "reverted" THEN [flows EXCEPT ![i].step = "send"]
              ELSE [flows EXCEPT ![i].told = TRUE]
  /\ ui' = IF flows[i].here /\ flows[i].step # "reverted" THEN [ui EXCEPT !.confirmed = TRUE] ELSE ui
  /\ UNCHANGED <<fixed, wallet, chain, visits>>

ConfirmedNoFinally(i) ==
  /\ flows[i].step \in {"mined", "reverted", "declined"} /\ flows[i].kind # "send" /\ ~flows[i].told
  /\ flows' = [flows EXCEPT ![i].told = TRUE]
  /\ ui' = IF ~flows[i].here \/ (flows[i].step = "reverted" /\ network = "evm") THEN ui
           ELSE [ui EXCEPT !.confirmed = TRUE, !.error = ErrorAfter(flows[i], @), !.crossed = Crossed(i)]
  /\ UNCHANGED <<fixed, wallet, chain, visits>>

\* confirmTx was answered: an Ethereum receipt of a revert is an error, which is
\* only reported; the others do not tell a revert from a success.
Confirmed(i) ==
  /\ flows[i].step \in {"mined", "reverted", "declined"} /\ flows[i].kind # "send" /\ ~flows[i].told
  /\ flows' = [flows EXCEPT ![i].told = TRUE]
  /\ ui' = IF ~flows[i].here THEN ui
           ELSE [ui EXCEPT !.confirmed = TRUE, !.error = ErrorAfter(flows[i], @), !.crossed = Crossed(i)]
  /\ UNCHANGED <<fixed, wallet, chain, visits>>

\* Solana and Sui are waited for only so long.
GivenUp(i) ==
  /\ network # "evm" /\ flows[i].step = "sent" /\ flows[i].kind # "send" /\ ~flows[i].told
  /\ flows' = [flows EXCEPT ![i].told = TRUE]
  /\ ui' = IF flows[i].here THEN [ui EXCEPT !.confirmed = TRUE, !.crossed = Crossed(i)] ELSE ui
  /\ UNCHANGED <<fixed, wallet, chain, visits>>

-----------------------------------------------------------------------------
(* The modal of the swap page.                                             *)

ModalShown == OnSwapPage /\ ui.swapping /\ ui.asset # None

CloseModalAlone ==
  /\ ModalShown
  /\ ui' = Reload([ui EXCEPT !.swapping = FALSE, !.shown = 0], account)
  /\ Unflowed

\* confirmed is not taken back.
CloseModal ==
  /\ ModalShown
  /\ ui' = Reload([ui EXCEPT !.swapping = FALSE, !.shown = 0, !.error = FALSE], account)
  /\ Unflowed

\* What the modal says of the transaction it links to.
Says ==
  CASE ~ModalShown -> "nothing"
    [] ModalShown /\ ~ui.confirmed -> "awaiting confirmation"
    [] ModalShown /\ ui.confirmed /\ ui.error -> "something went wrong"
    [] OTHER -> "created and added to your wallet"

-----------------------------------------------------------------------------
(* The transfer page.                                                      *)

\* What the page shows: the parts of the form one after the other, or that it is
\* happening.
SendShows ==
  IF ~OnSendPage THEN {}
  ELSE IF ui.sending THEN {"SEND ANOTHER", "View Transactions"}
  ELSE {"Select your asset"} \cup (IF ui.asset = None THEN {} ELSE {"Sending details", "Send Assets"})

\* The asset is chosen with the balance it has now; a later one does not reach it.
SelectAsset ==
  /\ "Select your asset" \in SendShows
  /\ ui' = [ui EXCEPT !.asset = "fluid", !.remaining = ui.balance]
  /\ Unflowed

\* The effects that set validAmount and canSend, for a recipient that is an
\* address: some of the balance must remain.
CanSend(amount) == amount > 0 /\ ui.remaining - amount > 0

HandleSubmit ==
  /\ "Send Assets" \in SendShows
  /\ network = "evm" /\ account # NoAccount
  /\ \E t \in Typed :
       CanSend(Units(SendInput(t))) /\ Start("send", Units(SendInput(t)), "send")
  /\ UNCHANGED <<fixed, wallet, chain, ui, visits>>

\* Another page is opened, or this one anew: nothing of it is kept.
Visit ==
  /\ visits < MaxVisits /\ visits' = visits + 1
  /\ ui' \in Opened(account)
  /\ flows' = [i \in Flow |-> [flows[i] EXCEPT !.here = FALSE]]
  /\ UNCHANGED <<fixed, wallet, chain>>

-----------------------------------------------------------------------------
PageStep ==
  \/ \E a \in Account \cup {NoAccount} : WalletEvent(a)
  \/ SwapLoaded \/ SendLoaded \/ LoadFails
  \/ CancelForm \/ SwapAndRedirect \/ CloseModal \/ SelectAsset \/ HandleSubmit \/ Visit
  \/ \E c \in Coin : Pick(c)

FlowStep(i) ==
  \/ CheckBalance(i) \/ CheckAllowance(i) \/ Approve(i) \/ EvmSubmit(i) \/ SolanaSubmit(i) \/ SuiSubmit(i) \/ Decline(i) \/ Fail(i)
  \/ Approved(i) \/ Mine(i) \/ Confirmed(i) \/ GivenUp(i)

Next == PageStep \/ \E i \in Flow : FlowStep(i)

\* The chain gets to every transaction, and confirmTx is answered.
Spec == Init /\ [][Next]_vars /\ \A i \in Flow : WF_vars(Mine(i)) /\ WF_vars(Confirmed(i))

-----------------------------------------------------------------------------
(* Properties.                                                             *)

OrderOf(f) ==
  IF f.step = "idle" THEN [state |-> "none"]
  ELSE IF f.step \in Ended THEN [state |-> "over"]
  ELSE [state |-> "placed", kind |-> f.kind, amount |-> f.amount]

Orders == INSTANCE Conversions WITH
  Order <- Flow, order <- [i \in Flow |-> OrderOf(flows[i])], held <- held

\* Every press converts or sends what the form said at most once, whatever else
\* is pressed, switched or closed while the wallet and the chain take their time.
FilledAtMostOnce == Orders!Spec

\* A swap whose balance was checked is not refused by the token or the chain
\* unless another flow or another account came in between: the approval is
\* there in time, and was raised from zero.
RevertsHaveCauses ==
  \A i \in Flow : (flows[i].step = "reverted" /\ flows[i].kind # "send") => ~flows[i].alone

\* The page says that a swap went wrong only when one of its swaps did.
ErrorMeansFailed ==
  (OnSwapPage /\ ui.error) =>
    \E i \in Flow : flows[i].here /\ flows[i].told /\ flows[i].step \in {"declined", "reverted"}

\* As long as every swap of the visit was answered before the next was begun, and
\* while the modal was about it, the error is of the swap that the modal shows: it
\* is not kept for the next.  Where answers crossed the code shows one swap the
\* error of another.
ErrorIsOfShown ==
  (OnSwapPage /\ ui.error /\ ~ui.crossed) =>
    \E i \in Flow : /\ ui.swapping /\ ui.shown = i
                     /\ flows[i].here /\ flows[i].told /\ flows[i].step = "declined"

\* What goes wrong goes wrong for a reason, and is said of what went wrong
\* (swap page, transaction.ts, useFluidToken and the error modal).
FailuresAreTrue == RevertsHaveCauses /\ ErrorMeansFailed /\ ErrorIsOfShown

\* The first swap of a visit ends in the modal saying something of it.
SwapEndsWait ==
  \A i \in Flow :
    (ModalShown /\ ui.shown = i /\ flows[i].here)
      ~> (~ModalShown \/ ui.shown # i \/ ui.confirmed)
=============================================================================
