----------------------------- MODULE SwapProofs -----------------------------
(***************************************************************************)
(* The pages that move tokens carry out what was ordered at most once, and *)
(* what they call a failure is one with a reason, for any accounts, flows, *)
(* balances, inputs and facades.  The inductive invariant is in parts: the *)
(* types; what the steps of a flow presuppose (FlowsOK); that nobody has   *)
(* more than an unlimited allowance covers (Means); that a flow which      *)
(* runs alone still has what its checks found (Solitude); and that, until  *)
(* answers cross, the modal is about the one that waits (Uncrossed).       *)
(*                                                                         *)
(* What the other pages show is proved after it, for any accounts, rows,   *)
(* bounds and orders of answers: the dialogs of the frame yield, nobody is *)
(* told twice, and a table of one's own is one's own.  Of each there is an *)
(* inductive invariant (FrameInv, HintInv, StreamInv, TableInv); none of   *)
(* them moves while another does.                                          *)
(***************************************************************************)
EXTENDS Swap, MCPages, FiniteSetTheorems, SequenceTheorems, WellFoundedInduction, TLAPS

Fund == [base : Nat, fluid : Nat]

Stage ==
  {"idle", "balance", "allowance", "zero", "zeroing", "max", "maxing", "send", "sent",
   "mined", "reverted", "declined", "failed"}

Flows ==
  [step : Stage, kind : {"none", "wrap", "unwrap", "send"}, amount : Nat,
   who : Account \cup {NoAccount}, here : BOOLEAN, alone : BOOLEAN, told : BOOLEAN]

SwapPage ==
  [page : {"fluidify"}, tokens : Fund, asset : {"none", "base", "fluid"}, open : BOOLEAN,
   swapping : BOOLEAN, shown : Nat, confirmed : BOOLEAN, error : BOOLEAN, crossed : BOOLEAN,
   loads : SUBSET Account]

SendPage ==
  [page : {"send"}, balance : Nat, asset : {"none", "fluid"}, remaining : Nat,
   sending : BOOLEAN, loads : SUBSET Account]

TypeOK ==
  /\ network \in Networks /\ tablet \in BOOLEAN /\ account \in Account \cup {NoAccount}
  /\ held \in [Account -> Fund] /\ allow \in [Account -> Nat]
  /\ flows \in [Flow -> Flows]
  /\ ui \in SwapPage \cup SendPage

\* Who signed is known, allowances are asked for by wraps on Ethereum only,
\* and a flow is here on the page it was started on.
FlowOK(f, place) ==
  /\ f.step # "idle" => f.kind # "none" /\ f.amount > 0
  /\ f.step \in {"zeroing", "maxing", "sent"} => f.who \in Account
  /\ f.step \in {"allowance", "zero", "zeroing", "max", "maxing"} =>
       network = "evm" /\ f.kind = "wrap"
  /\ f.here => f.kind # "none" /\ (place = "send" <=> f.kind = "send")

FlowsOK == \A i \in Flow : FlowOK(flows[i], ui.page)

IInv == TypeOK /\ FlowsOK

-----------------------------------------------------------------------------
(* The pages.                                                              *)

\* What is typed is a number of the token's smallest units.
LEMMA UnitsAreInteger ==
  ASSUME NEW t \in Typed
  PROVE  Units(SwapInput(t)) \in Int /\ Units(SendInput(t)) \in Int
<1>1. t \in [whole : Nat, digits : Nat, places : Nat] /\ Decimals \in Nat
  BY SwapAssumption
<1> DEFINE p == Smaller(t.places, Decimals)
           d == t.digits % Power(Decimals)
           e == t.digits \div Power(t.places - p)
<1>2. p \in Nat /\ Decimals - p \in Nat /\ t.places - p \in Nat
  BY <1>1 DEF Smaller
<1>3. \A n \in Nat : Power(n) \in Int
  BY DEF Power
<1>4. d \in Int /\ e \in Int
  BY <1>1, <1>2, <1>3, PowersArePositive
<1>5. SwapInput(t) = [[t EXCEPT !.digits = d] EXCEPT !.places = p]
  BY DEF SwapInput
<1>6. SendInput(t) = [[t EXCEPT !.digits = e] EXCEPT !.places = p]
  BY DEF SendInput
<1> HIDE DEF d, e, p
<1>7. \A x, y \in Int : x * y \in Int /\ x + y \in Int
  OBVIOUS
<1>8. /\ SwapInput(t).whole = t.whole /\ SwapInput(t).digits = d /\ SwapInput(t).places = p
      /\ SendInput(t).whole = t.whole /\ SendInput(t).digits = e /\ SendInput(t).places = p
  BY <1>1, <1>5, <1>6
<1>9. /\ t.whole * Power(Decimals) \in Int
      /\ d * Power(Decimals - p) \in Int /\ e * Power(Decimals - p) \in Int
  BY <1>1, <1>2, <1>3, <1>4, <1>7
<1> HIDE DEF Power
<1> QED BY <1>7, <1>8, <1>9 DEF Units

LEMMA OpenedType ==
  ASSUME TypeOK, NEW u \in Opened(account)
  PROVE  /\ u \in SwapPage \cup SendPage
         /\ u.page = "fluidify" => ~u.error /\ ~u.swapping
<1>1. Loads(account, FALSE) \in SUBSET Account
  BY DEF Loads, TypeOK
<1>2. \A d \in Deeplinks : d \in {"none", "base", "fluid"}
  BY SwapAssumption DEF Deeplinks, None
<1>3. CASE \E d \in Deeplinks : u = Fluidify(account, d)
  <2>1. PICK d \in Deeplinks : u = Fluidify(account, d)
    BY <1>3
  <2> DEFINE o == tablet /\ d # None
             l == Loads(account, FALSE)
  <2>2. o \in BOOLEAN /\ Zero \in Fund
    BY DEF Zero, Fund
  <2>3. u = [page |-> "fluidify", tokens |-> Zero, asset |-> d, open |-> o, swapping |-> FALSE,
             shown |-> 0, confirmed |-> FALSE, error |-> FALSE, crossed |-> FALSE, loads |-> l]
    BY <2>1 DEF Fluidify
  <2>4. d \in {"none", "base", "fluid"} /\ l \in SUBSET Account
    BY <1>1, <1>2
  <2> HIDE DEF o, l
  <2> QED BY <2>2, <2>3, <2>4 DEF SwapPage
<1>4. CASE \E d \in Deeplinks \ {"base"} : u = Send(account, d)
  <2>1. PICK d \in Deeplinks \ {"base"} : u = Send(account, d)
    BY <1>4
  <2> DEFINE l == Loads(account, FALSE)
  <2>2. u = [page |-> "send", balance |-> 0, asset |-> d, remaining |-> 0, sending |-> FALSE,
             loads |-> l]
    BY <2>1 DEF Send
  <2>3. d \in {"none", "fluid"} /\ l \in SUBSET Account
    BY <1>1, <1>2
  <2> HIDE DEF l
  <2> QED BY <2>2, <2>3 DEF SendPage
<1> QED BY <1>3, <1>4 DEF Opened

\* The effects of a page leave it the page it is, with the error it shows.
Same(u, v) ==
  /\ v \in SwapPage \cup SendPage /\ v.page = u.page
  /\ u.page = "fluidify" => (v.error => u.error)

\* Nor do they touch the modal, unless they close it.
Steady(u, v) ==
  u.page = "fluidify" =>
    /\ v.crossed = u.crossed
    /\ \/ ~v.swapping /\ ~v.error
       \/ v.swapping = u.swapping /\ v.shown = u.shown /\ v.error = u.error

LEMMA ReloadType ==
  ASSUME NEW u \in SwapPage, NEW a \in Account \cup {NoAccount}
  PROVE  /\ Same(u, Reload(u, a)) /\ Reload(u, a).page = "fluidify"
         /\ Reload(u, a).swapping = u.swapping /\ Reload(u, a).shown = u.shown
         /\ Reload(u, a).error = u.error /\ Reload(u, a).crossed = u.crossed
<1>1. Loads(a, FALSE) \in SUBSET Account /\ Zero \in Fund
  BY DEF Loads, Zero, Fund
<1> QED BY <1>1 DEF Reload, Same, SwapPage

LEMMA PagesDiffer ==
  /\ \A u \in SwapPage : u.page = "fluidify"
  /\ \A u \in SendPage : u.page = "send"
BY DEF SwapPage, SendPage

\* The steps of a page alone.
LEMMA PageEffects ==
  ASSUME TypeOK,
         SwapLoaded \/ SendLoaded \/ LoadFails \/ CancelForm \/ CloseModal \/ SelectAsset
           \/ \E c \in Coin : Pick(c)
  PROVE  /\ Same(ui, ui') /\ Steady(ui, ui')
         /\ UNCHANGED <<fixed, wallet, chain, flows, visits>>
<1>0. UNCHANGED <<fixed, wallet, chain, flows, visits>>
  BY DEF SwapLoaded, SendLoaded, LoadFails, CancelForm, CloseModal, SelectAsset, Pick, Unflowed
<1>1. /\ ui \in SwapPage \cup SendPage /\ held \in [Account -> Fund] /\ tablet \in BOOLEAN
      /\ account \in Account \cup {NoAccount}
  BY DEF TypeOK
<1>2. CASE SwapLoaded
  <2>1. PICK w \in ui.loads : ui' = [ui EXCEPT !.tokens = held[w], !.loads = @ \ {w}]
    BY <1>2 DEF SwapLoaded
  <2>2. ui \in SwapPage
    BY <1>1, <1>2, PagesDiffer DEF SwapLoaded, OnSwapPage
  <2>3. held[w] \in Fund
    BY <1>1, <2>2 DEF SwapPage
  <2> QED BY <1>0, <2>1, <2>2, <2>3 DEF Same, Steady, SwapPage
<1>3. CASE SendLoaded
  <2>1. PICK w \in ui.loads :
          ui' = [ui EXCEPT !.loads = @ \ {w},
                           !.balance = IF held[w].fluid = 0 THEN @ ELSE held[w].fluid]
    BY <1>3 DEF SendLoaded
  <2>2. ui \in SendPage
    BY <1>1, <1>3, PagesDiffer DEF SendLoaded, OnSendPage
  <2>3. held[w] \in Fund
    BY <1>1, <2>2 DEF SendPage
  <2>4. held[w].fluid \in Nat
    BY <2>3 DEF Fund
  <2> QED BY <1>0, <2>1, <2>2, <2>4 DEF Same, Steady, SendPage
<1>4. CASE LoadFails
  <2>1. PICK w \in ui.loads : ui' = [ui EXCEPT !.loads = ui.loads \ {w}]
    BY <1>4 DEF LoadFails
  <2>2. CASE ui \in SwapPage
    BY <1>0, <2>1, <2>2 DEF Same, Steady, SwapPage
  <2>3. CASE ui \in SendPage
    BY <1>0, <2>1, <2>3 DEF Same, Steady, SendPage
  <2> QED BY <1>1, <2>2, <2>3
<1>5. CASE CancelForm
  <2>1. ui \in SwapPage /\ ui' = [ui EXCEPT !.open = FALSE]
    BY <1>1, <1>5, PagesDiffer DEF CancelForm, TabletForm, OnSwapPage
  <2> QED BY <1>0, <2>1 DEF Same, Steady, SwapPage
<1>6. CASE CloseModal
  <2> DEFINE u == [[[ui EXCEPT !.swapping = FALSE] EXCEPT !.shown = 0] EXCEPT !.error = FALSE]
  <2>1. ui \in SwapPage /\ ui' = Reload(u, account)
    BY <1>1, <1>6, PagesDiffer DEF CloseModal, ModalShown, OnSwapPage
  <2>2. u \in SwapPage /\ ~u.error /\ ~u.swapping /\ u.crossed = ui.crossed
    BY <2>1 DEF SwapPage
  <2> HIDE DEF u
  <2>3. Same(u, ui') /\ ui'.page = "fluidify" /\ ~ui'.swapping /\ ~ui'.error /\ ui'.crossed = ui.crossed
    BY <1>1, <2>1, <2>2, ReloadType
  <2> QED BY <1>0, <2>1, <2>2, <2>3, PagesDiffer DEF Same, Steady
<1>7. CASE SelectAsset
  <2>1. ui \in SendPage /\ ui' = [ui EXCEPT !.asset = "fluid", !.remaining = ui.balance]
    BY <1>1, <1>7, PagesDiffer DEF SelectAsset, SendShows, OnSendPage
  <2> QED BY <1>0, <2>1 DEF Same, Steady, SendPage
<1>8. CASE \E c \in Coin : Pick(c)
  <2>1. PICK c \in Coin : ui' = [ui EXCEPT !.asset = c, !.open = tablet]
    BY <1>8 DEF Pick
  <2>2. ui \in SwapPage
    BY <1>1, <1>8, PagesDiffer DEF Pick, CardsShown, OnSwapPage
  <2> QED BY <1>0, <1>1, <2>1, <2>2 DEF Same, Steady, SwapPage, Coin
<1> QED BY <1>2, <1>3, <1>4, <1>5, <1>6, <1>7, <1>8

-----------------------------------------------------------------------------
(* The steps of a flow.                                                    *)

\* Flow i is at s, signed by w, and nothing else is different.
Advanced(i, s, w) ==
  /\ flows' \in [Flow -> Flows]
  /\ \A j \in Flow : j # i => flows'[j] = flows[j]
  /\ flows'[i].step = s /\ flows'[i].who = w
  /\ flows'[i].kind = flows[i].kind /\ flows'[i].amount = flows[i].amount
  /\ flows'[i].here = flows[i].here /\ flows'[i].alone = flows[i].alone
  /\ flows'[i].told = flows[i].told

LEMMA StepAdvances ==
  ASSUME TypeOK, NEW i \in Flow, NEW s \in Stage, flows' = [flows EXCEPT ![i].step = s]
  PROVE  Advanced(i, s, flows[i].who)
<1> DEFINE f == flows[i]
           g == [f EXCEPT !.step = s]
<1>1. flows \in [Flow -> Flows] /\ f \in Flows
  BY DEF TypeOK
<1>2. flows' = [flows EXCEPT ![i] = g]
  OBVIOUS
<1>3. /\ g \in Flows /\ g.step = s /\ g.who = f.who /\ g.kind = f.kind /\ g.amount = f.amount
      /\ g.here = f.here /\ g.alone = f.alone /\ g.told = f.told
  BY <1>1 DEF Flows
<1> HIDE DEF g
<1>4. flows' \in [Flow -> Flows] /\ flows'[i] = g /\ \A j \in Flow : j # i => flows'[j] = flows[j]
  BY <1>1, <1>2, <1>3
<1> QED BY <1>3, <1>4 DEF Advanced

LEMMA AskingAdvances ==
  ASSUME TypeOK, NEW i \in Flow, NEW s \in Stage, NEW from, Asking(i, from, s)
  PROVE  /\ flows[i].step = from
         /\ Signer(i) # NoAccount /\ Signer(i) \in Account /\ Advanced(i, s, Signer(i))
<1> DEFINE f == flows[i]
           w == Signer(i)
           g == [[f EXCEPT !.step = s] EXCEPT !.who = w]
<1>1. flows \in [Flow -> Flows] /\ f \in Flows
  BY DEF TypeOK
<1>2. w # NoAccount /\ w \in Account
  BY <1>1 DEF Asking, Signer, TypeOK, Flows
<1> HIDE DEF w
<1>3. flows' = [flows EXCEPT ![i] = g]
  BY <1>1 DEF Asking, w
<1>4. /\ g \in Flows /\ g.step = s /\ g.who = w /\ g.kind = f.kind /\ g.amount = f.amount
      /\ g.here = f.here /\ g.alone = f.alone /\ g.told = f.told
  BY <1>1, <1>2 DEF Flows
<1> HIDE DEF g
<1>5. flows' \in [Flow -> Flows] /\ flows'[i] = g /\ \A j \in Flow : j # i => flows'[j] = flows[j]
  BY <1>1, <1>3, <1>4
<1>6. Advanced(i, s, w)
  BY <1>4, <1>5 DEF Advanced
<1> QED BY <1>2, <1>6 DEF w, Asking

\* The answer to a flow's confirmation is told on its page.
LEMMA TellingEffect ==
  ASSUME TypeOK, NEW i \in Flow, flows' = [flows EXCEPT ![i].told = TRUE]
  PROVE  /\ flows' \in [Flow -> Flows]
         /\ \A j \in Flow : j # i => flows'[j] = flows[j]
         /\ flows'[i].told
         /\ flows'[i].step = flows[i].step /\ flows'[i].who = flows[i].who
         /\ flows'[i].kind = flows[i].kind /\ flows'[i].amount = flows[i].amount
         /\ flows'[i].here = flows[i].here /\ flows'[i].alone = flows[i].alone
<1> DEFINE f == flows[i]
           g == [f EXCEPT !.told = TRUE]
<1>1. flows \in [Flow -> Flows] /\ f \in Flows
  BY DEF TypeOK
<1>2. flows' = [flows EXCEPT ![i] = g]
  OBVIOUS
<1>3. /\ g \in Flows /\ g.step = f.step /\ g.who = f.who /\ g.kind = f.kind
      /\ g.amount = f.amount /\ g.here = f.here /\ g.alone = f.alone /\ g.told
  BY <1>1 DEF Flows
<1> HIDE DEF g
<1>4. flows' \in [Flow -> Flows] /\ flows'[i] = g /\ \A j \in Flow : j # i => flows'[j] = flows[j]
  BY <1>1, <1>2, <1>3
<1> QED BY <1>3, <1>4

\* The page as it is after a transaction was sent.
LEMMA RedirectedType ==
  ASSUME TypeOK, NEW i \in Flow
  PROVE  Same(ui, Redirected(i))
<1>1. i \in Nat /\ Zero \in Fund /\ ui \in SwapPage \cup SendPage
  BY SwapAssumption DEF Flow, Zero, Fund, TypeOK
<1>2. CASE ui \in SwapPage
  BY <1>1, <1>2 DEF Redirected, Same, SwapPage, OnSendPage
<1>3. CASE ui \in SendPage
  BY <1>1, <1>3 DEF Redirected, Same, SendPage, OnSendPage
<1> QED BY <1>1, <1>2, <1>3

\* What the steps of a flow do to it: the stage it was at and is at, who
\* signed, and to the chain and the page.
Quiet == UNCHANGED <<fixed, wallet, visits>>

CheckedStep(i) ==
  \/ /\ flows[i].step = "balance" /\ Advanced(i, IF Wraps(i) THEN "allowance" ELSE "send", flows[i].who)
     /\ EvmEnough(i) \/ SolanaEnough(i) \/ SuiEnough(i)
  \/ /\ flows[i].step = "allowance" /\ Signer(i) # NoAccount
     /\ Advanced(i, IF allow[Signer(i)] >= flows[i].amount THEN "send"
                    ELSE IF allow[Signer(i)] # 0 THEN "zero" ELSE "max", flows[i].who)

ApprovingStep(i) ==
  /\ Signer(i) \in Account
  /\ \/ flows[i].step = "zero" /\ Advanced(i, "zeroing", Signer(i))
     \/ flows[i].step = "max" /\ Advanced(i, "maxing", Signer(i))

ApprovedStep(i) ==
  LET w == flows[i].who IN
  \/ /\ flows[i].step = "zeroing" /\ Advanced(i, "max", w) /\ allow' = [allow EXCEPT ![w] = 0]
  \/ /\ flows[i].step = "maxing" /\ Advanced(i, "send", w)
     /\ allow[w] = 0 /\ allow' = [allow EXCEPT ![w] = Infinite]
  \/ /\ flows[i].step = "maxing" /\ Advanced(i, "reverted", w) /\ allow[w] # 0 /\ allow' = allow

SubmittedStep(i) ==
  /\ flows[i].step = "send" /\ Signer(i) \in Account /\ Advanced(i, "sent", Signer(i))
  /\ network = "evm" \/ account = flows[i].who

DroppedStep(i) ==
  \/ /\ flows[i].step \in {"balance", "allowance", "zero", "max", "send"}
     /\ Advanced(i, "failed", flows[i].who)
  \/ flows[i].step = "send" /\ Advanced(i, "declined", flows[i].who)

MinedStep(i) ==
  LET f == flows[i] IN
  \/ /\ f.step = "sent" /\ Advanced(i, "reverted", f.who) /\ ~Funded(f) /\ UNCHANGED chain
  \/ /\ f.step = "sent" /\ Advanced(i, "mined", f.who) /\ Funded(f)
     /\ held' = [held EXCEPT ![f.who] = Moved(held[f.who], f)]
     /\ allow' = IF Wraps(i) /\ allow[f.who] # Infinite
                 THEN [allow EXCEPT ![f.who] = allow[f.who] - f.amount] ELSE allow

ToldStep(i) ==
  /\ flows' = [flows EXCEPT ![i].told = TRUE]
  /\ flows[i].kind # "send" /\ ~flows[i].told
  /\ \/ ~flows[i].here /\ ui' = ui
     \/ flows[i].here /\ ui' = [ui EXCEPT !.confirmed = TRUE, !.crossed = Crossed(i)]
     \/ /\ flows[i].here /\ flows[i].step \in {"mined", "reverted", "declined"}
        /\ ui' = [ui EXCEPT !.confirmed = TRUE, !.error = ErrorAfter(flows[i], ui.error),
                            !.crossed = Crossed(i)]

LEMMA FlowSteps ==
  ASSUME TypeOK, NEW i \in Flow, FlowStep(i)
  PROVE  /\ Quiet
         /\ \/ CheckedStep(i) /\ UNCHANGED <<chain, ui>>
            \/ ApprovingStep(i) /\ UNCHANGED <<chain, ui>>
            \/ ApprovedStep(i) /\ UNCHANGED <<held, ui>>
            \/ SubmittedStep(i) /\ UNCHANGED chain /\ ui' = Redirected(i)
            \/ /\ DroppedStep(i) /\ UNCHANGED chain
               /\ ui' = ui \/ (ui' = Redirected(i) /\ flows[i].step = "send")
            \/ MinedStep(i) /\ UNCHANGED ui
            \/ ToldStep(i) /\ UNCHANGED chain
<1> USE DEF Stage, Step
<1>1. CASE CheckBalance(i)
  BY <1>1, StepAdvances DEF CheckBalance, CheckedStep, Quiet
<1>2. CASE CheckAllowance(i)
  BY <1>2, StepAdvances DEF CheckAllowance, CheckedStep, Quiet
<1>3. CASE Approve(i)
  BY <1>3, AskingAdvances DEF Approve, ApprovingStep, Quiet
<1>4. CASE EvmSubmit(i)
  BY <1>4, AskingAdvances DEF EvmSubmit, Submitted, SubmittedStep, Quiet
<1>5. CASE SolanaSubmit(i)
  BY <1>5, AskingAdvances DEF SolanaSubmit, Submitted, SubmittedStep, Quiet
<1>6. CASE SuiSubmit(i)
  BY <1>6, AskingAdvances DEF SuiSubmit, Submitted, SubmittedStep, Quiet
<1>7. CASE Decline(i)
  BY <1>7, StepAdvances DEF Decline, DroppedStep, Quiet
<1>8. CASE Fail(i)
  BY <1>8, StepAdvances DEF Fail, DroppedStep, Quiet
<1>9. CASE Approved(i)
  BY <1>9, StepAdvances DEF Approved, ApprovalMined, ApprovedStep, Quiet
<1>10. CASE Mine(i)
  BY <1>10, StepAdvances DEF Mine, MinedStep, Quiet
<1>11. CASE Confirmed(i)
  BY <1>11 DEF Confirmed, ToldStep, Quiet
<1>12. CASE GivenUp(i)
  BY <1>12 DEF GivenUp, ToldStep, Quiet
<1> QED BY <1>1, <1>2, <1>3, <1>4, <1>5, <1>6, <1>7, <1>8, <1>9, <1>10, <1>11, <1>12 DEF FlowStep

\* A step is an answer to what was sent or is over, or takes the flow on.
LEMMA FlowTold ==
  ASSUME TypeOK, NEW i \in Flow, FlowStep(i), ToldStep(i)
  PROVE  flows[i].step \in {"sent", "mined", "reverted", "declined"}
<1>1. flows'[i].told /\ ~flows[i].told
  BY TellingEffect DEF ToldStep
<1> USE DEF Stage, Step
<1>2. ASSUME NEW s, NEW w, Advanced(i, s, w)  PROVE FALSE
  BY <1>1, <1>2 DEF Advanced
<1>3. ~CheckedStep(i) /\ ~ApprovingStep(i) /\ ~SubmittedStep(i) /\ ~DroppedStep(i)
  BY <1>2 DEF CheckedStep, ApprovingStep, SubmittedStep, DroppedStep
<1>4. ~ApprovedStep(i) /\ ~MinedStep(i)
  BY <1>2 DEF ApprovedStep, MinedStep
<1>5. Confirmed(i) \/ GivenUp(i)
  <2>1. CASE CheckBalance(i)
    BY <1>3, <2>1, StepAdvances DEF CheckBalance, CheckedStep
  <2>2. CASE CheckAllowance(i)
    BY <1>3, <2>2, StepAdvances DEF CheckAllowance, CheckedStep
  <2>3. CASE Approve(i)
    BY <1>3, <2>3, AskingAdvances DEF Approve, ApprovingStep
  <2>4. CASE EvmSubmit(i) \/ SolanaSubmit(i) \/ SuiSubmit(i)
    BY <1>2, <2>4, AskingAdvances DEF EvmSubmit, SolanaSubmit, SuiSubmit, Submitted
  <2>5. CASE Decline(i) \/ Fail(i)
    BY <1>2, <2>5, StepAdvances DEF Decline, Fail
  <2>6. CASE Approved(i)
    BY <1>4, <2>6, StepAdvances DEF Approved, ApprovalMined, ApprovedStep
  <2>7. CASE Mine(i)
    BY <1>2, <2>7, StepAdvances DEF Mine
  <2> QED BY <2>1, <2>2, <2>3, <2>4, <2>5, <2>6, <2>7 DEF FlowStep
<1> QED BY <1>5 DEF Confirmed, GivenUp

LEMMA FlowMoves ==
  ASSUME TypeOK, NEW i \in Flow, FlowStep(i), ~ToldStep(i)
  PROVE  \E s, w :
           /\ Advanced(i, s, w)
           /\ flows[i].step \notin {"idle", "failed", "declined", "mined", "reverted"}
           /\ flows[i].step = "sent" => s \in {"mined", "reverted"}
           /\ ui' = ui \/ (ui' = Redirected(i) /\ flows[i].step = "send")
<1>1. CASE CheckedStep(i) /\ UNCHANGED ui
  BY <1>1 DEF CheckedStep
<1>2. CASE ApprovingStep(i) /\ UNCHANGED ui
  BY <1>2 DEF ApprovingStep
<1>3. CASE ApprovedStep(i) /\ UNCHANGED ui
  BY <1>3 DEF ApprovedStep
<1>4. CASE SubmittedStep(i) /\ ui' = Redirected(i)
  BY <1>4 DEF SubmittedStep
<1>5. CASE DroppedStep(i) /\ (ui' = ui \/ (ui' = Redirected(i) /\ flows[i].step = "send"))
  BY <1>5 DEF DroppedStep
<1>6. CASE MinedStep(i) /\ UNCHANGED ui
  BY <1>6 DEF MinedStep
<1> QED BY <1>1, <1>2, <1>3, <1>4, <1>5, <1>6, FlowSteps

-----------------------------------------------------------------------------
(* The types, and what the steps of a flow presuppose, are preserved.      *)

\* What a mined transaction leaves of an account's balances: less or as much.
LEMMA MovedFunds ==
  ASSUME NEW f \in Flows, f.kind # "none", NEW has \in Fund, has[CoinOf(f.kind)] >= f.amount
  PROVE  /\ Moved(has, f) \in Fund
         /\ Moved(has, f).base + Moved(has, f).fluid <= has.base + has.fluid
<1>1. has.base \in Nat /\ has.fluid \in Nat /\ f.amount \in Nat
  BY DEF Fund, Flows
<1>2. CASE f.kind = "wrap"
  BY <1>1, <1>2 DEF Moved, CoinOf, Fund
<1>3. CASE f.kind = "unwrap"
  BY <1>1, <1>3 DEF Moved, CoinOf, Fund
<1>4. CASE f.kind = "send"
  BY <1>1, <1>4 DEF Moved, CoinOf, Fund
<1> QED BY <1>2, <1>3, <1>4 DEF Flows

LEMMA FlowFrame ==
  ASSUME IInv, NEW i \in Flow, NEW s, NEW w, Advanced(i, s, w), Quiet, Same(ui, ui'),
         held' \in [Account -> Fund], allow' \in [Account -> Nat],
         flows[i].step # "idle",
         s \in {"zeroing", "maxing", "sent"} => w \in Account,
         s \in {"allowance", "zero", "zeroing", "max", "maxing"} =>
           network = "evm" /\ flows[i].kind = "wrap"
  PROVE  IInv'
<1>1. TypeOK'
  BY DEF IInv, TypeOK, Advanced, Quiet, Same, fixed, wallet
<1>2. ui'.page = ui.page /\ network' = network
  BY DEF Same, Quiet, fixed
<1>3. \A j \in Flow : FlowOK(flows[j], ui.page)
  BY DEF IInv, FlowsOK
<1>4. \A j \in Flow : j # i => flows'[j] = flows[j]
  BY DEF Advanced
<1>5. FlowOK(flows'[i], ui.page)
  BY <1>3 DEF Advanced, FlowOK
<1>6. \A j \in Flow : FlowOK(flows'[j], ui'.page)
  BY <1>2, <1>3, <1>4, <1>5
<1>7. FlowsOK'
  BY <1>2, <1>6 DEF FlowsOK, FlowOK
<1> QED BY <1>1, <1>7 DEF IInv

\* What an answer does to the page of its flow.
LEMMA TellingPage ==
  ASSUME IInv, NEW i \in Flow, ToldStep(i), flows[i].here
  PROVE  /\ ui \in SwapPage /\ ui' \in SwapPage /\ ui'.page = ui.page
         /\ ui'.swapping = ui.swapping /\ ui'.shown = ui.shown
         /\ ui'.crossed = Crossed(i)
         /\ ui'.error \in {ui.error, flows[i].step = "declined"}
<1>1. TypeOK /\ FlowOK(flows[i], ui.page)
  BY DEF IInv, FlowsOK
<1>2. ui \in SwapPage
  BY <1>1 DEF ToldStep, FlowOK, TypeOK, SendPage
<1> DEFINE e == ErrorAfter(flows[i], ui.error)
           c == Crossed(i)
<1>3. c \in BOOLEAN /\ e \in BOOLEAN /\ e \in {ui.error, flows[i].step = "declined"}
  BY <1>2 DEF Crossed, ErrorAfter, SwapPage
<1> HIDE DEF e, c
<1>4. \/ ui' = [ui EXCEPT !.confirmed = TRUE, !.crossed = c]
      \/ ui' = [ui EXCEPT !.confirmed = TRUE, !.error = e, !.crossed = c]
  BY DEF ToldStep, e, c
<1>5. CASE ui' = [ui EXCEPT !.confirmed = TRUE, !.crossed = c]
  BY <1>2, <1>3, <1>5 DEF SwapPage, c
<1>6. CASE ui' = [ui EXCEPT !.confirmed = TRUE, !.error = e, !.crossed = c]
  BY <1>2, <1>3, <1>6 DEF SwapPage, c
<1> QED BY <1>4, <1>5, <1>6

LEMMA SameAsBefore == ASSUME TypeOK  PROVE Same(ui, ui)
BY DEF TypeOK, Same

LEMMA StepFlow ==
  ASSUME IInv, NEW i \in Flow, FlowStep(i)
  PROVE  IInv'
<1> DEFINE f == flows[i]
<1>1. /\ TypeOK /\ FlowOK(f, ui.page) /\ f \in Flows /\ Quiet
      /\ held \in [Account -> Fund] /\ allow \in [Account -> Nat]
  BY FlowSteps DEF IInv, FlowsOK, TypeOK
<1>2. Same(ui, ui) /\ Same(ui, Redirected(i))
  BY <1>1, SameAsBefore, RedirectedType
<1>3. CASE CheckedStep(i) /\ UNCHANGED <<chain, ui>>
  <2>1. PICK s : /\ Advanced(i, s, f.who) /\ s \notin {"zeroing", "maxing", "sent"}
                 /\ s \in {"allowance", "zero", "max"} => network = "evm" /\ f.kind = "wrap"
                 /\ f.step # "idle"
    BY <1>1, <1>3 DEF CheckedStep, FlowOK, Wraps
  <2> QED BY <1>1, <1>2, <1>3, <2>1, FlowFrame DEF chain
<1>4. CASE ApprovingStep(i) /\ UNCHANGED <<chain, ui>>
  <2>1. PICK s, w : /\ Advanced(i, s, w) /\ w \in Account
                    /\ network = "evm" /\ f.kind = "wrap" /\ f.step # "idle"
    BY <1>1, <1>4 DEF ApprovingStep, FlowOK
  <2> QED BY <1>1, <1>2, <1>4, <2>1, FlowFrame DEF chain
<1>5. CASE ApprovedStep(i) /\ UNCHANGED <<held, ui>>
  <2>1. f.who \in Account /\ network = "evm" /\ f.kind = "wrap" /\ f.step # "idle"
    BY <1>1, <1>5 DEF ApprovedStep, FlowOK
  <2>2. Infinite \in Nat
    BY DEF Infinite
  <2>3. allow' \in [Account -> Nat]
    BY <1>1, <1>5, <2>1, <2>2 DEF ApprovedStep
  <2>4. PICK s : Advanced(i, s, f.who)
    BY <1>5 DEF ApprovedStep
  <2> QED BY <1>1, <1>2, <1>5, <2>1, <2>3, <2>4, FlowFrame
<1>6. CASE SubmittedStep(i) /\ UNCHANGED chain /\ ui' = Redirected(i)
  <2>1. Advanced(i, "sent", Signer(i)) /\ Signer(i) \in Account /\ f.step # "idle"
    BY <1>6 DEF SubmittedStep
  <2> QED BY <1>1, <1>2, <1>6, <2>1, FlowFrame DEF chain
<1>7. CASE /\ DroppedStep(i) /\ UNCHANGED chain
           /\ ui' = ui \/ (ui' = Redirected(i) /\ flows[i].step = "send")
  <2>1. PICK s \in {"failed", "declined"} : Advanced(i, s, f.who) /\ f.step # "idle"
    BY <1>7 DEF DroppedStep
  <2>2. Same(ui, ui')
    BY <1>2, <1>7
  <2> QED BY <1>1, <1>7, <2>1, <2>2, FlowFrame DEF chain
<1>8. CASE MinedStep(i) /\ UNCHANGED ui
  <2>1. f.step = "sent" /\ f.who \in Account /\ f.kind # "none" /\ f.amount \in Nat
    BY <1>1, <1>8 DEF MinedStep, FlowOK, Flows
  <2>2. CASE UNCHANGED chain
    <3>1. PICK s \in {"reverted", "mined"} : Advanced(i, s, f.who)
      BY <1>8 DEF MinedStep
    <3> QED BY <1>1, <1>2, <1>8, <2>1, <2>2, <3>1, FlowFrame DEF chain
  <2>3. CASE ~UNCHANGED chain
    <3>1. /\ Advanced(i, "mined", f.who) /\ Funded(f)
          /\ held' = [held EXCEPT ![f.who] = Moved(held[f.who], f)]
          /\ allow' = IF Wraps(i) /\ allow[f.who] # Infinite
                      THEN [allow EXCEPT ![f.who] = allow[f.who] - f.amount] ELSE allow
      BY <1>8, <2>3 DEF MinedStep
    <3>2. Moved(held[f.who], f) \in Fund
      BY <1>1, <2>1, <3>1, MovedFunds DEF Funded
    <3>3. held' \in [Account -> Fund]
      BY <1>1, <2>1, <3>1, <3>2
    <3>4. Wraps(i) => allow[f.who] - f.amount \in Nat
      BY <1>1, <2>1, <3>1 DEF Funded, Wraps
    <3>5. allow' \in [Account -> Nat]
      BY <1>1, <2>1, <3>1, <3>4
    <3> QED BY <1>1, <1>2, <1>8, <2>1, <3>1, <3>3, <3>5, FlowFrame
  <2> QED BY <2>2, <2>3
<1>9. CASE ToldStep(i) /\ UNCHANGED chain
  <2>1. /\ flows' \in [Flow -> Flows]
        /\ \A j \in Flow : j # i => flows'[j] = flows[j]
        /\ flows'[i].step = f.step /\ flows'[i].who = f.who
        /\ flows'[i].kind = f.kind /\ flows'[i].amount = f.amount
        /\ flows'[i].here = f.here
    BY <1>1, <1>9, TellingEffect DEF ToldStep
  <2>2. ui' \in SwapPage \cup SendPage /\ ui'.page = ui.page
    <3>1. CASE ~f.here
      BY <1>1, <1>9, <3>1 DEF ToldStep, TypeOK
    <3>2. CASE f.here
      BY <1>9, <3>2, TellingPage
    <3> QED BY <3>1, <3>2
  <2>3. \A j \in Flow : FlowOK(flows'[j], ui'.page)
    <3>1. FlowOK(flows'[i], ui.page)
      BY <1>1, <2>1 DEF FlowOK
    <3> QED BY <2>1, <2>2, <3>1 DEF IInv, FlowsOK
  <2>4. FlowsOK'
    BY <1>1, <2>3 DEF FlowsOK, FlowOK, Quiet, fixed
  <2>5. TypeOK'
    BY <1>1, <1>9, <2>1, <2>2 DEF TypeOK, Quiet, fixed, wallet, chain
  <2> QED BY <2>4, <2>5 DEF IInv
<1> QED BY <1>1, <1>3, <1>4, <1>5, <1>6, <1>7, <1>8, <1>9, FlowSteps

\* A press of a button begins a flow of an amount that is there to be had.
Begun(i, kind, amount) ==
  /\ flows[i] = Idle
  /\ flows' \in [Flow -> Flows]
  /\ flows'[i].step \in {"balance", "send"} /\ (flows'[i].step = "send" <=> kind = "send")
  /\ flows'[i].kind = kind /\ flows'[i].amount = amount /\ flows'[i].who = account
  /\ flows'[i].here /\ ~flows'[i].told
  /\ flows'[i].alone <=> \A k \in Flow : ~Active(flows[k])
  /\ \A j \in Flow : j # i =>
       /\ flows'[j].step = flows[j].step /\ flows'[j].kind = flows[j].kind
       /\ flows'[j].amount = flows[j].amount /\ flows'[j].who = flows[j].who
       /\ flows'[j].here = flows[j].here /\ flows'[j].told = flows[j].told
       /\ ~flows'[j].alone

LEMMA StartBegins ==
  ASSUME TypeOK, NEW kind \in {"wrap", "unwrap", "send"}, NEW amount \in Nat,
         NEW step \in {"balance", "send"}, step = "send" <=> kind = "send",
         Start(kind, amount, step)
  PROVE  \E i \in Flow : Begun(i, kind, amount)
<1> DEFINE solo == \A k \in Flow : ~Active(flows[k])
           g == [step |-> step, kind |-> kind, amount |-> amount, who |-> account,
                 here |-> TRUE, alone |-> solo, told |-> FALSE]
<1>1. solo \in BOOLEAN /\ flows \in [Flow -> Flows] /\ account \in Account \cup {NoAccount}
  BY DEF TypeOK
<1>2. PICK i \in Flow :
        /\ flows[i] = Idle
        /\ flows' = [j \in Flow |-> IF j = i THEN g ELSE [flows[j] EXCEPT !.alone = FALSE]]
  BY DEF Start
<1> HIDE DEF solo
<1>3. g \in Flows
  BY <1>1 DEF Flows, Stage
<1>4. /\ g.step = step /\ g.kind = kind /\ g.amount = amount /\ g.who = account
      /\ g.here /\ ~g.told /\ (g.alone <=> solo)
  OBVIOUS
<1>5. \A j \in Flow : LET h == [flows[j] EXCEPT !.alone = FALSE] IN
        /\ h \in Flows /\ ~h.alone /\ h.step = flows[j].step /\ h.kind = flows[j].kind
        /\ h.amount = flows[j].amount /\ h.who = flows[j].who
        /\ h.here = flows[j].here /\ h.told = flows[j].told
  BY <1>1 DEF Flows
<1> HIDE DEF g
<1>6. /\ flows' \in [Flow -> Flows] /\ flows'[i] = g
      /\ \A j \in Flow : j # i => flows'[j] = [flows[j] EXCEPT !.alone = FALSE]
  BY <1>2, <1>3, <1>5
<1>7. Begun(i, kind, amount)
  BY <1>2, <1>4, <1>5, <1>6 DEF Begun, solo
<1> QED BY <1>7

LEMMA PressBegins ==
  ASSUME TypeOK, SwapAndRedirect \/ HandleSubmit
  PROVE  /\ account \in Account /\ UNCHANGED <<fixed, wallet, chain, visits>>
         /\ Same(ui, ui')
         /\ \/ ui' = ui /\ ui.page = "send"
            \/ /\ ui.page = "fluidify" /\ ~ui.swapping /\ ~ui'.swapping
               /\ ui'.error = ui.error
               /\ ui'.crossed <=> (ui.crossed \/ \E k \in Flow : Open(flows[k]))
         /\ \E i \in Flow, kind \in {"wrap", "unwrap", "send"}, amount \in Nat \ {0} :
              Begun(i, kind, amount) /\ (ui.page = "send" <=> kind = "send")
<1>1. CASE SwapAndRedirect
  <2>1. PICK input \in Inputs :
          /\ AssertCanSwap(Snapped(input))
          /\ Start(IF ui.asset = "fluid" THEN "unwrap" ELSE "wrap", Snapped(input), "balance")
    BY <1>1 DEF SwapAndRedirect
  <2>2. ui \in SwapPage /\ ui.page = "fluidify" /\ ~ui.swapping /\ ui.asset \in {"base", "fluid"}
    BY <1>1, PagesDiffer DEF SwapAndRedirect, FormShown, TabletForm, CardsShown, OnSwapPage,
                             TypeOK, SwapPage, None
  <2>3. Balance \in Nat
    BY <2>2 DEF Balance, SwapPage, Fund
  <2>4. input \in Int
    BY <2>1, <2>3, UnitsAreInteger DEF Inputs
  <2>5. Snapped(input) \in Nat \ {0} /\ account \in Account
    BY <2>1, <2>3, <2>4 DEF Snapped, Smaller, AssertCanSwap, TypeOK
  <2> DEFINE kind == IF ui.asset = "fluid" THEN "unwrap" ELSE "wrap"
             amount == Snapped(input)
  <2>6. kind \in {"wrap", "unwrap", "send"} /\ kind # "send"
    OBVIOUS
  <2> HIDE DEF kind, amount
  <2>7. \E i \in Flow : Begun(i, kind, amount)
    BY <2>1, <2>5, <2>6, StartBegins DEF kind, amount
  <2> DEFINE c == ui.crossed \/ \E k \in Flow : Open(flows[k])
  <2>8. c \in BOOLEAN
    BY <2>2 DEF SwapPage
  <2>9. ui' = [ui EXCEPT !.crossed = c]
    BY <1>1 DEF SwapAndRedirect
  <2> HIDE DEF c
  <2>10. Same(ui, ui') /\ ~ui'.swapping /\ ui'.error = ui.error /\ ui'.crossed = c
    BY <2>2, <2>8, <2>9 DEF Same, SwapPage
  <2> QED BY <1>1, <2>2, <2>5, <2>6, <2>7, <2>10 DEF SwapAndRedirect, amount, c
<1>2. CASE HandleSubmit
  <2>1. PICK t \in Typed :
          CanSend(Units(SendInput(t))) /\ Start("send", Units(SendInput(t)), "send")
    BY <1>2 DEF HandleSubmit
  <2>2. Units(SendInput(t)) \in Int
    BY UnitsAreInteger
  <2>3. ui.page = "send" /\ account \in Account
    BY <1>2 DEF HandleSubmit, SendShows, OnSendPage, TypeOK
  <2>4. Units(SendInput(t)) \in Nat \ {0}
    BY <2>1, <2>2 DEF CanSend
  <2>5. \E i \in Flow : Begun(i, "send", Units(SendInput(t)))
    BY <2>1, <2>4, StartBegins
  <2>6. Same(ui, ui') /\ ui' = ui
    BY <1>2 DEF HandleSubmit, Same, TypeOK
  <2> QED BY <1>2, <2>3, <2>4, <2>5, <2>6 DEF HandleSubmit
<1> QED BY <1>1, <1>2

\* What happens to the flows when the wallet's account changes, or a page is
\* opened: they go on.
GoOn ==
  /\ flows' \in [Flow -> Flows]
  /\ \A j \in Flow :
       /\ flows'[j].step = flows[j].step /\ flows'[j].kind = flows[j].kind
       /\ flows'[j].amount = flows[j].amount /\ flows'[j].who = flows[j].who
       /\ flows'[j].told = flows[j].told
       /\ flows'[j].here => flows[j].here
       /\ flows'[j].alone => flows[j].alone

LEMMA WalletEffect ==
  ASSUME TypeOK, NEW a \in Account \cup {NoAccount}, WalletEvent(a)
  PROVE  /\ GoOn /\ Same(ui, ui') /\ Steady(ui, ui')
         /\ UNCHANGED <<fixed, chain, visits>> /\ account' = a
         /\ \A j \in Flow : ~flows'[j].alone /\ flows'[j].here = flows[j].here
<1>1. flows \in [Flow -> Flows] /\ ui \in SwapPage \cup SendPage
  BY DEF TypeOK
<1>2. \A j \in Flow : LET h == [flows[j] EXCEPT !.alone = FALSE] IN
        /\ h \in Flows /\ ~h.alone /\ h.step = flows[j].step /\ h.kind = flows[j].kind
        /\ h.amount = flows[j].amount /\ h.who = flows[j].who
        /\ h.here = flows[j].here /\ h.told = flows[j].told
  BY <1>1 DEF Flows
<1>3. flows' = [i \in Flow |-> [flows[i] EXCEPT !.alone = FALSE]]
  BY DEF WalletEvent
<1>4. GoOn /\ \A j \in Flow : ~flows'[j].alone /\ flows'[j].here = flows[j].here
  BY <1>2, <1>3 DEF GoOn
<1>5. Same(ui, ui') /\ Steady(ui, ui')
  <2>1. CASE ui \in SwapPage
    BY <2>1, ReloadType DEF WalletEvent, OnSwapPage, SwapPage, Steady
  <2>2. CASE ui \in SendPage
    <3> DEFINE l == ui.loads \cup Loads(a, FALSE)
    <3>1. ui' = [ui EXCEPT !.loads = l]
      BY <2>2 DEF WalletEvent, OnSwapPage, SendPage
    <3>2. l \in SUBSET Account
      BY <2>2 DEF Loads, SendPage
    <3> HIDE DEF l
    <3> QED BY <2>2, <3>1, <3>2 DEF Same, Steady, SendPage
  <2> QED BY <1>1, <2>1, <2>2
<1> QED BY <1>4, <1>5 DEF WalletEvent

LEMMA VisitEffect ==
  ASSUME TypeOK, Visit
  PROVE  /\ GoOn /\ UNCHANGED <<fixed, wallet, chain>> /\ ui' \in Opened(account)
         /\ \A j \in Flow : ~flows'[j].here /\ flows'[j].alone = flows[j].alone
<1>1. flows \in [Flow -> Flows]
  BY DEF TypeOK
<1>2. \A j \in Flow : LET h == [flows[j] EXCEPT !.here = FALSE] IN
        /\ h \in Flows /\ ~h.here /\ h.step = flows[j].step /\ h.kind = flows[j].kind
        /\ h.amount = flows[j].amount /\ h.who = flows[j].who
        /\ h.alone = flows[j].alone /\ h.told = flows[j].told
  BY <1>1 DEF Flows
<1>3. flows' = [i \in Flow |-> [flows[i] EXCEPT !.here = FALSE]]
  BY DEF Visit
<1> QED BY <1>2, <1>3, ZenonT(40) DEF GoOn, Visit

LEMMA StepPage == IInv /\ PageStep => IInv'
<1> SUFFICES ASSUME IInv, PageStep  PROVE IInv'
  OBVIOUS
<1>1. TypeOK /\ \A j \in Flow : FlowOK(flows[j], ui.page)
  BY DEF IInv, FlowsOK
<1>2. ASSUME NEW a \in Account \cup {NoAccount}, WalletEvent(a)  PROVE IInv'
  <2>1. /\ GoOn /\ Same(ui, ui') /\ UNCHANGED <<fixed, chain, visits>> /\ account' = a
    BY <1>1, <1>2, WalletEffect
  <2>2. TypeOK'
    BY <1>1, <2>1 DEF TypeOK, GoOn, Same, fixed, chain
  <2>3. \A j \in Flow : FlowOK(flows'[j], ui'.page)
    BY <1>1, <2>1 DEF FlowOK, GoOn, Same
  <2>4. FlowsOK'
    BY <2>1, <2>3 DEF FlowsOK, FlowOK, fixed
  <2> QED BY <2>2, <2>4 DEF IInv
<1>3. ASSUME Visit  PROVE IInv'
  <2>1. /\ GoOn /\ UNCHANGED <<fixed, wallet, chain>> /\ ui' \in Opened(account)
        /\ \A j \in Flow : ~flows'[j].here
    BY <1>1, <1>3, VisitEffect
  <2>2. TypeOK'
    BY <1>1, <2>1, OpenedType DEF TypeOK, GoOn, fixed, chain, wallet
  <2>3. \A j \in Flow : FlowOK(flows'[j], ui'.page)
    BY <1>1, <2>1 DEF FlowOK, GoOn
  <2>4. FlowsOK'
    BY <2>1, <2>3 DEF FlowsOK, FlowOK, fixed
  <2> QED BY <2>2, <2>4 DEF IInv
<1>4. ASSUME SwapAndRedirect \/ HandleSubmit  PROVE IInv'
  <2>1. UNCHANGED <<fixed, wallet, chain, visits>> /\ Same(ui, ui')
    BY <1>1, <1>4, PressBegins
  <2>2. PICK i \in Flow, kind \in {"wrap", "unwrap", "send"}, amount \in Nat \ {0} :
          Begun(i, kind, amount) /\ (ui.page = "send" <=> kind = "send")
    BY <1>1, <1>4, PressBegins
  <2>3. TypeOK' /\ ui'.page = ui.page
    BY <1>1, <2>1, <2>2 DEF TypeOK, Begun, Same, fixed, wallet, chain
  <2>4. \A j \in Flow : FlowOK(flows'[j], ui.page)
    BY <1>1, <2>2 DEF FlowOK, Begun
  <2>5. FlowsOK'
    BY <2>1, <2>3, <2>4 DEF FlowsOK, FlowOK, fixed
  <2> QED BY <2>3, <2>5 DEF IInv
<1>5. ASSUME SwapLoaded \/ SendLoaded \/ LoadFails \/ CancelForm \/ CloseModal \/ SelectAsset
               \/ \E c \in Coin : Pick(c)
      PROVE  IInv'
  <2>1. Same(ui, ui') /\ UNCHANGED <<fixed, wallet, chain, flows, visits>>
    BY <1>1, <1>5, PageEffects
  <2>2. TypeOK'
    BY <1>1, <2>1 DEF TypeOK, Same, fixed, wallet, chain
  <2>3. FlowsOK'
    BY <1>1, <2>1 DEF FlowsOK, FlowOK, Same, fixed
  <2> QED BY <2>2, <2>3 DEF IInv
<1> QED BY <1>2, <1>3, <1>4, <1>5 DEF PageStep

\* The invariant holds when the pages open.
LEMMA InitIInv == Init => IInv
<1> SUFFICES ASSUME Init  PROVE IInv
  OBVIOUS
<1>1. /\ network \in Networks /\ tablet \in BOOLEAN /\ account \in Account \cup {NoAccount}
      /\ held \in [Account -> Fund] /\ allow \in [Account -> Nat]
  BY SwapAssumption DEF Init, Fund
<1>2. Idle \in Flows
  BY DEF Idle, Flows, Stage
<1>3. flows \in [Flow -> Flows]
  BY <1>2 DEF Init
<1>4. ui \in SwapPage \cup SendPage
  <2>1. Loads(account, FALSE) \in SUBSET Account
    BY <1>1 DEF Loads
  <2>2. \A d \in Deeplinks : d \in {"none", "base", "fluid"}
    BY SwapAssumption DEF Deeplinks, None
  <2>3. ASSUME NEW d \in Deeplinks, ui = Fluidify(account, d)  PROVE ui \in SwapPage
    <3> DEFINE o == tablet /\ d # None
               l == Loads(account, FALSE)
    <3>1. ui = [page |-> "fluidify", tokens |-> Zero, asset |-> d, open |-> o, swapping |-> FALSE,
                shown |-> 0, confirmed |-> FALSE, error |-> FALSE, crossed |-> FALSE, loads |-> l]
      BY <2>3 DEF Fluidify
    <3>2. o \in BOOLEAN /\ Zero \in Fund /\ d \in {"none", "base", "fluid"} /\ l \in SUBSET Account
      BY <2>1, <2>2 DEF Zero, Fund
    <3> HIDE DEF o, l
    <3> QED BY <3>1, <3>2 DEF SwapPage
  <2>4. ASSUME NEW d \in Deeplinks \ {"base"}, ui = Send(account, d)  PROVE ui \in SendPage
    <3> DEFINE l == Loads(account, FALSE)
    <3>1. ui = [page |-> "send", balance |-> 0, asset |-> d, remaining |-> 0, sending |-> FALSE,
                loads |-> l]
      BY <2>4 DEF Send
    <3>2. d \in {"none", "fluid"} /\ l \in SUBSET Account
      BY <2>1, <2>2
    <3> HIDE DEF l
    <3> QED BY <3>1, <3>2 DEF SendPage
  <2> QED BY <2>3, <2>4 DEF Init, Opened
<1>5. FlowsOK
  BY DEF Init, FlowsOK, FlowOK, Idle
<1> QED BY <1>1, <1>3, <1>4, <1>5 DEF IInv, TypeOK

\* Every step of a page, a wallet, the clock or the chain keeps it.
LEMMA StepIInv == IInv /\ [Next]_vars => IInv'
<1> SUFFICES ASSUME IInv, [Next]_vars  PROVE IInv'
  OBVIOUS
<1>1. CASE UNCHANGED vars
  BY <1>1 DEF vars, fixed, wallet, chain, IInv, TypeOK, FlowsOK, FlowOK
<1> QED BY <1>1, StepPage, StepFlow DEF Next

\* Balances, allowances, flows and pages keep their types, in particular no
\* balance or allowance falls below zero.
THEOREM TypeCorrect == Spec => []TypeOK
<1>1. IInv => TypeOK
  BY DEF IInv
<1> QED BY <1>1, InitIInv, StepIInv, PTL DEF Spec

-----------------------------------------------------------------------------
(* What was ordered is carried out at most once: the pages implement       *)
(* Conversions.                                                            *)

Book == [i \in Flow |-> OrderOf(flows[i])]

\* A flow whose stage, kind and amount are as they were is the same order, as
\* is one that goes from stage to stage before its end.
LEMMA SameOrder ==
  ASSUME NEW f, NEW g, g.kind = f.kind, g.amount = f.amount,
         \/ g.step = f.step
         \/ f.step \notin Ended \cup {"idle"} /\ g.step \notin Ended \cup {"idle"}
  PROVE  OrderOf(g) = OrderOf(f)
BY DEF OrderOf

LEMMA BookKept ==
  ASSUME \A j \in Flow : OrderOf(flows'[j]) = OrderOf(flows[j])
  PROVE  Book' = Book
BY DEF Book, OrderOf, Ended

\* The flow that moves is an order that is placed, and the others are as they
\* were.
LEMMA BookMoves ==
  ASSUME NEW i \in Flow, \A j \in Flow : j # i => OrderOf(flows'[j]) = OrderOf(flows[j])
  PROVE  Book' = [Book EXCEPT ![i] = OrderOf(flows'[i])]
BY DEF Book, OrderOf, Ended

\* What the chain does is what the order says.
LEMMA MovedAsOrdered ==
  ASSUME NEW f \in Flows, f.kind # "none", NEW has \in Fund
  PROVE  /\ Moved(has, f) = Orders!After(has, f.kind, f.amount)
         /\ CoinOf(f.kind) = Orders!From(f.kind)
<1>1. has = [base |-> has.base, fluid |-> has.fluid] /\ has.base \in Nat /\ has.fluid \in Nat
      /\ f.amount \in Nat
  BY DEF Fund, Flows
<1>2. CASE f.kind = "wrap"
  BY <1>1, <1>2 DEF Moved, Orders!After, CoinOf, Orders!From
<1>3. CASE f.kind = "unwrap"
  BY <1>1, <1>3 DEF Moved, Orders!After, CoinOf, Orders!From
<1>4. CASE f.kind = "send"
  <2>1. Moved(has, f) = [base |-> has.base + 0, fluid |-> has.fluid + (-f.amount)]
    BY <1>4 DEF Moved
  <2>2. Orders!After(has, f.kind, f.amount) = [has EXCEPT !.fluid = has.fluid - f.amount]
    BY <1>4 DEF Orders!After
  <2>3. has.base + 0 = has.base /\ has.fluid + (-f.amount) = has.fluid - f.amount
    BY <1>1
  <2>4. [has EXCEPT !.fluid = has.fluid - f.amount] = [base |-> has.base, fluid |-> has.fluid - f.amount]
    BY <1>1
  <2> QED BY <1>4, <2>1, <2>2, <2>3, <2>4 DEF CoinOf, Orders!From
<1> QED BY <1>2, <1>3, <1>4 DEF Flows

LEMMA OrdersFlow ==
  ASSUME IInv, NEW i \in Flow, FlowStep(i)
  PROVE  Orders!Fill(i) \/ Orders!Drop(i) \/ (UNCHANGED held /\ Book' = Book)
<1> DEFINE f == flows[i]
           g == flows'[i]
<1>1. /\ TypeOK /\ FlowOK(f, ui.page) /\ f \in Flows /\ held \in [Account -> Fund]
  BY DEF IInv, FlowsOK, TypeOK
<1>2. Book = [j \in Flow |-> OrderOf(flows[j])]
  BY DEF Book
<1>3. ASSUME f.step \notin Ended \cup {"idle"}, Advanced(i, g.step, g.who), g.step \in Ended
      PROVE  /\ Book[i].state = "placed" /\ Book' = [Book EXCEPT ![i] = Orders!Over]
             /\ Book[i].kind = f.kind /\ Book[i].amount = f.amount
  <2>1. \A j \in Flow : j # i => OrderOf(flows'[j]) = OrderOf(flows[j])
    BY <1>3 DEF Advanced
  <2>2. OrderOf(g) = Orders!Over
    BY <1>3 DEF OrderOf, Orders!Over, Ended
  <2>3. Book' = [Book EXCEPT ![i] = Orders!Over]
    BY <2>1, <2>2, BookMoves
  <2> QED BY <1>2, <1>3, <2>3 DEF OrderOf
<1>4. ASSUME f.step \notin Ended \cup {"idle"}, Advanced(i, g.step, g.who), g.step \in Ended,
             UNCHANGED held
      PROVE  Orders!Drop(i)
  BY <1>3, <1>4 DEF Orders!Drop, Book
<1>5. ASSUME f.step \notin Ended \cup {"idle"}, Advanced(i, g.step, g.who),
             g.step \notin Ended \cup {"idle"}
      PROVE  Book' = Book
  <2>1. \A j \in Flow : j # i => OrderOf(flows'[j]) = OrderOf(flows[j])
    BY <1>5 DEF Advanced
  <2>2. OrderOf(g) = OrderOf(f)
    BY <1>5, SameOrder DEF Advanced
  <2> QED BY <2>1, <2>2, BookKept
<1>6. CASE CheckedStep(i) /\ UNCHANGED <<chain, ui>>
  <2>1. /\ f.step \notin Ended \cup {"idle"} /\ Advanced(i, g.step, g.who)
        /\ g.step \notin Ended \cup {"idle"}
    BY <1>6 DEF CheckedStep, Advanced, Ended
  <2> QED BY <1>5, <1>6, <2>1 DEF chain
<1>7. CASE ApprovingStep(i) /\ UNCHANGED <<chain, ui>>
  <2>1. /\ f.step \notin Ended \cup {"idle"} /\ Advanced(i, g.step, g.who)
        /\ g.step \notin Ended \cup {"idle"}
    BY <1>7 DEF ApprovingStep, Advanced, Ended
  <2> QED BY <1>5, <1>7, <2>1 DEF chain
<1>8. CASE ApprovedStep(i) /\ UNCHANGED <<held, ui>>
  <2>1. /\ f.step \notin Ended \cup {"idle"} /\ Advanced(i, g.step, g.who)
        /\ g.step \notin Ended \cup {"idle"} \/ g.step \in Ended
    BY <1>8 DEF ApprovedStep, Advanced, Ended
  <2> QED BY <1>4, <1>5, <1>8, <2>1
<1>9. CASE SubmittedStep(i) /\ UNCHANGED chain /\ ui' = Redirected(i)
  <2>1. /\ f.step \notin Ended \cup {"idle"} /\ Advanced(i, g.step, g.who)
        /\ g.step \notin Ended \cup {"idle"}
    BY <1>9 DEF SubmittedStep, Advanced, Ended
  <2> QED BY <1>5, <1>9, <2>1 DEF chain
<1>10. CASE /\ DroppedStep(i) /\ UNCHANGED chain
            /\ ui' = ui \/ (ui' = Redirected(i) /\ flows[i].step = "send")
  <2>1. /\ f.step \notin Ended \cup {"idle"} /\ Advanced(i, g.step, g.who)
        /\ g.step \in Ended
    BY <1>10 DEF DroppedStep, Advanced, Ended
  <2> QED BY <1>4, <1>10, <2>1 DEF chain
<1>11. CASE MinedStep(i) /\ UNCHANGED ui
  <2>1. /\ f.step \notin Ended \cup {"idle"} /\ Advanced(i, g.step, g.who)
        /\ g.step \in Ended /\ f.who \in Account /\ f.kind # "none"
    BY <1>1, <1>11 DEF MinedStep, Advanced, Ended, FlowOK
  <2>2. CASE UNCHANGED held
    BY <1>4, <2>1, <2>2
  <2>3. CASE ~UNCHANGED held
    <3>1. Funded(f) /\ held' = [held EXCEPT ![f.who] = Moved(held[f.who], f)]
      BY <1>11, <2>3 DEF MinedStep, chain
    <3>2. held[f.who] \in Fund
      BY <1>1, <2>1
    <3>3. /\ held[f.who][Orders!From(f.kind)] >= f.amount
          /\ held' = [held EXCEPT ![f.who] = Orders!After(held[f.who], f.kind, f.amount)]
      BY <1>1, <2>1, <3>1, <3>2, MovedAsOrdered DEF Funded
    <3>4. /\ Book[i].state = "placed" /\ Book' = [Book EXCEPT ![i] = Orders!Over]
          /\ Book[i].kind = f.kind /\ Book[i].amount = f.amount
      BY <1>3, <2>1
    <3>5. Orders!Fill(i)
      BY <2>1, <3>3, <3>4 DEF Orders!Fill, Book
    <3> QED BY <3>5
  <2> QED BY <2>2, <2>3
<1>12. CASE ToldStep(i) /\ UNCHANGED chain
  <2>1. /\ \A j \in Flow : j # i => flows'[j] = flows[j]
        /\ g.step = f.step /\ g.kind = f.kind /\ g.amount = f.amount
    BY <1>1, <1>12, TellingEffect DEF ToldStep
  <2>2. OrderOf(g) = OrderOf(f)
    BY <2>1, SameOrder
  <2>3. \A j \in Flow : OrderOf(flows'[j]) = OrderOf(flows[j])
    BY <2>1, <2>2
  <2> QED BY <1>12, <2>3, BookKept DEF chain
<1> QED BY <1>1, <1>6, <1>7, <1>8, <1>9, <1>10, <1>11, <1>12, FlowSteps

LEMMA OrdersPage ==
  ASSUME IInv, PageStep
  PROVE  (\E i \in Flow : Orders!Place(i)) \/ (UNCHANGED held /\ Book' = Book)
<1>1. TypeOK
  BY DEF IInv
<1>2. ASSUME GoOn, UNCHANGED chain  PROVE UNCHANGED held /\ Book' = Book
  <2>1. \A j \in Flow : OrderOf(flows'[j]) = OrderOf(flows[j])
    BY <1>2, SameOrder DEF GoOn
  <2> QED BY <1>2, <2>1, BookKept DEF chain
<1>3. ASSUME NEW a \in Account \cup {NoAccount}, WalletEvent(a)
      PROVE  UNCHANGED held /\ Book' = Book
  BY <1>1, <1>2, <1>3, WalletEffect
<1>4. ASSUME Visit  PROVE UNCHANGED held /\ Book' = Book
  BY <1>1, <1>2, <1>4, VisitEffect
<1>5. ASSUME SwapAndRedirect \/ HandleSubmit  PROVE \E i \in Flow : Orders!Place(i)
  <2>1. UNCHANGED held
    BY <1>1, <1>5, PressBegins DEF chain
  <2>2. PICK i \in Flow, kind \in {"wrap", "unwrap", "send"}, amount \in Nat \ {0} :
          Begun(i, kind, amount)
    BY <1>1, <1>5, PressBegins
  <2>3. \A j \in Flow : j # i => OrderOf(flows'[j]) = OrderOf(flows[j])
    BY <2>2, SameOrder DEF Begun
  <2>4. OrderOf(flows[i]) = [state |-> "none"]
    BY <2>2 DEF Begun, OrderOf, Idle
  <2>5. OrderOf(flows'[i]) = [state |-> "placed", kind |-> kind, amount |-> amount]
    BY <2>2 DEF Begun, OrderOf, Ended
  <2>6. Book' = [Book EXCEPT ![i] = OrderOf(flows'[i])] /\ Book'[i] = OrderOf(flows'[i])
    BY <2>3, BookMoves DEF Book, OrderOf, Ended
  <2>7. Book[i] = Orders!None
    BY <2>4 DEF Book, Orders!None
  <2>8. Book'[i] \in [state : {"placed"}, kind : Orders!Kind, amount : Nat \ {0}]
    BY <2>5, <2>6 DEF Orders!Kind
  <2>9. Book' = [Book EXCEPT ![i] = Book'[i]]
    BY <2>6
  <2>10. Orders!Place(i)
    BY <2>1, <2>7, <2>8, <2>9 DEF Orders!Place, Book
  <2> QED BY <2>10
<1>6. ASSUME SwapLoaded \/ SendLoaded \/ LoadFails \/ CancelForm \/ CloseModal \/ SelectAsset
               \/ \E c \in Coin : Pick(c)
      PROVE  UNCHANGED held /\ Book' = Book
  <2>1. UNCHANGED <<chain, flows>>
    BY <1>1, <1>6, PageEffects
  <2> QED BY <2>1, BookKept DEF chain
<1> QED BY <1>3, <1>4, <1>5, <1>6 DEF PageStep

\* Every press converts or sends what the form said at most once, whatever
\* else is pressed, switched or closed while the wallet and the chain take
\* their time: the pages implement Conversions (FluidifyForm.tsx:86,
\* send.tsx:222, makeContractSwap).
THEOREM ImplementsConversions == Spec => FilledAtMostOnce
<1>1. Init => Orders!Init
  <2> SUFFICES ASSUME Init  PROVE Orders!Init
    OBVIOUS
  <2>1. \A j \in Flow : OrderOf(flows[j]) = Orders!None
    BY DEF Init, Idle, OrderOf, Orders!None
  <2>2. held \in [Account -> [base : Nat, fluid : Nat]]
    BY SwapAssumption DEF Init
  <2> QED BY <2>1, <2>2 DEF Orders!Init
<1>2. IInv /\ [Next]_vars => [Orders!Next]_<<Book, held>>
  <2> SUFFICES ASSUME IInv, [Next]_vars  PROVE Orders!Next \/ (UNCHANGED held /\ Book' = Book)
    OBVIOUS
  <2>1. CASE UNCHANGED vars
    BY <2>1, BookKept DEF vars, chain
  <2>2. CASE PageStep
    BY <2>2, OrdersPage DEF Orders!Next
  <2>3. CASE \E i \in Flow : FlowStep(i)
    BY <2>3, OrdersFlow DEF Orders!Next
  <2> QED BY <2>1, <2>2, <2>3 DEF Next
<1>3. Spec => [][Orders!Next]_<<Book, held>>
  BY <1>2, InitIInv, StepIInv, PTL DEF Spec
<1> QED BY <1>1, <1>3, PTL DEF Spec, FilledAtMostOnce, Orders!Spec, Book

-----------------------------------------------------------------------------
(* What is called an error has failed.                                     *)

LEMMA ErrorStep == IInv /\ ErrorMeansFailed /\ [Next]_vars => ErrorMeansFailed'
<1> SUFFICES ASSUME IInv, ErrorMeansFailed, [Next]_vars, ui'.page = "fluidify", ui'.error
             PROVE  \E i \in Flow : flows'[i].here /\ flows'[i].told
                                    /\ flows'[i].step \in {"declined", "reverted"}
  BY DEF ErrorMeansFailed, OnSwapPage
<1> DEFINE Failed == \E i \in Flow : flows'[i].here /\ flows'[i].told
                                     /\ flows'[i].step \in {"declined", "reverted"}
<1>0. TypeOK
  BY DEF IInv
<1>1. ASSUME Same(ui, ui')
      PROVE  \E i \in Flow : flows[i].here /\ flows[i].told
                             /\ flows[i].step \in {"declined", "reverted"}
  BY <1>1 DEF Same, ErrorMeansFailed, OnSwapPage
<1>2. ASSUME NEW i \in Flow, FlowStep(i)  PROVE Failed
  <2>1. CASE ToldStep(i)
    <3>1. /\ flows'[i].told /\ flows'[i].step = flows[i].step /\ flows'[i].here = flows[i].here
          /\ \A j \in Flow : j # i => flows'[j] = flows[j]
      BY <1>0, <2>1, TellingEffect DEF ToldStep
    <3>2. CASE ui'.error = ui.error /\ ui'.page = ui.page
      <4>1. PICK j \in Flow : flows[j].here /\ flows[j].told
                              /\ flows[j].step \in {"declined", "reverted"}
        BY <3>2 DEF ErrorMeansFailed, OnSwapPage
      <4> QED BY <3>1, <4>1
    <3>3. CASE ~(ui'.error = ui.error /\ ui'.page = ui.page)
      <4>1. flows[i].here
        BY <2>1, <3>3 DEF ToldStep
      <4>2. ui'.page = ui.page /\ ui'.error \in {ui.error, flows[i].step = "declined"}
        BY <2>1, <4>1, TellingPage
      <4> QED BY <3>1, <3>3, <4>1, <4>2
    <3> QED BY <3>2, <3>3
  <2>2. CASE ~ToldStep(i)
    <3>1. Same(ui, ui')
      BY <1>0, <1>2, <2>2, FlowSteps, SameAsBefore, RedirectedType
    <3>2. PICK j \in Flow : flows[j].here /\ flows[j].told
                            /\ flows[j].step \in {"declined", "reverted"}
      BY <1>1, <3>1
    <3>3. /\ flows[i].step \notin {"declined", "reverted"}
          /\ \A k \in Flow : k # i => flows'[k] = flows[k]
      BY <1>0, <1>2, <2>2, FlowSteps
         DEF CheckedStep, ApprovingStep, ApprovedStep, SubmittedStep, DroppedStep, MinedStep, Advanced
    <3> QED BY <3>2, <3>3
  <2> QED BY <2>1, <2>2
<1>3. ASSUME NEW a \in Account \cup {NoAccount}, WalletEvent(a)  PROVE Failed
  BY <1>0, <1>1, <1>3, WalletEffect DEF GoOn
<1>4. CASE Visit
  BY <1>0, <1>4, VisitEffect, OpenedType
<1>5. CASE SwapAndRedirect \/ HandleSubmit
  <2>1. Same(ui, ui')
    BY <1>0, <1>5, PressBegins
  <2>2. PICK i \in Flow : \E kind, amount : Begun(i, kind, amount)
    BY <1>0, <1>5, PressBegins
  <2>3. PICK j \in Flow : flows[j].here /\ flows[j].told
                          /\ flows[j].step \in {"declined", "reverted"}
    BY <1>1, <2>1
  <2> QED BY <2>2, <2>3 DEF Begun, Idle
<1>6. CASE \/ SwapLoaded \/ SendLoaded \/ LoadFails \/ CancelForm \/ CloseModal \/ SelectAsset
           \/ \E c \in Coin : Pick(c)
  BY <1>0, <1>1, <1>6, PageEffects
<1>7. CASE UNCHANGED vars
  BY <1>0, <1>1, <1>7, SameAsBefore DEF vars
<1> QED BY <1>2, <1>3, <1>4, <1>5, <1>6, <1>7 DEF Next, PageStep

-----------------------------------------------------------------------------
(* As long as no answers crossed, one flow at most waits for its answer,   *)
(* the modal is about it, and so is the error.                             *)

OpenFlow(i) == Open(flows[i])

OneOpen == \A j, k \in Flow : OpenFlow(j) /\ OpenFlow(k) => j = k
OpenIsShown == ui.swapping => \A k \in Flow : OpenFlow(k) => ui.shown = k
ErrorIsShown ==
  ui.error => \E i \in Flow : /\ ui.swapping /\ ui.shown = i
                             /\ flows[i].here /\ flows[i].told /\ flows[i].step = "declined"

Uncrossed == (OnSwapPage /\ ~ui.crossed) => OneOpen /\ OpenIsShown /\ ErrorIsShown

\* Flows that go on leave what waits, and what was told, as it is or elsewhere.
LEMMA UncrossedSteady ==
  ASSUME Uncrossed, Same(ui, ui'), Steady(ui, ui'), GoOn,
         \A j \in Flow : flows'[j].here = flows[j].here
  PROVE  Uncrossed'
<1> SUFFICES ASSUME ui'.page = "fluidify", ~ui'.crossed
             PROVE  OneOpen' /\ OpenIsShown' /\ ErrorIsShown'
  BY DEF Uncrossed, OnSwapPage
<1>1. /\ OneOpen /\ OpenIsShown /\ ErrorIsShown
      /\ \/ ~ui'.swapping /\ ~ui'.error
         \/ ui'.swapping = ui.swapping /\ ui'.shown = ui.shown /\ ui'.error = ui.error
  BY DEF Uncrossed, OnSwapPage, Same, Steady
<1>2. \A j \in Flow : OpenFlow(j)' <=> OpenFlow(j)
  BY DEF OpenFlow, Open, GoOn
<1>3. OneOpen'
  BY <1>1, <1>2 DEF OneOpen
<1>4. OpenIsShown'
  BY <1>1, <1>2 DEF OpenIsShown
<1>5. ErrorIsShown'
  BY <1>1 DEF ErrorIsShown, GoOn
<1> QED BY <1>3, <1>4, <1>5

\* A flow that advances waits for its answer if it did before.
LEMMA UncrossedAdvance ==
  ASSUME IInv, Uncrossed, NEW i \in Flow, NEW s, NEW w, Advanced(i, s, w),
         flows[i].step # "idle" /\ flows[i].step # "failed", flows[i].step # "declined",
         ui' = ui \/ (ui' = Redirected(i) /\ ~flows[i].told)
  PROVE  Uncrossed'
<1>1. TypeOK /\ FlowOK(flows[i], ui.page) /\ i \in Nat
  BY DEF IInv, FlowsOK, Flow
<1>2. Same(ui, ui')
  BY <1>1, SameAsBefore, RedirectedType
<1> SUFFICES ASSUME ui'.page = "fluidify", ~ui'.crossed
             PROVE  OneOpen' /\ OpenIsShown' /\ ErrorIsShown'
  BY DEF Uncrossed, OnSwapPage
<1>3. ui \in SwapPage /\ ui.page = "fluidify"
  BY <1>1, <1>2, PagesDiffer DEF Same, TypeOK
<1>4. /\ ui'.crossed = ui.crossed /\ ui'.error = ui.error
      /\ \/ ui'.swapping = ui.swapping /\ ui'.shown = ui.shown
         \/ ui'.swapping /\ ui'.shown = i /\ flows[i].here /\ ~flows[i].told
  BY <1>1, <1>3 DEF Redirected, OnSendPage, SwapPage, Zero
<1>5. OneOpen /\ OpenIsShown /\ ErrorIsShown
  BY <1>3, <1>4 DEF Uncrossed, OnSwapPage
<1>6. \A j \in Flow : OpenFlow(j)' => OpenFlow(j)
  BY DEF OpenFlow, Open, Advanced
<1>7. OneOpen'
  BY <1>5, <1>6 DEF OneOpen
<1>8. CASE ui'.swapping = ui.swapping /\ ui'.shown = ui.shown
  <2>1. OpenIsShown'
    BY <1>5, <1>6, <1>8 DEF OpenIsShown
  <2>2. ErrorIsShown'
    BY <1>4, <1>5, <1>8 DEF ErrorIsShown, Advanced
  <2> QED BY <1>7, <2>1, <2>2
<1>9. CASE ui'.swapping /\ ui'.shown = i /\ flows[i].here /\ ~flows[i].told
  <2>1. OpenFlow(i)
    BY <1>9 DEF OpenFlow, Open
  <2>2. OpenIsShown'
    BY <1>5, <1>6, <1>9, <2>1 DEF OpenIsShown, OneOpen
  <2>3. ~ui.error
    BY <1>5, <1>9, <2>1 DEF ErrorIsShown, OpenIsShown
  <2>4. ErrorIsShown'
    BY <1>4, <2>3 DEF ErrorIsShown
  <2> QED BY <1>7, <2>2, <2>4
<1> QED BY <1>4, <1>8, <1>9

\* An answer that does not cross is the one the modal waits for.
LEMMA UncrossedTold ==
  ASSUME IInv, Uncrossed, NEW i \in Flow, ToldStep(i),
         flows[i].step # "idle", flows[i].step # "failed"
  PROVE  Uncrossed'
<1>0. TypeOK
  BY DEF IInv
<1>1. /\ flows'[i].told /\ flows'[i].step = flows[i].step /\ flows'[i].here = flows[i].here
      /\ \A j \in Flow : j # i => flows'[j] = flows[j]
  BY <1>0, TellingEffect DEF ToldStep
<1>2. \A j \in Flow : OpenFlow(j)' <=> OpenFlow(j) /\ j # i
  BY <1>1 DEF OpenFlow, Open
<1>3. ~flows[i].told
  BY DEF ToldStep
<1> SUFFICES ASSUME ui'.page = "fluidify", ~ui'.crossed
             PROVE  OneOpen' /\ OpenIsShown' /\ ErrorIsShown'
  BY DEF Uncrossed, OnSwapPage
<1>4. CASE ~flows[i].here
  <2>1. ui' = ui
    BY <1>4 DEF ToldStep
  <2>2. OneOpen /\ OpenIsShown /\ ErrorIsShown
    BY <2>1 DEF Uncrossed, OnSwapPage
  <2>3. ErrorIsShown'
    BY <1>1, <1>4, <2>1, <2>2 DEF ErrorIsShown
  <2> QED BY <1>2, <2>1, <2>2, <2>3 DEF OneOpen, OpenIsShown
<1>5. CASE flows[i].here
  <2>1. /\ ui \in SwapPage /\ ui'.page = ui.page
        /\ ui'.swapping = ui.swapping /\ ui'.shown = ui.shown
        /\ ui'.crossed = Crossed(i)
        /\ ui'.error \in {ui.error, flows[i].step = "declined"}
    BY <1>5, TellingPage
  <2>2. ~ui.crossed /\ ui.swapping /\ ui.shown = i
    BY <2>1 DEF Crossed
  <2>3. OneOpen /\ OpenIsShown /\ ErrorIsShown
    BY <2>1, <2>2 DEF Uncrossed, OnSwapPage
  <2>4. ~ui.error
    BY <1>3, <2>2, <2>3 DEF ErrorIsShown
  <2>5. ErrorIsShown'
    BY <1>1, <1>5, <2>1, <2>2, <2>4 DEF ErrorIsShown
  <2>6. OneOpen' /\ OpenIsShown'
    BY <1>2, <2>1, <2>3 DEF OneOpen, OpenIsShown
  <2> QED BY <2>5, <2>6
<1> QED BY <1>4, <1>5

\* Only what was sent, or is over, was answered.
ToldLate == \A i \in Flow : flows[i].told => flows[i].step \in {"sent", "mined", "reverted", "declined"}

LEMMA LateStep == IInv /\ ToldLate /\ [Next]_vars => ToldLate'
<1> SUFFICES ASSUME IInv, ToldLate, [Next]_vars  PROVE ToldLate'
  OBVIOUS
<1>0. TypeOK
  BY DEF IInv
<1>1. ASSUME NEW i \in Flow, FlowStep(i)  PROVE ToldLate'
  <2>1. CASE ToldStep(i)
    <3>1. /\ flows'[i].step = flows[i].step /\ \A j \in Flow : j # i => flows'[j] = flows[j]
      BY <1>0, <2>1, TellingEffect DEF ToldStep
    <3>2. flows[i].step \in {"sent", "mined", "reverted", "declined"}
      BY <1>0, <1>1, <2>1, FlowTold
    <3> QED BY <3>1, <3>2 DEF ToldLate
  <2>2. CASE ~ToldStep(i)
    <3>1. PICK s, w : /\ Advanced(i, s, w)
                      /\ flows[i].told => s \in {"mined", "reverted"}
      BY <1>0, <1>1, <2>2, FlowMoves DEF ToldLate
    <3> QED BY <3>1 DEF ToldLate, Advanced
  <2> QED BY <2>1, <2>2
<1>2. ASSUME GoOn  PROVE ToldLate'
  BY <1>2 DEF GoOn, ToldLate
<1>3. CASE (\E a \in Account \cup {NoAccount} : WalletEvent(a)) \/ Visit
  BY <1>0, <1>2, <1>3, WalletEffect, VisitEffect
<1>4. CASE SwapAndRedirect \/ HandleSubmit
  <2>1. PICK i \in Flow : \E kind, amount : Begun(i, kind, amount)
    BY <1>0, <1>4, PressBegins
  <2> QED BY <2>1 DEF Begun, ToldLate
<1>5. CASE \/ SwapLoaded \/ SendLoaded \/ LoadFails \/ CancelForm \/ CloseModal \/ SelectAsset
           \/ \E c \in Coin : Pick(c)
  BY <1>0, <1>5, PageEffects DEF ToldLate
<1>6. CASE UNCHANGED vars
  BY <1>6 DEF ToldLate, vars
<1> QED BY <1>1, <1>3, <1>4, <1>5, <1>6 DEF Next, PageStep

LEMMA UncrossedStep == IInv /\ ToldLate /\ Uncrossed /\ [Next]_vars => Uncrossed'
<1> SUFFICES ASSUME IInv, ToldLate, Uncrossed, [Next]_vars  PROVE Uncrossed'
  OBVIOUS
<1>0. TypeOK
  BY DEF IInv
<1>1. ASSUME NEW i \in Flow, FlowStep(i)  PROVE Uncrossed'
  <2>1. CASE ToldStep(i)
    <3>1. flows[i].step \in {"sent", "mined", "reverted", "declined"}
      BY <1>0, <1>1, <2>1, FlowTold
    <3> QED BY <2>1, <3>1, UncrossedTold
  <2>2. CASE ~ToldStep(i)
    <3>1. PICK s, w :
            /\ Advanced(i, s, w)
            /\ flows[i].step \notin {"idle", "failed", "declined", "mined", "reverted"}
            /\ ui' = ui \/ (ui' = Redirected(i) /\ flows[i].step = "send")
      BY <1>0, <1>1, <2>2, FlowMoves
    <3>2. flows[i].step = "send" => ~flows[i].told
      BY DEF ToldLate
    <3> QED BY <3>1, <3>2, UncrossedAdvance
  <2> QED BY <2>1, <2>2
<1>2. ASSUME NEW a \in Account \cup {NoAccount}, WalletEvent(a)  PROVE Uncrossed'
  BY <1>0, <1>2, WalletEffect, UncrossedSteady
<1>3. CASE Visit
  <2>1. ui' \in Opened(account) /\ \A j \in Flow : ~flows'[j].here
    BY <1>0, <1>3, VisitEffect
  <2>2. ui'.page = "fluidify" => ~ui'.error /\ ~ui'.swapping
    BY <1>0, <2>1, OpenedType
  <2>3. \A j \in Flow : ~OpenFlow(j)'
    BY <2>1 DEF OpenFlow, Open
  <2> QED BY <2>2, <2>3 DEF Uncrossed, OnSwapPage, OneOpen, OpenIsShown, ErrorIsShown
<1>4. CASE SwapAndRedirect \/ HandleSubmit
  <2>1. /\ Same(ui, ui')
        /\ \/ ui' = ui /\ ui.page = "send"
           \/ /\ ui.page = "fluidify" /\ ~ui.swapping /\ ~ui'.swapping
              /\ ui'.error = ui.error
              /\ ui'.crossed <=> (ui.crossed \/ \E k \in Flow : Open(flows[k]))
    BY <1>0, <1>4, PressBegins
  <2>2. PICK i \in Flow : \E kind, amount : Begun(i, kind, amount)
    BY <1>0, <1>4, PressBegins
  <2>3. \A j \in Flow : OpenFlow(j)' => OpenFlow(j) \/ j = i
    BY <2>2 DEF OpenFlow, Open, Begun
  <2> SUFFICES ASSUME ui'.page = "fluidify", ~ui'.crossed
               PROVE  OneOpen' /\ OpenIsShown' /\ ErrorIsShown'
    BY DEF Uncrossed, OnSwapPage
  <2>4. /\ ui.page = "fluidify" /\ ~ui.swapping /\ ~ui'.swapping /\ ui'.error = ui.error
        /\ ~ui.crossed /\ \A k \in Flow : ~OpenFlow(k)
    BY <2>1 DEF OpenFlow
  <2>5. ~ui'.error
    BY <2>4 DEF Uncrossed, OnSwapPage, ErrorIsShown
  <2>6. OneOpen'
    BY <2>3, <2>4 DEF OneOpen
  <2> QED BY <2>4, <2>5, <2>6 DEF OpenIsShown, ErrorIsShown
<1>5. CASE \/ SwapLoaded \/ SendLoaded \/ LoadFails \/ CancelForm \/ CloseModal \/ SelectAsset
           \/ \E c \in Coin : Pick(c)
  <2>1. Same(ui, ui') /\ Steady(ui, ui') /\ UNCHANGED <<fixed, wallet, chain, flows, visits>>
    BY <1>0, <1>5, PageEffects
  <2>2. GoOn /\ \A j \in Flow : flows'[j].here = flows[j].here
    BY <1>0, <2>1 DEF GoOn, TypeOK
  <2> QED BY <2>1, <2>2, UncrossedSteady
<1>6. CASE UNCHANGED vars
  <2>1. UNCHANGED <<flows, ui>>
    BY <1>6 DEF vars
  <2>2. GoOn /\ \A j \in Flow : flows'[j].here = flows[j].here
    BY <1>0, <2>1 DEF GoOn, TypeOK
  <2>3. Same(ui, ui') /\ Steady(ui, ui')
    BY <1>0, <2>1, SameAsBefore DEF Steady
  <2> QED BY <2>2, <2>3, UncrossedSteady
<1> QED BY <1>1, <1>2, <1>3, <1>4, <1>5, <1>6 DEF Next, PageStep

-----------------------------------------------------------------------------
(* What reverts has a cause.                                               *)

Means == \A w \in Account : held[w].base + held[w].fluid <= Infinite

\* What the checks of a flow found is so, for the account of the moment.
Ready(i) ==
  LET f == flows[i] IN
  /\ f.who = account /\ account \in Account
  /\ f.kind # "send" =>
       /\ (f.step # "balance") => held[account][CoinOf(f.kind)] >= f.amount
       /\ (Wraps(i) /\ f.step \in {"send", "sent"}) => allow[account] >= f.amount
       /\ (f.step \in {"max", "maxing"}) => allow[account] = 0

Solitude ==
  \A i \in Flow : (flows[i].alone /\ Active(flows[i])) =>
    Ready(i) /\ \A j \in Flow : Active(flows[j]) => j = i

LEMMA MeansFlow ==
  ASSUME IInv, Means, NEW i \in Flow, FlowStep(i)
  PROVE  Means'
<1> DEFINE f == flows[i]
<1>1. /\ TypeOK /\ FlowOK(f, ui.page) /\ f \in Flows /\ held \in [Account -> Fund]
  BY DEF IInv, FlowsOK, TypeOK
<1>2. CASE UNCHANGED held
  BY <1>2 DEF Means
<1>3. CASE ~UNCHANGED held
  <2>1. /\ f.step = "sent" /\ Funded(f)
        /\ held' = [held EXCEPT ![f.who] = Moved(held[f.who], f)]
    BY <1>1, <1>3, FlowSteps DEF chain, MinedStep
  <2>2. f.who \in Account /\ f.kind # "none" /\ held[f.who] \in Fund
    BY <1>1, <2>1 DEF FlowOK
  <2> DEFINE m == Moved(held[f.who], f)
  <2>3. m \in Fund /\ m.base + m.fluid <= held[f.who].base + held[f.who].fluid
    BY <1>1, <2>1, <2>2, MovedFunds DEF Funded
  <2> HIDE DEF m
  <2>4. held'[f.who] = m /\ \A w \in Account : w # f.who => held'[w] = held[w]
    BY <1>1, <2>1, <2>2 DEF m
  <2>5. Infinite \in Nat
    BY DEF Infinite
  <2>6. m.base + m.fluid <= Infinite
    <3> HIDE DEF f
    <3>1. held[f.who].base + held[f.who].fluid <= Infinite
      BY <2>2 DEF Means
    <3>2. m.base \in Nat /\ m.fluid \in Nat /\ held[f.who].base \in Nat /\ held[f.who].fluid \in Nat
      BY <2>2, <2>3 DEF Fund
    <3> QED BY <2>3, <2>5, <3>1, <3>2
  <2>7. \A w \in Account : held'[w].base + held'[w].fluid <= Infinite
    <3> HIDE DEF f
    <3> QED BY <2>4, <2>6 DEF Means
  <2>8. Infinite' = Infinite
    BY DEF Infinite
  <2> QED BY <2>7, <2>8 DEF Means
<1> QED BY <1>2, <1>3

\* One flow moves, and is ready for where it is if it runs alone.
LEMMA SolitudeFrame ==
  ASSUME Solitude, NEW i \in Flow, NEW s, NEW w, Advanced(i, s, w), Active(flows[i]),
         (flows[i].alone /\ Ready(i) /\ s \notin Ended) => Ready(i)'
  PROVE  Solitude'
<1> SUFFICES ASSUME NEW j \in Flow, flows'[j].alone, Active(flows'[j])
             PROVE  Ready(j)' /\ \A k \in Flow : Active(flows'[k]) => k = j
  BY DEF Solitude, Active, Ended
<1>1. CASE j = i
  <2>1. flows[i].alone /\ s \notin Ended
    BY <1>1 DEF Advanced, Active
  <2>2. Ready(i) /\ \A k \in Flow : Active(flows[k]) => k = i
    BY <2>1 DEF Solitude
  <2> QED BY <1>1, <2>1, <2>2 DEF Advanced
<1>2. CASE j # i
  <2>1. flows[j].alone /\ Active(flows[j])
    BY <1>2 DEF Advanced
  <2> QED BY <1>2, <2>1 DEF Solitude
<1> QED BY <1>1, <1>2

LEMMA SolitudeFlow ==
  ASSUME IInv, Means, Solitude, NEW i \in Flow, FlowStep(i)
  PROVE  Solitude'
<1> DEFINE f == flows[i]
           g == flows'[i]
<1>1. /\ TypeOK /\ FlowOK(f, ui.page) /\ f \in Flows /\ Quiet
      /\ held \in [Account -> Fund] /\ allow \in [Account -> Nat]
  BY FlowSteps DEF IInv, FlowsOK, TypeOK
<1>2. account' = account /\ network' = network
  BY <1>1 DEF Quiet, fixed, wallet
<1>3. Ready(i) => Signer(i) = account
  BY DEF Ready, Signer
<1>4. CASE CheckedStep(i) /\ UNCHANGED <<chain, ui>>
  <2>1. PICK s : Advanced(i, s, f.who) /\ Active(f)
    BY <1>4 DEF CheckedStep, Active, Ended
  <2>2. ASSUME Ready(i)  PROVE Ready(i)'
    <3>1. g.who = f.who /\ g.kind = f.kind /\ g.amount = f.amount /\ held' = held /\ allow' = allow
      BY <1>4, <2>1 DEF Advanced, chain
    <3>2. CASE f.step = "balance"
      <4>1. held[account][CoinOf(f.kind)] >= f.amount
        BY <1>3, <1>4, <2>2, <3>2 DEF CheckedStep, EvmEnough, SolanaEnough, SuiEnough, Has
      <4>2. g.step = IF Wraps(i) THEN "allowance" ELSE "send"
        BY <1>4, <3>2 DEF CheckedStep, Advanced
      <4> QED BY <1>2, <2>2, <3>1, <4>1, <4>2 DEF Ready, Wraps
    <3>3. CASE f.step = "allowance"
      <4>1. g.step = IF allow[account] >= f.amount THEN "send"
                     ELSE IF allow[account] # 0 THEN "zero" ELSE "max"
        BY <1>3, <1>4, <2>2, <3>3 DEF CheckedStep, Advanced
      <4> QED BY <1>2, <2>2, <3>1, <3>3, <4>1 DEF Ready, Wraps
    <3> QED BY <1>4, <3>2, <3>3 DEF CheckedStep
  <2> QED BY <2>1, <2>2, SolitudeFrame
<1>5. CASE ApprovingStep(i) /\ UNCHANGED <<chain, ui>>
  <2>1. PICK s : Advanced(i, s, Signer(i)) /\ Active(f)
    BY <1>5 DEF ApprovingStep, Active, Ended
  <2>2. ASSUME Ready(i)  PROVE Ready(i)'
    <3>1. g.who = account /\ g.kind = f.kind /\ g.amount = f.amount /\ held' = held /\ allow' = allow
      BY <1>3, <1>5, <2>1, <2>2 DEF Advanced, chain
    <3>2. f.step \in {"zero", "max"} /\ g.step \in {"zeroing", "maxing"} /\ (g.step = "maxing" => f.step = "max")
      BY <1>5 DEF ApprovingStep, Advanced
    <3> QED BY <1>2, <2>2, <3>1, <3>2 DEF Ready, Wraps
  <2> QED BY <2>1, <2>2, SolitudeFrame
<1>6. CASE ApprovedStep(i) /\ UNCHANGED <<held, ui>>
  <2>1. PICK s : Advanced(i, s, f.who) /\ Active(f)
    BY <1>6 DEF ApprovedStep, Active, Ended
  <2>2. ASSUME Ready(i), s \notin Ended  PROVE Ready(i)'
    <3>1. /\ g.who = account /\ g.kind = f.kind /\ g.amount = f.amount /\ held' = held
          /\ f.who = account /\ account \in Account /\ g.step = s /\ network = "evm"
          /\ f.kind = "wrap" /\ f.step # "balance"
      BY <1>1, <1>6, <2>1, <2>2 DEF Advanced, Ready, ApprovedStep, FlowOK
    <3>2. held[account].base >= f.amount
      BY <2>2, <3>1 DEF Ready, CoinOf
    <3>3. Infinite \in Nat /\ f.amount <= Infinite
      <4>1. held[account].base + held[account].fluid <= Infinite
        BY <3>1 DEF Means
      <4>2. held[account].base \in Nat /\ held[account].fluid \in Nat /\ f.amount \in Nat
        BY <1>1, <3>1 DEF Fund, Flows
      <4>3. Infinite \in Nat
        BY DEF Infinite
      <4> HIDE DEF f
      <4> QED BY <3>2, <4>1, <4>2, <4>3
    <3>4. \/ g.step = "max" /\ allow'[account] = 0
          \/ g.step = "send" /\ allow'[account] = Infinite
      BY <1>1, <1>6, <2>2, <3>1 DEF ApprovedStep, Advanced, Ended
    <3>5. held'[account'][CoinOf(g.kind)] >= g.amount
      BY <1>2, <3>1, <3>2 DEF CoinOf
    <3>6. /\ g.step \in {"send", "sent"} => allow'[account'] >= g.amount
          /\ g.step \in {"max", "maxing"} => allow'[account'] = 0
      BY <1>2, <3>1, <3>3, <3>4
    <3> QED BY <1>2, <3>1, <3>5, <3>6 DEF Ready, Wraps, CoinOf
  <2> QED BY <2>1, <2>2, SolitudeFrame
<1>7. CASE SubmittedStep(i) /\ UNCHANGED chain /\ ui' = Redirected(i)
  <2>1. Advanced(i, "sent", Signer(i)) /\ f.step = "send" /\ Active(f)
    BY <1>7 DEF SubmittedStep, Active, Ended
  <2>2. ASSUME Ready(i)  PROVE Ready(i)'
    <3>1. /\ g.who = account /\ g.kind = f.kind /\ g.amount = f.amount /\ held' = held
          /\ allow' = allow /\ g.step = "sent"
      BY <1>3, <1>7, <2>1, <2>2 DEF Advanced, chain
    <3> QED BY <1>2, <2>1, <2>2, <3>1 DEF Ready, Wraps
  <2> QED BY <2>1, <2>2, SolitudeFrame
<1>8. CASE /\ DroppedStep(i) /\ UNCHANGED chain
           /\ ui' = ui \/ (ui' = Redirected(i) /\ flows[i].step = "send")
  <2>1. PICK s \in Ended : Advanced(i, s, f.who) /\ Active(f)
    BY <1>8 DEF DroppedStep, Active, Ended
  <2> QED BY <2>1, SolitudeFrame
<1>9. CASE MinedStep(i) /\ UNCHANGED ui
  <2>1. PICK s \in Ended : Advanced(i, s, f.who) /\ Active(f)
    BY <1>9 DEF MinedStep, Active, Ended
  <2> QED BY <2>1, SolitudeFrame
<1>10. CASE ToldStep(i) /\ UNCHANGED chain
  <2>1. /\ \A j \in Flow : j # i => flows'[j] = flows[j]
        /\ g.step = f.step /\ g.who = f.who /\ g.kind = f.kind /\ g.amount = f.amount
        /\ g.alone = f.alone
    BY <1>1, <1>10, TellingEffect DEF ToldStep
  <2>2. \A j \in Flow :
          /\ flows'[j].step = flows[j].step /\ flows'[j].who = flows[j].who
          /\ flows'[j].kind = flows[j].kind /\ flows'[j].amount = flows[j].amount
          /\ flows'[j].alone = flows[j].alone
    BY <2>1
  <2>3. \A j \in Flow : Active(flows'[j]) <=> Active(flows[j])
    BY <2>2 DEF Active
  <2>4. \A j \in Flow : Ready(j) => Ready(j)'
    BY <1>2, <1>10, <2>2 DEF Ready, Wraps, CoinOf, chain
  <2>5. \A j \in Flow : (flows'[j].alone /\ Active(flows'[j])) =>
          Ready(j)' /\ \A k \in Flow : Active(flows'[k]) => k = j
    BY <2>2, <2>3, <2>4 DEF Solitude
  <2> QED BY <2>5 DEF Solitude, Active, Ended
<1> QED BY <1>1, <1>4, <1>5, <1>6, <1>7, <1>8, <1>9, <1>10, FlowSteps

LEMMA CausesFlow ==
  ASSUME IInv, Solitude, RevertsHaveCauses, NEW i \in Flow, FlowStep(i)
  PROVE  RevertsHaveCauses'
<1> DEFINE f == flows[i]
           g == flows'[i]
<1>1. TypeOK
  BY DEF IInv
<1>2. ASSUME f.alone, Active(f), f.kind # "send",
             ApprovedStep(i) \/ MinedStep(i), g.step = "reverted"
      PROVE  FALSE
  <2>1. Ready(i)
    BY <1>2 DEF Solitude
  <2>2. CASE ApprovedStep(i)
    <3>1. f.step = "maxing" /\ allow[f.who] # 0
      BY <1>2, <2>2 DEF ApprovedStep, Advanced
    <3> QED BY <1>2, <2>1, <3>1 DEF Ready
  <2>3. CASE MinedStep(i)
    <3>1. f.step = "sent" /\ ~Funded(f)
      BY <1>2, <2>3 DEF MinedStep, Advanced
    <3> QED BY <1>2, <2>1, <3>1 DEF Ready, Funded, Wraps
  <2> QED BY <1>2, <2>2, <2>3
<1>3. /\ \A j \in Flow : j # i => flows'[j] = flows[j]
      /\ g.kind = f.kind /\ g.alone = f.alone
      /\ g.step = "reverted" =>
           f.step = "reverted" \/ (Active(f) /\ (ApprovedStep(i) \/ MinedStep(i)))
  <2>1. CASE ToldStep(i)
    BY <1>1, <2>1, TellingEffect DEF ToldStep
  <2>2. CASE ApprovedStep(i)
    BY <2>2 DEF ApprovedStep, Advanced, Active, Ended
  <2>3. CASE MinedStep(i)
    BY <2>3 DEF MinedStep, Advanced, Active, Ended
  <2>4. CASE CheckedStep(i) \/ ApprovingStep(i) \/ SubmittedStep(i) \/ DroppedStep(i)
    BY <2>4 DEF CheckedStep, ApprovingStep, SubmittedStep, DroppedStep, Advanced
  <2> QED BY <1>1, <2>1, <2>2, <2>3, <2>4, FlowSteps
<1> QED BY <1>2, <1>3 DEF RevertsHaveCauses

LEMMA CausesPage ==
  ASSUME IInv, Means, Solitude, RevertsHaveCauses, PageStep
  PROVE  (Means /\ Solitude /\ RevertsHaveCauses)'
<1>1. TypeOK
  BY DEF IInv
<1>2. ASSUME GoOn, UNCHANGED held, (UNCHANGED <<fixed, wallet, chain>>) \/ (\A j \in Flow : ~flows'[j].alone)
      PROVE  (Means /\ Solitude /\ RevertsHaveCauses)'
  <2>1. Means'
    BY <1>2 DEF Means, Infinite
  <2>2. RevertsHaveCauses'
    BY <1>2 DEF RevertsHaveCauses, GoOn
  <2>3. Solitude'
    <3>1. CASE \A j \in Flow : ~flows'[j].alone
      BY <3>1 DEF Solitude
    <3>2. CASE UNCHANGED <<fixed, wallet, chain>>
      <4>1. \A j \in Flow : Active(flows'[j]) <=> Active(flows[j])
        BY <1>2 DEF Active, GoOn
      <4>2. \A j \in Flow : Ready(j) => Ready(j)'
        BY <1>2, <3>2 DEF Ready, Wraps, CoinOf, GoOn, fixed, wallet, chain
      <4>3. \A j \in Flow : (flows'[j].alone /\ Active(flows'[j])) =>
              Ready(j)' /\ \A k \in Flow : Active(flows'[k]) => k = j
        BY <1>2, <4>1, <4>2 DEF Solitude, GoOn
      <4> QED BY <4>3 DEF Solitude, Active, Ended
    <3> QED BY <1>2, <3>1, <3>2
  <2> QED BY <2>1, <2>2, <2>3
<1>3. ASSUME NEW a \in Account \cup {NoAccount}, WalletEvent(a)
      PROVE  (Means /\ Solitude /\ RevertsHaveCauses)'
  <2>1. GoOn /\ UNCHANGED held /\ \A j \in Flow : ~flows'[j].alone
    BY <1>1, <1>3, WalletEffect DEF chain
  <2> QED BY <1>2, <2>1
<1>4. CASE Visit
  <2>1. GoOn /\ UNCHANGED <<fixed, wallet, chain>> /\ UNCHANGED held
    BY <1>1, <1>4, VisitEffect DEF chain
  <2> QED BY <1>2, <2>1
<1>5. CASE SwapAndRedirect \/ HandleSubmit
  <2>1. account \in Account /\ UNCHANGED <<fixed, wallet, chain>>
    BY <1>1, <1>5, PressBegins
  <2>2. PICK i \in Flow, kind \in {"wrap", "unwrap", "send"}, amount \in Nat \ {0} :
          Begun(i, kind, amount)
    BY <1>1, <1>5, PressBegins
  <2>3. Means'
    BY <2>1 DEF Means, Infinite, chain
  <2>4. RevertsHaveCauses'
    BY <2>2 DEF RevertsHaveCauses, Begun
  <2>5. Solitude'
    <3> SUFFICES ASSUME NEW j \in Flow, flows'[j].alone, Active(flows'[j])
                 PROVE  Ready(j)' /\ \A k \in Flow : Active(flows'[k]) => k = j
      BY DEF Solitude, Active, Ended
    <3>1. j = i
      BY <2>2 DEF Begun
    <3>2. \A k \in Flow : ~Active(flows[k])
      BY <2>2, <3>1 DEF Begun
    <3>3. \A k \in Flow : k # i => ~Active(flows'[k])
      BY <2>2, <3>2 DEF Begun, Active
    <3>4. /\ flows'[i].who = account /\ account' = account
          /\ (flows'[i].kind # "send" => flows'[i].step = "balance")
      BY <2>1, <2>2 DEF Begun, wallet
    <3>5. Ready(i)'
      BY <2>1, <3>4 DEF Ready
    <3> QED BY <3>1, <3>3, <3>5
  <2> QED BY <2>3, <2>4, <2>5
<1>6. CASE \/ SwapLoaded \/ SendLoaded \/ LoadFails \/ CancelForm \/ CloseModal \/ SelectAsset
           \/ \E c \in Coin : Pick(c)
  <2>1. UNCHANGED <<fixed, wallet, chain, flows>>
    BY <1>1, <1>6, PageEffects
  <2>2. flows' \in [Flow -> Flows] /\ flows' = flows /\ held' = held
    BY <1>1, <2>1 DEF TypeOK, chain
  <2>3. GoOn
    BY <2>2 DEF GoOn
  <2> QED BY <1>2, <2>1, <2>2, <2>3
<1> QED BY <1>3, <1>4, <1>5, <1>6 DEF PageStep

CInv == IInv /\ Means /\ Solitude /\ RevertsHaveCauses /\ ErrorMeansFailed /\ ToldLate /\ Uncrossed

LEMMA InitCInv == Init => CInv
<1> SUFFICES ASSUME Init  PROVE CInv
  OBVIOUS
<1>1. IInv
  BY InitIInv
<1>2. Means
  BY SwapAssumption DEF Init, Means
<1>3. \A i \in Flow : flows[i].step = "idle" /\ ~flows[i].alone
  BY DEF Init, Idle
<1>4. Solitude /\ RevertsHaveCauses
  BY <1>3 DEF Solitude, RevertsHaveCauses
<1>5. ErrorMeansFailed
  BY <1>1, OpenedType DEF Init, ErrorMeansFailed, OnSwapPage, IInv
<1>6. ToldLate /\ Uncrossed
  <2>1. ui.page = "fluidify" => ~ui.error /\ ~ui.swapping
    BY <1>1, OpenedType DEF Init, IInv
  <2>2. \A j \in Flow : ~OpenFlow(j)
    BY <1>3 DEF OpenFlow, Open
  <2>3. ToldLate
    BY DEF Init, Idle, ToldLate
  <2> QED BY <2>1, <2>2, <2>3 DEF Uncrossed, OnSwapPage, OneOpen, OpenIsShown, ErrorIsShown
<1> QED BY <1>1, <1>2, <1>4, <1>5, <1>6 DEF CInv

LEMMA StepCInv == CInv /\ [Next]_vars => CInv'
<1> SUFFICES ASSUME CInv, [Next]_vars  PROVE CInv'
  OBVIOUS
<1>1. IInv' /\ ErrorMeansFailed' /\ ToldLate' /\ Uncrossed'
  BY StepIInv, ErrorStep, LateStep, UncrossedStep DEF CInv
<1>2. (Means /\ Solitude /\ RevertsHaveCauses)'
  <2>1. CASE UNCHANGED vars
    <3>1. UNCHANGED <<network, tablet, account, switches, held, allow, flows, ui, visits>>
      BY <2>1 DEF vars, fixed, wallet, chain
    <3> QED BY <3>1 DEF CInv, Means, Solitude, RevertsHaveCauses, Ready, Active, Ended, Wraps,
                        CoinOf, Infinite
  <2>2. CASE PageStep
    BY <2>2, CausesPage DEF CInv
  <2>3. CASE \E i \in Flow : FlowStep(i)
    BY <2>3, MeansFlow, SolitudeFlow, CausesFlow DEF CInv
  <2> QED BY <2>1, <2>2, <2>3 DEF Next
<1> QED BY <1>1, <1>2 DEF CInv

\* What goes wrong goes wrong for a reason, and is said of what went wrong: a
\* swap that ran alone is not refused by the token or the chain after its
\* checks, the page shows an error only when a flow of its own failed, and, as
\* long as no answers crossed, of the flow that its modal is about
\* (makeContractSwap in transaction.ts, handleRedirect in fluidify/index.tsx).
THEOREM FailuresHaveCauses == Spec => []FailuresAreTrue
<1>1. CInv => FailuresAreTrue
  BY DEF CInv, FailuresAreTrue, Uncrossed, ErrorIsShown, ErrorIsOfShown
<1> QED BY <1>1, InitCInv, StepCInv, PTL DEF Spec

-----------------------------------------------------------------------------
(* The frame.                                                              *)

\* The menu is closed, or left, and something locks the page or is going to.
Stays == ("menu" \notin open /\ (body # Frame!Free \/ Locks > 0)) => hasty

Waits == [close : Nat, lock : Nat, fix : Nat]

FrameShape ==
  /\ path \in [net : Chains, page : Frame!Pages]
  /\ timers \in Waits
  /\ body \in [overflow : {"unset", "hidden"}, position : {"static", "fixed"}]

FrameInv ==
  /\ FrameShape
  /\ open # {} => Frame!Framed
  /\ inner # {} => "menu" \in open
  /\ Frame!WalletDialogsYield /\ Frame!ReferralOnlyWide /\ Stays

\* What hasty remembers of a step.
Remembers ==
  /\ "menu" \in open /\ "menu" \notin open' /\ Locks > 0 => hasty'
  /\ hasty /\ ~(body' = Frame!Free /\ Locks' = 0) => hasty'

LEMMA Remembering == ASSUME FrameStep  PROVE Remembers
<1> DEFINE left == "menu" \in open /\ "menu" \notin open' /\ Locks > 0
           over == body' = Frame!Free /\ Locks' = 0
<1>1. hasty' = (left \/ (hasty /\ ~over))
  BY DEF FrameStep
<1>2. left => hasty'
  <2> HIDE DEF left, over
  <2> QED BY <1>1
<1>3. hasty /\ ~over => hasty'
  <2> HIDE DEF left, over
  <2> QED BY <1>1
<1>4. "menu" \in open /\ "menu" \notin open' /\ Locks > 0 => hasty'
  BY <1>2
<1>5. hasty /\ ~(body' = Frame!Free /\ Locks' = 0) => hasty'
  BY <1>3
<1> QED BY <1>4, <1>5, Zenon DEF Remembers

\* The dialogs that are shown after a step are ones that may be.
MayShow(dialogs, within) ==
  /\ facade' = "connected" => "wallet" \notin dialogs \cup within
  /\ "referral" \in dialogs => width' \in {"tablet", "desktop"}

LEMMA LocksStart ==
  ASSUME NEW t \in Waits
  PROVE  [t EXCEPT !.lock = @ + 1, !.fix = @ + 1] \in Waits
<1> DEFINE once == [t EXCEPT !.lock = t.lock + 1]
<1>1. once \in Waits
  BY DEF Waits
<1>2. [t EXCEPT !.lock = @ + 1, !.fix = @ + 1] = [once EXCEPT !.fix = once.fix + 1]
  BY DEF Waits
<1> HIDE DEF once
<1>3. [once EXCEPT !.fix = once.fix + 1] \in Waits
  BY <1>1 DEF Waits
<1> QED BY <1>2, <1>3

LEMMA ShowKeeps ==
  ASSUME FrameInv, Remembers, NEW dialogs, Frame!Show(dialogs), dialogs # {} => Frame!Framed,
         MayShow(dialogs, inner)
  PROVE  FrameInv'
<1>1. /\ open' = dialogs /\ inner' = IF "menu" \in dialogs THEN inner ELSE {}
      /\ timers' = (IF "menu" \in dialogs \ open
                    THEN [timers EXCEPT !.lock = @ + 1, !.fix = @ + 1] ELSE timers)
      /\ body' = (IF "menu" \in open \ dialogs THEN Frame!Free ELSE body)
      /\ path' = path
  BY DEF Frame!Show, Frame!Delayed, Frame!Scrolled
<1>2. FrameShape' /\ (Locks' = Locks \/ "menu" \in open')
  <2>1. CASE "menu" \in dialogs \ open
    <3>1. timers' = [timers EXCEPT !.lock = @ + 1, !.fix = @ + 1] /\ body' = body /\ path' = path
      BY <1>1, <2>1
    <3>2. timers \in Waits
      BY DEF FrameInv, FrameShape
    <3>3. timers' \in Waits
      BY <3>1, <3>2, LocksStart
    <3> QED BY <1>1, <2>1, <3>1, <3>3 DEF FrameInv, FrameShape
  <2>2. CASE "menu" \notin dialogs \ open
    <3>1. timers' = timers /\ path' = path
      BY <1>1, <2>2
    <3>2. body' \in {body, Frame!Free}
      BY <1>1
    <3> QED BY <3>1, <3>2 DEF FrameInv, FrameShape, Frame!Free, Locks
  <2> QED BY <2>1, <2>2
<1>3. Stays'
  <2>1. CASE "menu" \in dialogs
    BY <1>1, <2>1 DEF Stays
  <2>2. CASE "menu" \in open \ dialogs
    BY <1>1, <1>2, <2>2 DEF Stays, Remembers, FrameInv, FrameShape, Waits, Locks
  <2>3. CASE "menu" \notin open \cup dialogs
    BY <1>1, <1>2, <2>3 DEF Stays, Remembers, FrameInv, FrameShape, Waits, Locks
  <2> QED BY <2>1, <2>2, <2>3
<1>4. Frame!WalletDialogsYield' /\ Frame!ReferralOnlyWide'
  BY <1>1 DEF MayShow, Frame!WalletDialogsYield, Frame!ReferralOnlyWide
<1>5. (open # {} => Frame!Framed)' /\ (inner # {} => "menu" \in open)'
  BY <1>1 DEF Frame!Framed
<1> QED BY <1>2, <1>3, <1>4, <1>5 DEF FrameInv

LEMMA GoKeeps ==
  ASSUME FrameInv, Remembers, NEW to \in [net : Chains, page : Frame!Pages],
         NEW dialogs \in SUBSET open, NEW within \in SUBSET inner, NEW t \in Waits,
         t.lock = timers.lock, t.fix = timers.fix, within # {} => "menu" \in dialogs,
         Frame!Go(to, dialogs, within, t), MayShow(dialogs, within)
  PROVE  FrameInv'
<1> DEFINE kept == to.net = path.net /\ to.page \in Frame!FramePages
<1>1. /\ path' = to
      /\ open' = (IF kept THEN dialogs ELSE {}) /\ inner' = (IF kept THEN within ELSE {})
      /\ timers' = (IF kept THEN t ELSE [t EXCEPT !.close = 0])
      /\ body' = IF to = path THEN IF "menu" \in open \ dialogs THEN Frame!Free ELSE body ELSE Frame!Free
  BY DEF Frame!Go, Frame!Scrolled
<1>2. timers' \in Waits /\ Locks' = Locks
  <2>1. timers' \in Waits /\ timers'.lock = t.lock /\ timers'.fix = t.fix
    BY <1>1 DEF Waits
  <2> QED BY <2>1 DEF Locks
<1>3. FrameShape'
  BY <1>1, <1>2 DEF FrameInv, FrameShape, Frame!Free
<1>4. Stays'
  <2>1. CASE "menu" \in open'
    BY <2>1 DEF Stays
  <2>2. CASE "menu" \in open \ open'
    <3>1. Frame!Framed
      BY <2>2 DEF FrameInv
    <3>2. to = path => kept
      BY <3>1 DEF Frame!Framed
    <3>3. body' = Frame!Free
      BY <1>1, <2>2, <3>2
    <3> QED BY <1>2, <2>2, <3>3 DEF Stays, Remembers, FrameInv, FrameShape, Waits, Locks
  <2>3. CASE "menu" \notin open \cup open'
    <3>1. body' \in {body, Frame!Free}
      BY <1>1
    <3> QED BY <1>2, <2>3, <3>1 DEF Stays, Remembers, FrameInv, FrameShape, Waits, Locks
  <2> QED BY <2>1, <2>2, <2>3
<1>5. open' \subseteq dialogs /\ inner' \subseteq within
  BY <1>1
<1>6. Frame!WalletDialogsYield' /\ Frame!ReferralOnlyWide'
  BY <1>5 DEF MayShow, Frame!WalletDialogsYield, Frame!ReferralOnlyWide
<1>7. (open # {} => Frame!Framed)' /\ (inner # {} => "menu" \in open)'
  BY <1>1 DEF Frame!Framed
<1> QED BY <1>3, <1>4, <1>6, <1>7 DEF FrameInv

\* What a width leaves, and a wallet.
LEMMA MayStay ==
  ASSUME FrameInv, NEW dialogs, NEW within, dialogs \subseteq open, within \subseteq inner,
         facade' \in {facade, "none"}, width' = width
  PROVE  MayShow(dialogs, within)
BY DEF MayShow, FrameInv, Frame!WalletDialogsYield, Frame!ReferralOnlyWide

\* The style and the timers of a step that leaves the dialogs that are shown.
LEMMA InnerKeeps ==
  ASSUME FrameInv, Remembers, open' = open, path' = path, timers' \in Waits,
         body' \in [overflow : {"unset", "hidden"}, position : {"static", "fixed"}],
         "menu" \in open \/ (body' # Frame!Free \/ Locks' > 0 => body # Frame!Free \/ Locks > 0),
         inner' # {} => "menu" \in open,
         MayShow(open, inner')
  PROVE  FrameInv'
<1>1. Stays'
  BY DEF Stays, Remembers, FrameInv
<1>2. FrameShape' /\ (open # {} => Frame!Framed)' /\ (inner # {} => "menu" \in open)'
  BY DEF FrameInv, FrameShape, Frame!Framed
<1>3. Frame!WalletDialogsYield' /\ Frame!ReferralOnlyWide'
  BY DEF MayShow, Frame!WalletDialogsYield, Frame!ReferralOnlyWide
<1> QED BY <1>1, <1>2, <1>3 DEF FrameInv

LEMMA FrameShows ==
  ASSUME FrameInv, Remembers, NEW m \in Frame!Dialogs,
         \/ m # "menu" /\ (Frame!OpenDialog(m) \/ Frame!CloseDialog(m) \/ Frame!ConnectFrom(m))
         \/ Frame!Burger \/ Frame!MenuStaking
  PROVE  FrameInv'
<1>1. CASE m # "menu" /\ Frame!OpenDialog(m)
  <2>1. Frame!Framed /\ Frame!Show(open \cup {m}) /\ UNCHANGED <<width, facade>>
    BY <1>1 DEF Frame!OpenDialog, Frame!Clear
  <2>2. m = "wallet" => facade = "none"
    BY <1>1 DEF Frame!OpenDialog
  <2>3. m = "referral" => width = "desktop"
    BY <1>1 DEF Frame!OpenDialog
  <2>4. MayShow(open \cup {m}, inner)
    BY <2>1, <2>2, <2>3 DEF MayShow, FrameInv, Frame!WalletDialogsYield, Frame!ReferralOnlyWide
  <2> QED BY <2>1, <2>4, ShowKeeps
<1>2. CASE Frame!CloseDialog(m)
  <2>1. m \in open /\ Frame!Show(open \ {m}) /\ UNCHANGED <<width, facade>>
    BY <1>2 DEF Frame!CloseDialog
  <2>2. MayShow(open \ {m}, inner) /\ Frame!Framed
    BY <2>1, MayStay DEF FrameInv
  <2> QED BY <2>1, <2>2, ShowKeeps
<1>3. CASE Frame!ConnectFrom(m)
  <2> DEFINE dialogs == (open \ {"referral"}) \cup {"wallet"}
  <2>1. m \in open /\ facade # "connected" /\ Frame!Show(dialogs) /\ UNCHANGED <<width, facade>>
    BY <1>3 DEF Frame!ConnectFrom
  <2>2. MayShow(dialogs, inner) /\ Frame!Framed
    BY <2>1 DEF MayShow, FrameInv
  <2> QED BY <2>1, <2>2, ShowKeeps
<1>4. CASE Frame!Burger
  <2>1. PICK dialogs \in {open \cup {"menu"}, open \ {"menu"}} :
          Frame!Framed /\ Frame!Show(dialogs) /\ UNCHANGED <<width, facade>>
    BY <1>4 DEF Frame!Burger, Frame!Clear, Frame!MenuShows
  <2>2. MayShow(dialogs, inner)
    BY <2>1 DEF MayShow, FrameInv, Frame!WalletDialogsYield, Frame!ReferralOnlyWide
  <2> QED BY <2>1, <2>2, ShowKeeps
<1>5. CASE Frame!MenuStaking
  <2>1. Frame!Framed /\ Frame!Show(open \cup {"staking"}) /\ UNCHANGED <<width, facade>>
    BY <1>5 DEF Frame!MenuStaking, Frame!MenuShows
  <2>2. MayShow(open \cup {"staking"}, inner)
    BY <2>1 DEF MayShow, FrameInv, Frame!WalletDialogsYield, Frame!ReferralOnlyWide
  <2> QED BY <2>1, <2>2, ShowKeeps
<1> QED BY <1>1, <1>2, <1>3, <1>4, <1>5

\* Pages of this network, and the same page of another one.
LEMMA Elsewhere ==
  ASSUME FrameInv
  PROVE  /\ \A p \in Frame!Pages : [path EXCEPT !.page = p] \in [net : Chains, page : Frame!Pages]
         /\ \A n \in Chains : [path EXCEPT !.net = n] \in [net : Chains, page : Frame!Pages]
         /\ timers \in Waits
BY DEF FrameInv, FrameShape

LEMMA FrameGoes ==
  ASSUME FrameInv, Remembers, NEW p \in Frame!Pages, NEW n \in Chains,
         Frame!Follow(p) \/ Frame!MenuLink(p) \/ Frame!ChooseChain(n) \/ Frame!MenuChooseChain(n)
  PROVE  FrameInv'
<1>0. timers \in Waits /\ (inner # {} => "menu" \in open)
  BY DEF FrameInv, FrameShape
<1>1. CASE Frame!Follow(p)
  <2>1. Frame!Go([path EXCEPT !.page = p], open, inner, timers) /\ UNCHANGED <<width, facade>>
    BY <1>1 DEF Frame!Follow
  <2>2. MayShow(open, inner)
    BY <2>1, MayStay
  <2> QED BY <1>0, <2>1, <2>2, Elsewhere, GoKeeps
<1>2. CASE Frame!MenuLink(p)
  <2> DEFINE t == [timers EXCEPT !.close = @ + 1]
  <2>1. Frame!Go([path EXCEPT !.page = p], open, inner, t) /\ UNCHANGED <<width, facade>>
    BY <1>2 DEF Frame!MenuLink
  <2>2. MayShow(open, inner)
    BY <2>1, MayStay
  <2>3. t \in Waits /\ t.lock = timers.lock /\ t.fix = timers.fix
    BY <1>0 DEF Waits
  <2> HIDE DEF t
  <2> QED BY <1>0, <2>1, <2>2, <2>3, Elsewhere, GoKeeps
<1>3. CASE Frame!ChooseChain(n)
  <2> DEFINE dialogs == open \ {"chain"}
  <2>1. /\ Frame!Go([path EXCEPT !.net = n], dialogs, inner, timers)
        /\ facade' \in {facade, "none"} /\ width' = width
    BY <1>3 DEF Frame!ChooseChain, Frame!KeepWallet
  <2>2. MayShow(dialogs, inner) /\ dialogs \in SUBSET open /\ (inner # {} => "menu" \in dialogs)
    BY <1>0, <2>1, MayStay
  <2> HIDE DEF dialogs
  <2> QED BY <1>0, <2>1, <2>2, Elsewhere, GoKeeps
<1>4. CASE Frame!MenuChooseChain(n)
  <2> DEFINE within == inner \ {"chain"}
  <2>1. /\ Frame!Go([path EXCEPT !.net = n], open, within, timers)
        /\ facade' \in {facade, "none"} /\ width' = width
    BY <1>4 DEF Frame!MenuChooseChain, Frame!KeepWallet
  <2>2. MayShow(open, within) /\ within \in SUBSET inner /\ (within # {} => "menu" \in open)
    BY <1>0, <2>1, MayStay
  <2> HIDE DEF within
  <2> QED BY <1>0, <2>1, <2>2, Elsewhere, GoKeeps
<1> QED BY <1>1, <1>2, <1>3, <1>4

Styles == [overflow : {"unset", "hidden"}, position : {"static", "fixed"}]

LEMMA FrameMenu ==
  ASSUME FrameInv, Remembers, NEW m \in {"wallet", "chain", "connected"},
         Frame!MenuOpen(m) \/ Frame!MenuClose(m)
  PROVE  FrameInv'
<1>0. timers \in Waits /\ body \in Styles
  BY DEF FrameInv, FrameShape, Styles
<1>1. CASE Frame!MenuOpen(m)
  <2>1. /\ "menu" \in open /\ inner' = inner \cup {m}
        /\ UNCHANGED <<path, width, facade, open, timers>>
    BY <1>1 DEF Frame!MenuOpen, Frame!MenuShows
  <2>2. m = "wallet" => facade = "none"
    BY <1>1 DEF Frame!MenuOpen
  <2>3. body' \in {body, [body EXCEPT !.position = "static"]}
    BY <1>1 DEF Frame!MenuOpen
  <2>4. body' \in Styles
    BY <1>0, <2>3 DEF Styles
  <2>5. MayShow(open, inner')
    BY <2>1, <2>2 DEF MayShow, FrameInv, Frame!WalletDialogsYield, Frame!ReferralOnlyWide
  <2> QED BY <1>0, <2>1, <2>4, <2>5, InnerKeeps DEF Styles
<1>2. CASE Frame!MenuClose(m)
  <2>1. /\ m \in inner /\ inner' = inner \ {m}
        /\ UNCHANGED <<path, width, facade, open, body>>
        /\ timers' \in {timers, [timers EXCEPT !.fix = @ + 1]}
    BY <1>2 DEF Frame!MenuClose, Frame!Refixed
  <2>2. timers' \in Waits
    BY <1>0, <2>1 DEF Waits
  <2>3. "menu" \in open
    BY <2>1 DEF FrameInv
  <2>4. MayShow(open, inner')
    BY <2>1, MayStay
  <2> QED BY <1>0, <2>1, <2>2, <2>3, <2>4, InnerKeeps DEF Styles
<1> QED BY <1>1, <1>2

LEMMA FrameTimers ==
  ASSUME FrameInv, Remembers, Frame!CloseFires \/ Frame!LockFires \/ Frame!FixFires
  PROVE  FrameInv'
<1>0. timers \in Waits /\ body \in Styles /\ Frame!Free \in Styles /\ Frame!Locked \in Styles
  BY DEF FrameInv, FrameShape, Styles, Frame!Free, Frame!Locked
<1>1. CASE Frame!CloseFires
  <2>1. /\ timers.close > 0 /\ timers' = [timers EXCEPT !.close = @ - 1]
        /\ open' = open \ {"menu"} /\ inner' = {}
        /\ body' = (IF "menu" \in open THEN Frame!Free ELSE body)
        /\ UNCHANGED <<path, width, facade>>
    BY <1>1 DEF Frame!CloseFires, Frame!Scrolled
  <2>2. timers' \in Waits /\ Locks' = Locks /\ Locks \in Nat
    BY <1>0, <2>1 DEF Waits, Locks
  <2>3. Stays'
    <3>1. CASE "menu" \in open
      BY <2>1, <2>2, <3>1 DEF Stays, Remembers
    <3>2. CASE "menu" \notin open
      BY <2>1, <2>2, <3>2 DEF Stays, Remembers, FrameInv
    <3> QED BY <3>1, <3>2
  <2>4. FrameShape'
    BY <1>0, <2>1, <2>2 DEF FrameInv, FrameShape, Styles
  <2>5. Frame!WalletDialogsYield' /\ Frame!ReferralOnlyWide'
    BY <2>1 DEF FrameInv, Frame!WalletDialogsYield, Frame!ReferralOnlyWide
  <2>6. (open # {} => Frame!Framed)' /\ (inner # {} => "menu" \in open)'
    BY <2>1 DEF FrameInv, Frame!Framed
  <2> QED BY <2>3, <2>4, <2>5, <2>6 DEF FrameInv
<1>2. CASE Frame!LockFires
  <2>1. /\ timers.lock > 0 /\ timers' = [timers EXCEPT !.lock = @ - 1]
        /\ body' = Frame!Locked /\ UNCHANGED <<path, width, facade, open, inner>>
    BY <1>2 DEF Frame!LockFires
  <2>2. timers' \in Waits /\ Locks > 0
    BY <1>0, <2>1 DEF Waits, Locks
  <2>3. MayShow(open, inner')
    BY <2>1, MayStay
  <2> QED BY <1>0, <2>1, <2>2, <2>3, InnerKeeps DEF FrameInv, Styles
<1>3. CASE Frame!FixFires
  <2>1. /\ timers.fix > 0 /\ timers' = [timers EXCEPT !.fix = @ - 1]
        /\ body' = [body EXCEPT !.position = "fixed"]
        /\ UNCHANGED <<path, width, facade, open, inner>>
    BY <1>3 DEF Frame!FixFires
  <2>2. timers' \in Waits /\ Locks > 0 /\ body' \in Styles
    BY <1>0, <2>1 DEF Waits, Locks, Styles
  <2>3. MayShow(open, inner')
    BY <2>1, MayStay
  <2> QED BY <1>0, <2>1, <2>2, <2>3, InnerKeeps DEF FrameInv, Styles
<1> QED BY <1>1, <1>2, <1>3

LEMMA WalletKeeps ==
  ASSUME FrameInv, Remembers, NEW w, Frame!WalletBecomes(w)
  PROVE  FrameInv'
<1>0. timers \in Waits /\ body \in Styles
  BY DEF FrameInv, FrameShape, Styles
<1>1. /\ facade' = w /\ open' = (IF w \in {"connecting", "connected"} THEN open \ {"wallet"} ELSE open)
      /\ UNCHANGED <<path, width, body>>
  BY DEF Frame!WalletBecomes, Frame!Yielding
<1>2. \/ w = "connected" /\ "wallet" \in inner /\ inner' = inner \ {"wallet"}
           /\ timers' = [timers EXCEPT !.fix = @ + 1]
      \/ ~(w = "connected" /\ "wallet" \in inner) /\ inner' = inner /\ timers' = timers
  BY DEF Frame!WalletBecomes, Frame!Refixed
<1>3. timers' \in Waits
  BY <1>0, <1>2 DEF Waits
<1>4. FrameShape'
  BY <1>0, <1>1, <1>3 DEF FrameInv, FrameShape, Styles
<1>5. inner' \subseteq inner /\ open' \subseteq open /\ ("menu" \in open' <=> "menu" \in open)
  BY <1>1, <1>2
<1>6. (open # {} => Frame!Framed)' /\ (inner # {} => "menu" \in open)'
  BY <1>1, <1>5 DEF FrameInv, Frame!Framed
<1>7. Frame!WalletDialogsYield' /\ Frame!ReferralOnlyWide'
  BY <1>1, <1>2, <1>5 DEF FrameInv, Frame!WalletDialogsYield, Frame!ReferralOnlyWide
<1>8. Stays'
  <2>1. CASE "menu" \in open
    BY <1>5, <2>1 DEF Stays
  <2>2. CASE "menu" \notin open
    <3>1. timers' = timers
      BY <1>2, <2>2 DEF FrameInv
    <3> QED BY <1>1, <1>5, <2>2, <3>1 DEF FrameInv, Stays, Remembers, Locks
  <2> QED BY <2>1, <2>2
<1> QED BY <1>4, <1>6, <1>7, <1>8 DEF FrameInv

LEMMA FrameWallet ==
  ASSUME FrameInv, Remembers, NEW w,
         \/ Frame!EagerConnect \/ Frame!UseConnector \/ Frame!WalletLeaves \/ Frame!WalletAnswers(w)
         \/ Frame!Disconnect \/ Frame!Return
  PROVE  FrameInv'
<1>0. timers \in Waits /\ body \in Styles /\ Frame!Free \in Styles
  BY DEF FrameInv, FrameShape, Styles, Frame!Free
<1>1. CASE Frame!EagerConnect \/ Frame!UseConnector \/ Frame!WalletLeaves \/ Frame!WalletAnswers(w)
  <2>1. \E v : Frame!WalletBecomes(v)
    BY <1>1 DEF Frame!EagerConnect, Frame!UseConnector, Frame!WalletLeaves, Frame!WalletAnswers
  <2> QED BY <2>1, WalletKeeps
<1>2. CASE Frame!Disconnect
  <2>1. /\ facade' = "none" /\ open' \in {open, open \ {"connected"}} /\ inner' \subseteq inner
        /\ UNCHANGED <<path, width, timers, body>>
    BY <1>2 DEF Frame!Disconnect
  <2>2. FrameShape'
    BY <2>1 DEF FrameInv, FrameShape
  <2>3. Stays'
    BY <2>1 DEF FrameInv, Stays, Remembers, Locks
  <2>4. Frame!WalletDialogsYield' /\ Frame!ReferralOnlyWide'
    BY <2>1 DEF FrameInv, Frame!WalletDialogsYield, Frame!ReferralOnlyWide
  <2>5. (open # {} => Frame!Framed)' /\ (inner # {} => "menu" \in open)'
    BY <2>1 DEF FrameInv, Frame!Framed
  <2> QED BY <2>2, <2>3, <2>4, <2>5 DEF FrameInv
<1>3. CASE Frame!Return
  <2>1. /\ open = {} /\ path' = [path EXCEPT !.page = "home"] /\ body' = Frame!Free
        /\ UNCHANGED <<width, facade, open, inner, timers>>
    BY <1>3 DEF Frame!Return, FrameInv
  <2>2. path' \in [net : Chains, page : Frame!Pages]
    <3>1. "home" \in Frame!Pages
      BY DEF Frame!Pages, Frame!FramePages
    <3> QED BY <2>1, <3>1, Elsewhere
  <2>3. FrameShape'
    BY <1>0, <2>1, <2>2 DEF FrameShape, Waits, Styles
  <2>4. Stays'
    BY <2>1 DEF FrameInv, Stays, Remembers, Locks
  <2>5. Frame!WalletDialogsYield' /\ Frame!ReferralOnlyWide'
    BY <2>1 DEF FrameInv, Frame!WalletDialogsYield, Frame!ReferralOnlyWide
  <2>6. (open # {} => Frame!Framed)' /\ (inner # {} => "menu" \in open)'
    BY <2>1 DEF FrameInv
  <2> QED BY <2>3, <2>4, <2>5, <2>6 DEF FrameInv
<1> QED BY <1>1, <1>2, <1>3

LEMMA FrameResizes ==
  ASSUME FrameInv, Remembers, NEW w \in Frame!Widths, Frame!Resize(w)
  PROVE  FrameInv'
<1> DEFINE dialogs == Frame!Fitting(w)
<1>1. width' = w /\ facade' = facade
  BY DEF Frame!Resize
<1>2. dialogs \in SUBSET open /\ (w = "narrow" => "referral" \notin dialogs)
  BY DEF Frame!Fitting
<1>3. MayShow(dialogs, inner)
  BY <1>1, <1>2 DEF MayShow, FrameInv, Frame!WalletDialogsYield, Frame!Widths
<1>4. CASE Frame!Framed /\ "referral" \in open \ Frame!Fitting(w)
  <2>1. Frame!Go([path EXCEPT !.page = "airdrop"], dialogs, inner, timers)
    BY <1>4 DEF Frame!Resize
  <2>2. [path EXCEPT !.page = "airdrop"] \in [net : Chains, page : Frame!Pages]
    <3>1. "airdrop" \in Frame!Pages
      BY DEF Frame!Pages, Frame!FramePages
    <3> QED BY <3>1, Elsewhere
  <2>3. w # "desktop"
    BY <1>4 DEF Frame!Fitting
  <2>4. inner # {} => "menu" \in dialogs
    BY <2>3 DEF Frame!Fitting, FrameInv
  <2> HIDE DEF dialogs
  <2> QED BY <1>2, <1>3, <2>1, <2>2, <2>4, GoKeeps, Elsewhere
<1>5. CASE ~(Frame!Framed /\ "referral" \in open \ Frame!Fitting(w))
  <2>1. Frame!Show(dialogs)
    BY <1>5 DEF Frame!Resize
  <2>2. dialogs # {} => Frame!Framed
    BY <1>2 DEF FrameInv
  <2> HIDE DEF dialogs
  <2> QED BY <1>3, <2>1, <2>2, ShowKeeps
<1> QED BY <1>4, <1>5

LEMMA FrameStarts == ASSUME Frame!Init  PROVE FrameInv
<1>1. /\ path \in [net : Chains, page : Frame!FramePages] /\ open = {} /\ inner = {}
      /\ timers = [close |-> 0, lock |-> 0, fix |-> 0] /\ body = Frame!Free
  BY DEF Frame!Init
<1>2. FrameShape
  BY <1>1 DEF FrameShape, Waits, Frame!Free, Frame!Pages
<1>3. Stays
  BY <1>1 DEF Stays, Locks
<1>4. Frame!WalletDialogsYield /\ Frame!ReferralOnlyWide
  BY <1>1 DEF Frame!WalletDialogsYield, Frame!ReferralOnlyWide
<1> QED BY <1>1, <1>2, <1>3, <1>4 DEF FrameInv

LEMMA FrameMoves == ASSUME FrameInv, FrameStep  PROVE FrameInv'
<1>1. Remembers /\ Frame!Next
  BY Remembering DEF FrameStep
<1>2. ASSUME NEW m \in Frame!Dialogs \ {"menu"},
             Frame!OpenDialog(m) \/ Frame!CloseDialog(m) \/ Frame!ConnectFrom(m)
      PROVE  FrameInv'
  BY <1>1, <1>2, FrameShows
<1>3. ASSUME NEW p \in Frame!Pages, Frame!Follow(p) \/ Frame!MenuLink(p)  PROVE FrameInv'
  <2>1. path.net \in Chains
    BY DEF FrameInv, FrameShape
  <2> QED BY <1>1, <1>3, <2>1, FrameGoes
<1>4. ASSUME NEW n \in Chains, Frame!ChooseChain(n) \/ Frame!MenuChooseChain(n)  PROVE FrameInv'
  <2>1. "home" \in Frame!Pages
    BY DEF Frame!Pages, Frame!FramePages
  <2> QED BY <1>1, <1>4, <2>1, FrameGoes
<1>5. ASSUME Frame!Burger \/ Frame!MenuStaking  PROVE FrameInv'
  <2>1. "wallet" \in Frame!Dialogs
    BY DEF Frame!Dialogs
  <2> QED BY <1>1, <1>5, <2>1, FrameShows
<1>6. ASSUME NEW w,
             \/ Frame!EagerConnect \/ Frame!UseConnector \/ Frame!WalletLeaves
             \/ Frame!WalletAnswers(w) \/ Frame!Disconnect \/ Frame!Return
      PROVE  FrameInv'
  BY <1>1, <1>6, FrameWallet
<1> QED BY <1>1, <1>2, <1>3, <1>4, <1>5, <1>6, FrameMenu, FrameTimers, FrameResizes DEF Frame!Next

LEMMA FrameSame ==
  ASSUME FrameInv, UNCHANGED <<frameVars, hasty>>  PROVE FrameInv'
<1>1. /\ UNCHANGED <<path, width, facade, open, inner, timers, body, hasty>>
  BY DEF frameVars
<1> QED BY <1>1 DEF FrameInv, FrameShape, Stays, Locks, Frame!Framed, Frame!WalletDialogsYield,
                    Frame!ReferralOnlyWide

LEMMA FrameHolds == ASSUME FrameInv  PROVE FrameYields
BY DEF FrameInv, FrameYields, Stays, StuckOnlyByHaste

-----------------------------------------------------------------------------
(* The notifications.                                                      *)

SocketOf ==
  [of : People, net : Chains, mounted : BOOLEAN,
   state : {"connecting", "open", "asking", "registered", "closed"}, asks : BOOLEAN]

HintShape ==
  /\ holder \in People \cup {Nobody} /\ provider \in Chains
  /\ connections \in [People -> [Chains -> Nat]]
  /\ sockets \in Seq(SocketOf)
  /\ wins \in Seq([to : People, net : Chains, known : BOOLEAN]) /\ Len(wins) <= MaxWins
  /\ told \in [1..MaxWins -> Nat]

SocketsOf(a, n) == {s \in 1..Len(sockets) : sockets[s].of = a /\ sockets[s].net = n}
ComingOf(w) == {c \in coming : c.win = w}

\* A socket is opened when an account is connected.
SocketsAreVisits ==
  \A a \in People, n \in Chains : Cardinality(SocketsOf(a, n)) <= connections[a][n]

\* What is on its way was sent through a socket, of a win there was.
Underway ==
  IsFiniteSet(coming) /\ \A c \in coming : c.by \in 1..Len(sockets) /\ c.win \in 1..Len(wins)

\* Once through each socket, told or on its way.
TellsAreVisits ==
  \A w \in 1..MaxWins :
    /\ w <= Len(wins) =>
         told[w] + Cardinality(ComingOf(w)) <= connections[wins[w].to][wins[w].net]
    /\ w > Len(wins) => told[w] = 0

HintInv == HintShape /\ SocketsAreVisits /\ Underway /\ TellsAreVisits

LEMMA SocketsOfFinite ==
  ASSUME HintShape, NEW a, NEW n
  PROVE  IsFiniteSet(SocketsOf(a, n)) /\ Cardinality(SocketsOf(a, n)) \in Nat
<1>1. IsFiniteSet(1..Len(sockets))
  <2>1. Len(sockets) \in Nat
    BY DEF HintShape
  <2> QED BY <2>1, FS_Interval
<1>2. IsFiniteSet(SocketsOf(a, n))
  BY <1>1, FS_Subset DEF SocketsOf
<1> QED BY <1>2, FS_CardinalityType

LEMMA ComingOfFinite ==
  ASSUME IsFiniteSet(coming), NEW w
  PROVE  IsFiniteSet(ComingOf(w)) /\ Cardinality(ComingOf(w)) \in Nat
<1>1. IsFiniteSet(ComingOf(w))
  BY FS_Subset DEF ComingOf
<1> QED BY <1>1, FS_CardinalityType

LEMMA CopiesOfWin ==
  ASSUME NEW R, IsFiniteSet(R), NEW k
  PROVE  LET C == {[by |-> s, win |-> k] : s \in R} IN
         IsFiniteSet(C) /\ Cardinality(C) = Cardinality(R)
<1> DEFINE C == {[by |-> s, win |-> k] : s \in R}
           f == [s \in R |-> [by |-> s, win |-> k]]
<1> SUFFICES IsFiniteSet(C) /\ Cardinality(C) = Cardinality(R)
  OBVIOUS
<1>1. f \in Bijection(R, C)
  <2>1. f \in [R -> C]
    OBVIOUS
  <2>2. \A s, t \in R : f[s] = f[t] => s = t
    <3> SUFFICES ASSUME NEW s \in R, NEW t \in R, f[s] = f[t]  PROVE s = t
      OBVIOUS
    <3>1. f[s].by = s /\ f[t].by = t
      OBVIOUS
    <3> QED BY <3>1
  <2>3. \A c \in C : \E s \in R : f[s] = c
    OBVIOUS
  <2> HIDE DEF f, C
  <2> QED BY <2>1, <2>2, <2>3 DEF Bijection, Injection, IsInjective, Surjection
<1> HIDE DEF f, C
<1>2. ExistsBijection(R, C)
  BY <1>1 DEF ExistsBijection
<1> QED BY <1>2, FS_Bijection

LEMMA WinsAreTheirs ==
  ASSUME HintShape, NEW w \in 1..Len(wins)
  PROVE  /\ wins[w].to \in People /\ wins[w].net \in Chains
         /\ connections[wins[w].to][wins[w].net] \in Nat
<1>1. wins[w] \in [to : People, net : Chains, known : BOOLEAN]
  BY ElementOfSeq DEF HintShape
<1>2. wins[w].to \in People /\ wins[w].net \in Chains
  BY <1>1
<1>3. connections \in [People -> [Chains -> Nat]]
  BY DEF HintShape
<1> QED BY <1>2, <1>3

\* The steps that open no socket and send no win.
LEMMA HintQuiet ==
  ASSUME HintInv, UNCHANGED <<connections, wins, told>>,
         holder' \in People \cup {Nobody}, provider' \in Chains,
         sockets' \in Seq(SocketOf), Len(sockets') = Len(sockets),
         \A s \in 1..Len(sockets) : sockets'[s].of = sockets[s].of /\ sockets'[s].net = sockets[s].net,
         coming' \subseteq coming
  PROVE  HintInv'
<1>1. HintShape'
  BY DEF HintInv, HintShape
<1>2. \A a, n : SocketsOf(a, n)' = SocketsOf(a, n)
  BY DEF SocketsOf
<1>3. SocketsAreVisits'
  BY <1>2 DEF HintInv, SocketsAreVisits
<1>4. IsFiniteSet(coming) /\ IsFiniteSet(coming')
  BY FS_Subset DEF HintInv, Underway
<1>5. Underway'
  BY <1>4 DEF HintInv, Underway
<1>6. ASSUME NEW w  PROVE Cardinality(ComingOf(w)') <= Cardinality(ComingOf(w))
  <2>1. ComingOf(w)' \subseteq ComingOf(w)
    BY DEF ComingOf
  <2>2. IsFiniteSet(ComingOf(w))
    BY <1>4, ComingOfFinite
  <2> QED BY <2>1, <2>2, FS_Subset
<1>7. \A w : Cardinality(ComingOf(w)) \in Nat /\ Cardinality(ComingOf(w)') \in Nat
  <2>1. ASSUME NEW w  PROVE Cardinality(ComingOf(w)) \in Nat
    BY <1>4, ComingOfFinite
  <2>2. ASSUME NEW w  PROVE Cardinality(ComingOf(w)') \in Nat
    <3>1. IsFiniteSet(ComingOf(w)')
      BY <1>4, FS_Subset DEF ComingOf
    <3> QED BY <3>1, FS_CardinalityType
  <2> QED BY <2>1, <2>2
<1>8. TellsAreVisits'
  <2> SUFFICES ASSUME NEW w \in 1..MaxWins
               PROVE  /\ w <= Len(wins) =>
                           told[w] + Cardinality(ComingOf(w)') <= connections[wins[w].to][wins[w].net]
                      /\ w > Len(wins) => told[w] = 0
    BY DEF TellsAreVisits
  <2>1. told[w] \in Nat /\ Len(wins) \in Nat /\ w \in Nat
    BY PagesAssumption DEF HintInv, HintShape
  <2>2. CASE w <= Len(wins)
    <3>1. w \in 1..Len(wins)
      BY <2>1, <2>2
    <3>2. connections[wins[w].to][wins[w].net] \in Nat
      BY <3>1, WinsAreTheirs DEF HintInv
    <3>3. told[w] + Cardinality(ComingOf(w)) <= connections[wins[w].to][wins[w].net]
      BY <2>2 DEF HintInv, TellsAreVisits
    <3> QED BY <1>6, <1>7, <2>1, <2>2, <3>2, <3>3
  <2>3. CASE w > Len(wins)
    BY <2>1, <2>3 DEF HintInv, TellsAreVisits
  <2> QED BY <2>1, <2>2, <2>3
<1> QED BY <1>1, <1>3, <1>5, <1>8 DEF HintInv

LEMMA SocketIsSocket ==
  ASSUME HintShape, NEW s \in 1..Len(sockets)
  PROVE  sockets[s] \in SocketOf
BY ElementOfSeq DEF HintShape

\* The state of a socket changes, or whether its component is mounted.
LEMMA SocketChange ==
  ASSUME HintShape, NEW s \in 1..Len(sockets),
         NEW state \in {"connecting", "open", "asking", "registered", "closed"},
         sockets' = [sockets EXCEPT ![s].state = state]
  PROVE  /\ sockets' \in Seq(SocketOf) /\ Len(sockets') = Len(sockets)
         /\ \A i \in 1..Len(sockets) :
              sockets'[i].of = sockets[i].of /\ sockets'[i].net = sockets[i].net
<1> DEFINE new == [sockets[s] EXCEPT !.state = state]
<1>1. sockets[s] \in SocketOf
  BY SocketIsSocket
<1>2. new \in SocketOf /\ new.of = sockets[s].of /\ new.net = sockets[s].net
  BY <1>1 DEF SocketOf
<1>3. sockets \in Seq(SocketOf)
  BY DEF HintShape
<1>4. sockets' = [sockets EXCEPT ![s] = new]
  BY <1>3
<1> HIDE DEF new
<1>5. sockets' \in Seq(SocketOf) /\ Len(sockets') = Len(sockets)
  BY <1>2, <1>3, <1>4
<1>6. \A i \in 1..Len(sockets) : sockets'[i] = IF i = s THEN new ELSE sockets[i]
  BY <1>3, <1>4
<1> QED BY <1>2, <1>5, <1>6

LEMMA HintLeft ==
  ASSUME HintInv, NEW n \in Chains, Hints!ChangeNetwork(n)
  PROVE  HintInv'
<1>1. /\ provider' = n /\ holder' = Nobody
      /\ sockets' = [s \in 1..Len(sockets) |-> [sockets[s] EXCEPT !.mounted = FALSE]]
      /\ UNCHANGED <<connections, wins, coming, told>>
  BY DEF Hints!ChangeNetwork, Hints!Sockets
<1>2. HintShape
  BY DEF HintInv
<1>3. ASSUME NEW s \in 1..Len(sockets)
      PROVE  /\ [sockets[s] EXCEPT !.mounted = FALSE] \in SocketOf
             /\ [sockets[s] EXCEPT !.mounted = FALSE].of = sockets[s].of
             /\ [sockets[s] EXCEPT !.mounted = FALSE].net = sockets[s].net
  BY <1>2, SocketIsSocket DEF SocketOf
<1>4. Len(sockets) \in Nat
  BY <1>2 DEF HintShape
<1>5. sockets' \in Seq(SocketOf) /\ Len(sockets') = Len(sockets)
  BY <1>1, <1>3, <1>4
<1>6. \A s \in 1..Len(sockets) :
        sockets'[s].of = sockets[s].of /\ sockets'[s].net = sockets[s].net
  BY <1>1, <1>3
<1> QED BY <1>1, <1>2, <1>5, <1>6, HintQuiet DEF HintShape

LEMMA HintSocket ==
  ASSUME HintInv, NEW s \in 1..Len(sockets), Hints!SocketStep(s) \/ Hints!SocketFails(s)
  PROVE  HintInv'
<1>1. /\ UNCHANGED <<holder, provider, connections, wins, told>> /\ coming' \subseteq coming
      /\ \E state \in {"connecting", "open", "asking", "registered", "closed"} :
            sockets' = [sockets EXCEPT ![s].state = state]
  BY DEF Hints!SocketStep, Hints!Connected, Hints!Register, Hints!SocketFails, Hints!Become,
         Hints!wallet, Hints!screen
<1>2. HintShape
  BY DEF HintInv
<1>3. /\ sockets' \in Seq(SocketOf) /\ Len(sockets') = Len(sockets)
      /\ \A i \in 1..Len(sockets) :
           sockets'[i].of = sockets[i].of /\ sockets'[i].net = sockets[i].net
  BY <1>1, <1>2, SocketChange
<1> QED BY <1>1, <1>2, <1>3, HintQuiet DEF HintShape

\* Nothing of the sockets moves.
LEMMA HintSame ==
  ASSUME HintInv, UNCHANGED <<holder, provider, connections, sockets, wins, coming, told>>
  PROVE  HintInv'
BY HintQuiet DEF HintInv, HintShape

LEMMA HintRender ==
  ASSUME HintInv, NEW a \in People \cup {Nobody}, Hints!Render(a)
  PROVE  HintInv'
<1>1. /\ holder' = a /\ UNCHANGED <<provider, wins, coming, told>>
      /\ sockets' = Hints!Effect(a)
      /\ connections' = IF a \in {holder, Nobody} THEN connections
                        ELSE [connections EXCEPT ![a][provider] = @ + 1]
  BY DEF Hints!Render, Hints!screen
<1>2. HintShape
  BY DEF HintInv
<1>3. CASE a \in {holder, Nobody}
  <2>1. UNCHANGED <<connections, sockets>>
    BY <1>1, <1>3 DEF Hints!Effect
  <2> QED BY <1>1, <1>2, <2>1, HintQuiet DEF HintShape
<1>4. CASE a \notin {holder, Nobody}
  <2> DEFINE new == Hints!Socket(a)
             n == Len(sockets) + 1
  <2>1. sockets' = Append(sockets, new) /\ a \in People
    BY <1>1, <1>4 DEF Hints!Effect
  <2>2. new \in SocketOf /\ new.of = a /\ new.net = provider
    BY <1>2, <2>1 DEF Hints!Socket, SocketOf, HintShape
  <2>3. sockets \in Seq(SocketOf) /\ Len(sockets) \in Nat
    BY <1>2 DEF HintShape
  <2> HIDE DEF new
  <2>4. /\ sockets' \in Seq(SocketOf) /\ Len(sockets') = n
        /\ sockets'[n] = new /\ \A s \in 1..Len(sockets) : sockets'[s] = sockets[s]
    BY <2>1, <2>2, <2>3, AppendProperties
  <2>5. /\ connections' \in [People -> [Chains -> Nat]]
        /\ \A b \in People, k \in Chains : connections'[b][k] =
             IF b = a /\ k = provider THEN connections[b][k] + 1 ELSE connections[b][k]
    <3>1. connections \in [People -> [Chains -> Nat]] /\ provider \in Chains
      BY <1>2 DEF HintShape
    <3>2. connections' = [connections EXCEPT ![a] =
                            [connections[a] EXCEPT ![provider] = connections[a][provider] + 1]]
      BY <1>1, <1>4
    <3>3. connections[a] \in [Chains -> Nat] /\ connections[a][provider] \in Nat
      BY <2>1, <3>1
    <3>4. [connections[a] EXCEPT ![provider] = connections[a][provider] + 1] \in [Chains -> Nat]
      BY <3>1, <3>3
    <3> QED BY <2>1, <3>1, <3>2, <3>3, <3>4
  <2>6. HintShape'
    BY <1>1, <1>2, <2>1, <2>4, <2>5 DEF HintShape
  <2>7. SocketsAreVisits'
    <3> SUFFICES ASSUME NEW b \in People, NEW k \in Chains
                 PROVE  Cardinality(SocketsOf(b, k)') <= connections'[b][k]
      BY DEF SocketsAreVisits
    <3>1. /\ IsFiniteSet(SocketsOf(b, k)) /\ Cardinality(SocketsOf(b, k)) \in Nat
          /\ Cardinality(SocketsOf(b, k)) <= connections[b][k] /\ connections[b][k] \in Nat
      BY <1>2, SocketsOfFinite DEF HintInv, HintShape, SocketsAreVisits
    <3>2. CASE b = a /\ k = provider
      <4>1. SocketsOf(b, k)' = SocketsOf(b, k) \cup {n} /\ n \notin SocketsOf(b, k)
        BY <2>2, <2>3, <2>4, <3>2 DEF SocketsOf
      <4>2. Cardinality(SocketsOf(b, k)') = Cardinality(SocketsOf(b, k)) + 1
        BY <3>1, <4>1, FS_AddElement
      <4> QED BY <2>5, <3>1, <3>2, <4>2
    <3>3. CASE ~(b = a /\ k = provider)
      <4>1. SocketsOf(b, k)' = SocketsOf(b, k)
        BY <2>2, <2>3, <2>4, <3>3 DEF SocketsOf
      <4> QED BY <2>5, <3>1, <3>3, <4>1
    <3> QED BY <3>2, <3>3
  <2>8. Underway'
    BY <1>1, <2>3, <2>4 DEF HintInv, Underway
  <2>9. TellsAreVisits'
    <3> SUFFICES ASSUME NEW w \in 1..MaxWins
                 PROVE  /\ w <= Len(wins) =>
                             told[w] + Cardinality(ComingOf(w)) <= connections'[wins[w].to][wins[w].net]
                        /\ w > Len(wins) => told[w] = 0
      BY <1>1 DEF TellsAreVisits, ComingOf
    <3>1. w > Len(wins) => told[w] = 0
      BY DEF HintInv, TellsAreVisits
    <3>2. ASSUME w <= Len(wins)
          PROVE  told[w] + Cardinality(ComingOf(w)) <= connections'[wins[w].to][wins[w].net]
      <4>1. told[w] + Cardinality(ComingOf(w)) <= connections[wins[w].to][wins[w].net]
        BY <3>2 DEF HintInv, TellsAreVisits
      <4>2. w \in 1..Len(wins)
        <5>1. Len(wins) \in Nat /\ w \in Nat /\ 1 <= w
          BY <1>2, PagesAssumption DEF HintShape
        <5> QED BY <3>2, <5>1
      <4>3. /\ wins[w].to \in People /\ wins[w].net \in Chains
            /\ connections[wins[w].to][wins[w].net] \in Nat
        BY <1>2, <4>2, WinsAreTheirs
      <4>4. told[w] \in Nat /\ Cardinality(ComingOf(w)) \in Nat
        BY <1>2, ComingOfFinite DEF HintShape, HintInv, Underway
      <4>5. connections'[wins[w].to][wins[w].net] \in
              {connections[wins[w].to][wins[w].net], connections[wins[w].to][wins[w].net] + 1}
        BY <2>5, <4>3
      <4> QED BY <4>1, <4>3, <4>4, <4>5
    <3> QED BY <3>1, <3>2
  <2> QED BY <2>6, <2>7, <2>8, <2>9 DEF HintInv
<1> QED BY <1>3, <1>4

LEMMA HintBroadcast ==
  ASSUME HintInv, NEW a \in People, NEW n \in Chains, NEW known \in BOOLEAN,
         Hints!Broadcast(a, n, known)
  PROVE  HintInv'
<1> DEFINE k == Len(wins) + 1
           R == {s \in 1..Len(sockets) :
                   sockets[s].state = "registered" /\ sockets[s].of = a /\ sockets[s].net = n}
           C == {[by |-> s, win |-> k] : s \in R}
           win == [to |-> a, net |-> n, known |-> known]
<1>1. /\ Len(wins) < MaxWins /\ wins' = Append(wins, win) /\ coming' = coming \cup C
      /\ UNCHANGED <<holder, provider, connections, sockets, told>>
  BY DEF Hints!Broadcast, Hints!wallet, Hints!screen, Hints!Sockets
<1>2. HintShape /\ Underway /\ MaxWins \in Nat
  BY PagesAssumption DEF HintInv
<1>3. wins \in Seq([to : People, net : Chains, known : BOOLEAN]) /\ Len(wins) \in Nat
  BY <1>2 DEF HintShape
<1>4. /\ wins' \in Seq([to : People, net : Chains, known : BOOLEAN]) /\ Len(wins') = k
      /\ \A w \in 1..Len(wins) : wins'[w] = wins[w]
      /\ wins'[k] = win
  BY <1>1, <1>3, AppendProperties
<1>5. HintShape'
  BY <1>1, <1>2, <1>3, <1>4 DEF HintShape
<1>6. /\ IsFiniteSet(R) /\ R \subseteq SocketsOf(a, n) /\ Cardinality(R) \in Nat
      /\ Cardinality(R) <= connections[a][n]
  <2>1. R \subseteq SocketsOf(a, n)
    BY DEF SocketsOf
  <2>2. IsFiniteSet(SocketsOf(a, n)) /\ Cardinality(SocketsOf(a, n)) \in Nat
    BY <1>2, SocketsOfFinite
  <2> HIDE DEF R
  <2>3. IsFiniteSet(R) /\ Cardinality(R) <= Cardinality(SocketsOf(a, n)) /\ Cardinality(R) \in Nat
    BY <2>1, <2>2, FS_Subset, FS_CardinalityType
  <2>4. Cardinality(SocketsOf(a, n)) <= connections[a][n] /\ connections[a][n] \in Nat
    BY <1>2 DEF HintInv, SocketsAreVisits, HintShape
  <2> QED BY <2>1, <2>2, <2>3, <2>4
<1>7. IsFiniteSet(C) /\ Cardinality(C) = Cardinality(R)
  <2> HIDE DEF R
  <2> QED BY <1>6, CopiesOfWin
<1>8. \A c \in C : c.by \in 1..Len(sockets) /\ c.win = k
  OBVIOUS
<1> HIDE DEF C
<1>9. Underway'
  <2>1. IsFiniteSet(coming')
    BY <1>1, <1>2, <1>7, FS_Union DEF Underway
  <2>2. \A c \in coming' : c.by \in 1..Len(sockets) /\ c.win \in 1..k
    BY <1>1, <1>2, <1>3, <1>8 DEF Underway
  <2> QED BY <1>1, <1>4, <2>1, <2>2 DEF Underway
<1>10. TellsAreVisits'
  <2> SUFFICES ASSUME NEW w \in 1..MaxWins
               PROVE  /\ w <= k => told[w] + Cardinality(ComingOf(w)') <=
                                     connections[wins'[w].to][wins'[w].net]
                      /\ w > k => told[w] = 0
    BY <1>1, <1>4 DEF TellsAreVisits
  <2>0. w \in Nat /\ 1 <= w
    BY <1>2
  <2>1. CASE w < k
    <3>1. ComingOf(w)' = ComingOf(w)
      BY <1>1, <1>8, <1>3, <2>0, <2>1 DEF ComingOf
    <3>2. w \in 1..Len(wins)
      BY <1>3, <2>0, <2>1
    <3>3. told[w] + Cardinality(ComingOf(w)) <= connections[wins[w].to][wins[w].net]
      BY <3>2 DEF HintInv, TellsAreVisits
    <3>4. ~(w > k)
      BY <1>3, <2>0, <2>1
    <3> QED BY <1>4, <3>1, <3>2, <3>3, <3>4
  <2>2. CASE w = k
    <3>1. ComingOf(w)' = C
      BY <1>1, <1>2, <1>3, <1>8, <2>2 DEF ComingOf, Underway
    <3>2. told[w] = 0
      BY <1>3, <2>2 DEF HintInv, TellsAreVisits
    <3>3. wins'[w].to = a /\ wins'[w].net = n
      BY <1>4, <2>2
    <3> QED BY <1>3, <1>6, <1>7, <2>2, <3>1, <3>2, <3>3
  <2>3. CASE w > k
    BY <1>3, <2>0, <2>3 DEF HintInv, TellsAreVisits
  <2> QED BY <1>3, <2>0, <2>1, <2>2, <2>3
<1>11. SocketsAreVisits'
  BY <1>1 DEF HintInv, SocketsAreVisits, SocketsOf
<1> QED BY <1>5, <1>9, <1>10, <1>11 DEF HintInv

LEMMA HintListen ==
  ASSUME HintInv, NEW c \in coming, Hints!Listen(c)
  PROVE  HintInv'
<1>1. /\ coming' = coming \ {c}
      /\ told' \in {told, [told EXCEPT ![c.win] = @ + 1]}
      /\ UNCHANGED <<holder, provider, connections, sockets, wins>>
  BY DEF Hints!Listen, Hints!wallet
<1>2. HintShape /\ Underway /\ MaxWins \in Nat
  BY PagesAssumption DEF HintInv
<1>3. CASE told' = told
  BY <1>1, <1>2, <1>3, HintQuiet DEF HintShape
<1>4. CASE told' = [told EXCEPT ![c.win] = @ + 1]
  <2>1. c.win \in 1..Len(wins) /\ Len(wins) \in Nat /\ c.win \in 1..MaxWins
    <3>1. Len(wins) \in Nat /\ Len(wins) <= MaxWins
      BY <1>2 DEF HintShape
    <3>2. c.win \in 1..Len(wins)
      BY <1>2 DEF Underway
    <3> QED BY <1>2, <3>1, <3>2
  <2>2. /\ told' \in [1..MaxWins -> Nat]
        /\ \A w \in 1..MaxWins : told'[w] = IF w = c.win THEN told[w] + 1 ELSE told[w]
    <3>1. told \in [1..MaxWins -> Nat]
      BY <1>2 DEF HintShape
    <3> QED BY <1>4, <2>1, <3>1
  <2>3. HintShape'
    BY <1>1, <1>2, <2>2 DEF HintShape
  <2>4. SocketsAreVisits'
    BY <1>1 DEF HintInv, SocketsAreVisits, SocketsOf
  <2>5. IsFiniteSet(coming')
    BY <1>1, <1>2, FS_Subset DEF Underway
  <2>6. Underway'
    BY <1>1, <1>2, <2>5 DEF Underway
  <2>7. TellsAreVisits'
    <3> SUFFICES ASSUME NEW w \in 1..MaxWins
                 PROVE  /\ w <= Len(wins) => told'[w] + Cardinality(ComingOf(w)') <=
                                       connections[wins[w].to][wins[w].net]
                        /\ w > Len(wins) => told'[w] = 0
      BY <1>1 DEF TellsAreVisits
    <3>1. /\ w <= Len(wins) => told[w] + Cardinality(ComingOf(w)) <=
                                 connections[wins[w].to][wins[w].net]
          /\ w > Len(wins) => told[w] = 0
      BY DEF HintInv, TellsAreVisits
    <3>2. CASE w = c.win
      <4>1. ComingOf(w)' = ComingOf(w) \ {c} /\ c \in ComingOf(w)
        BY <1>1, <3>2 DEF ComingOf
      <4>2. IsFiniteSet(ComingOf(w)) /\ Cardinality(ComingOf(w)) \in Nat
        BY <1>2, ComingOfFinite DEF Underway
      <4>3. Cardinality(ComingOf(w)') = Cardinality(ComingOf(w)) - 1
        BY <4>1, <4>2, FS_RemoveElement
      <4>4. told[w] \in Nat /\ told'[w] = told[w] + 1
        BY <1>2, <2>2, <3>2 DEF HintShape
      <4>5. told'[w] + Cardinality(ComingOf(w)') = told[w] + Cardinality(ComingOf(w))
        BY <4>2, <4>3, <4>4
      <4> QED BY <2>1, <3>1, <3>2, <4>5
    <3>3. CASE w # c.win
      <4>1. ComingOf(w)' = ComingOf(w)
        BY <1>1, <3>3 DEF ComingOf
      <4>2. told'[w] = told[w]
        BY <2>2, <3>3
      <4> QED BY <3>1, <4>1, <4>2
    <3> QED BY <3>2, <3>3
  <2> QED BY <2>3, <2>4, <2>6, <2>7 DEF HintInv
<1> QED BY <1>1, <1>3, <1>4

LEMMA HintScreen ==
  ASSUME HintInv,
         \/ \E h \in hints : Hints!CloseHint(h) \/ Hints!AskDetails(h)
         \/ \E d \in asked : Hints!ShowDetails(d) \/ Hints!BalanceFails(d)
         \/ Hints!CloseDetails
  PROVE  HintInv'
<1>1. UNCHANGED <<holder, provider, connections, sockets, wins, coming, told>>
  BY DEF Hints!CloseHint, Hints!AskDetails, Hints!ShowDetails, Hints!BalanceFails,
         Hints!CloseDetails, Hints!wallet, Hints!service
<1> QED BY <1>1, HintSame

LEMMA HintStarts == ASSUME Hints!Init  PROVE HintInv
<1>1. /\ holder = Nobody /\ provider \in Chains
      /\ connections = [a \in People |-> [n \in Chains |-> 0]]
      /\ sockets = <<>> /\ wins = <<>> /\ coming = {}
      /\ told = [w \in 1..MaxWins |-> 0] /\ MaxWins \in Nat
  BY PagesAssumption DEF Hints!Init
<1>2. HintShape
  BY <1>1 DEF HintShape
<1>3. SocketsAreVisits
  <2>1. \A a, n : SocketsOf(a, n) = {}
    BY <1>1 DEF SocketsOf
  <2> QED BY <1>1, <2>1, FS_EmptySet DEF SocketsAreVisits
<1>4. Underway
  BY <1>1, FS_EmptySet DEF Underway
<1>5. TellsAreVisits
  BY <1>1 DEF TellsAreVisits
<1> QED BY <1>2, <1>3, <1>4, <1>5 DEF HintInv

LEMMA HintMoves == ASSUME HintInv, Hints!Next  PROVE HintInv'
BY HintRender, HintLeft, HintSocket, HintBroadcast, HintListen, HintScreen
   DEF Hints!Next, Hints!Holder, Hints!Sockets

LEMMA HintHolds == ASSUME HintInv  PROVE Hints!OncePerVisit
<1> SUFFICES ASSUME NEW w \in 1..Len(wins)
             PROVE  told[w] <= connections[wins[w].to][wins[w].net]
  BY DEF Hints!OncePerVisit
<1>1. HintShape /\ Underway
  BY DEF HintInv
<1>2. Len(wins) \in Nat /\ Len(wins) <= MaxWins /\ MaxWins \in Nat
  BY <1>1, PagesAssumption DEF HintShape
<1>3. w \in 1..MaxWins /\ w <= Len(wins)
  BY <1>2
<1>4. told[w] + Cardinality(ComingOf(w)) <= connections[wins[w].to][wins[w].net]
  BY <1>3 DEF HintInv, TellsAreVisits
<1>5. told[w] \in Nat /\ Cardinality(ComingOf(w)) \in Nat
  BY <1>1, <1>3, ComingOfFinite DEF HintShape, Underway
<1>6. connections[wins[w].to][wins[w].net] \in Nat
  BY <1>1, WinsAreTheirs
<1> QED BY <1>4, <1>5, <1>6

-----------------------------------------------------------------------------
(* The streams.                                                            *)

SubOf ==
  [of : Client, address : People, on : BOOLEAN, listener : {"up", "retrying", "down"}, seen : Nat]

StreamShape ==
  /\ here \subseteq Client /\ registry \in [Client -> Nat] /\ subs \in Seq(SubOf)
  /\ transfers \in Seq([from : People, to : People]) /\ Len(transfers) <= MaxTransfers
  /\ rows \in [People -> Nat]
  /\ sent \in [Client -> [1..MaxTransfers -> Nat]]

\* Of the subscriptions of a client only the last one is on.
OneIsOn ==
  \A s \in 1..Len(subs) : subs[s].on /\ subs[s].of \in here => registry[subs[s].of] = s

\* A transfer is told of when it happens, by the subscription that is on then.
ToldAtMostOnce ==
  \A k \in Client, t \in 1..MaxTransfers :
    sent[k][t] <= 1 /\ (t > Len(transfers) => sent[k][t] = 0)

EthereumInv == StreamShape /\ DOMAIN notices = {} /\ OneIsOn /\ ToldAtMostOnce
StreamInv == protocol = "ethereum" => EthereumInv

LEMMA SubIsSub ==
  ASSUME StreamShape, NEW s \in 1..Len(subs)
  PROVE  subs[s] \in SubOf
BY ElementOfSeq DEF StreamShape

LEMMA StreamQuiet ==
  ASSUME EthereumInv, UNCHANGED <<here, registry, transfers, notices, sent>>,
         rows' \in [People -> Nat],
         subs' \in Seq(SubOf), Len(subs') = Len(subs),
         \A s \in 1..Len(subs) : subs'[s].of = subs[s].of /\ subs'[s].on = subs[s].on
  PROVE  EthereumInv'
<1>1. StreamShape'
  BY DEF EthereumInv, StreamShape
<1>2. OneIsOn'
  BY DEF EthereumInv, OneIsOn
<1>3. ToldAtMostOnce' /\ (DOMAIN notices = {})'
  BY DEF EthereumInv, ToldAtMostOnce
<1> QED BY <1>1, <1>2, <1>3 DEF EthereumInv

LEMMA SubChange ==
  ASSUME StreamShape, NEW s \in 1..Len(subs), NEW new \in SubOf,
         new.of = subs[s].of, new.on = subs[s].on,
         subs' = [subs EXCEPT ![s] = new]
  PROVE  /\ subs' \in Seq(SubOf) /\ Len(subs') = Len(subs)
         /\ \A i \in 1..Len(subs) : subs'[i].of = subs[i].of /\ subs'[i].on = subs[i].on
<1>1. subs \in Seq(SubOf)
  BY DEF StreamShape
<1>2. subs' \in Seq(SubOf) /\ Len(subs') = Len(subs)
  BY <1>1
<1>3. \A i \in 1..Len(subs) : subs'[i] = IF i = s THEN new ELSE subs[i]
  BY <1>1
<1> QED BY <1>2, <1>3

LEMMA StreamSub ==
  ASSUME EthereumInv, NEW s \in 1..Len(subs),
         Server!ListenerFails(s) \/ Server!Retry(s) \/ Server!Watch(s) \/ Server!Reconnect(s)
  PROVE  EthereumInv'
<1>1. StreamShape /\ subs \in Seq(SubOf)
  BY DEF EthereumInv, StreamShape
<1>2. subs[s] \in SubOf
  BY <1>1, SubIsSub
<1>3. rows[subs[s].address] \in Nat
  BY <1>1, <1>2 DEF StreamShape, SubOf
<1>4. /\ UNCHANGED <<here, registry, transfers, notices, sent, rows>>
      /\ \/ \E l \in {"up", "retrying", "down"} : subs' = [subs EXCEPT ![s].listener = l]
         \/ \E n \in Nat : subs' = [subs EXCEPT ![s].seen = n]
  <2>1. CASE Server!ListenerFails(s)
    BY <2>1 DEF Server!ListenerFails, Server!chain, Server!database
  <2>2. CASE Server!Retry(s)
    BY <2>2 DEF Server!Retry, Server!chain, Server!database
  <2>3. CASE Server!Watch(s)
    BY <1>3, <2>3 DEF Server!Watch, Server!Newest, Server!chain, Server!database
  <2>4. CASE Server!Reconnect(s)
    BY <2>4 DEF Server!Reconnect, Server!chain, Server!database
  <2> QED BY <2>1, <2>2, <2>3, <2>4
<1>5. \E new \in SubOf :
        new.of = subs[s].of /\ new.on = subs[s].on /\ subs' = [subs EXCEPT ![s] = new]
  <2>1. ASSUME NEW l \in {"up", "retrying", "down"}, subs' = [subs EXCEPT ![s].listener = l]
        PROVE  \E new \in SubOf : new.of = subs[s].of /\ new.on = subs[s].on /\ subs' = [subs EXCEPT ![s] = new]
    <3> DEFINE new == [subs[s] EXCEPT !.listener = l]
    <3>1. new \in SubOf /\ new.of = subs[s].of /\ new.on = subs[s].on
      BY <1>2 DEF SubOf
    <3>2. subs' = [subs EXCEPT ![s] = new]
      BY <1>1, <2>1
    <3> HIDE DEF new
    <3> QED BY <3>1, <3>2
  <2>2. ASSUME NEW n \in Nat, subs' = [subs EXCEPT ![s].seen = n]
        PROVE  \E new \in SubOf : new.of = subs[s].of /\ new.on = subs[s].on /\ subs' = [subs EXCEPT ![s] = new]
    <3> DEFINE new == [subs[s] EXCEPT !.seen = n]
    <3>1. new \in SubOf /\ new.of = subs[s].of /\ new.on = subs[s].on
      BY <1>2 DEF SubOf
    <3>2. subs' = [subs EXCEPT ![s] = new]
      BY <1>1, <2>2
    <3> HIDE DEF new
    <3> QED BY <3>1, <3>2
  <2> QED BY <1>4, <2>1, <2>2
<1>6. /\ subs' \in Seq(SubOf) /\ Len(subs') = Len(subs)
      /\ \A i \in 1..Len(subs) : subs'[i].of = subs[i].of /\ subs'[i].on = subs[i].on
  BY <1>1, <1>5, SubChange
<1> QED BY <1>1, <1>4, <1>6, StreamQuiet DEF StreamShape

LEMMA StreamWin ==
  ASSUME EthereumInv, NEW a \in People, Server!Win(a)
  PROVE  EthereumInv'
<1>1. UNCHANGED <<here, registry, subs, transfers, notices, sent>> /\ rows' = [rows EXCEPT ![a] = @ + 1]
  BY DEF Server!Win, Server!clients, Server!chain
<1>2. rows \in [People -> Nat] /\ subs \in Seq(SubOf)
  BY DEF EthereumInv, StreamShape
<1>3. rows' \in [People -> Nat]
  BY <1>1, <1>2
<1> QED BY <1>1, <1>2, <1>3, StreamQuiet

LEMMA StreamLeave ==
  ASSUME EthereumInv, NEW k \in Client, Server!Leave(k)
  PROVE  EthereumInv'
<1>1. /\ here' = here \ {k} /\ registry' = [registry EXCEPT ![k] = 0]
      /\ UNCHANGED <<subs, transfers, notices, rows, sent>>
  BY DEF Server!Leave, Server!chain, Server!database
<1>2. StreamShape'
  BY <1>1 DEF EthereumInv, StreamShape
<1>3. OneIsOn'
  <2>1. ASSUME NEW s \in 1..Len(subs), subs[s].on, subs[s].of \in here \ {k}
        PROVE  registry'[subs[s].of] = s
    <3>1. registry[subs[s].of] = s
      BY <2>1 DEF EthereumInv, OneIsOn
    <3>2. registry'[subs[s].of] = registry[subs[s].of]
      BY <1>1, <2>1 DEF EthereumInv, StreamShape
    <3> QED BY <3>1, <3>2
  <2> QED BY <1>1, <2>1 DEF OneIsOn
<1>4. ToldAtMostOnce' /\ (DOMAIN notices = {})'
  BY <1>1 DEF EthereumInv, ToldAtMostOnce
<1> QED BY <1>2, <1>3, <1>4 DEF EthereumInv

LEMMA StreamSubscribe ==
  ASSUME EthereumInv, NEW k \in Client, NEW a \in People, Server!Subscribe(k, a)
  PROVE  EthereumInv'
<1> DEFINE stopped == Server!Stopped(k)
           new == Server!Subscription(k, a)
           n == Len(subs) + 1
<1>1. /\ k \in here /\ subs' = Append(stopped, new) /\ registry' = [registry EXCEPT ![k] = n]
      /\ UNCHANGED <<here, transfers, notices, rows, sent>>
  BY DEF Server!Subscribe, Server!chain, Server!database
<1>2. StreamShape /\ subs \in Seq(SubOf) /\ Len(subs) \in Nat
  BY DEF EthereumInv, StreamShape
<1>3. new \in SubOf /\ new.of = k
  BY DEF Server!Subscription, SubOf
<1>4. stopped = [s \in 1..Len(subs) |->
                   IF s = registry[k] THEN [subs[s] EXCEPT !.on = FALSE] ELSE subs[s]]
  BY DEF Server!Stopped, Server!Subs
<1>5. ASSUME NEW s \in 1..Len(subs)
      PROVE  /\ subs[s] \in SubOf /\ [subs[s] EXCEPT !.on = FALSE] \in SubOf
             /\ [subs[s] EXCEPT !.on = FALSE].of = subs[s].of
             /\ [subs[s] EXCEPT !.on = FALSE].on = FALSE
  BY <1>2, SubIsSub DEF SubOf
<1>6. stopped \in Seq(SubOf) /\ Len(stopped) = Len(subs)
  BY <1>2, <1>4, <1>5
<1>7. \A s \in 1..Len(subs) : /\ stopped[s].of = subs[s].of
                              /\ s = registry[k] => stopped[s].on = FALSE
                              /\ s # registry[k] => stopped[s].on = subs[s].on
  BY <1>4, <1>5
<1> HIDE DEF stopped, new
<1>8. /\ subs' \in Seq(SubOf) /\ Len(subs') = n /\ subs'[n] = new
      /\ \A s \in 1..Len(subs) : subs'[s] = stopped[s]
  BY <1>1, <1>3, <1>6, AppendProperties
<1>9. StreamShape'
  BY <1>1, <1>2, <1>8 DEF StreamShape
<1>10. OneIsOn'
  <2> SUFFICES ASSUME NEW s \in 1..n, subs'[s].on, subs'[s].of \in here
               PROVE  registry'[subs'[s].of] = s
    BY <1>1, <1>8 DEF OneIsOn
  <2>1. registry \in [Client -> Nat] /\ here \subseteq Client
    BY <1>2 DEF StreamShape
  <2>2. CASE s = n
    BY <1>1, <1>3, <1>8, <2>1, <2>2
  <2>3. CASE s # n
    <3>1. s \in 1..Len(subs)
      BY <1>2, <2>3
    <3>2. subs'[s].of = subs[s].of
      BY <1>7, <1>8, <3>1
    <3>3. s # registry[k]
      BY <1>7, <1>8, <3>1
    <3>4. subs[s].on
      BY <1>7, <1>8, <3>1, <3>3
    <3>5. registry[subs[s].of] = s
      BY <3>1, <3>2, <3>4 DEF EthereumInv, OneIsOn
    <3> QED BY <1>1, <2>1, <3>2, <3>3, <3>5
  <2> QED BY <2>2, <2>3
<1>11. ToldAtMostOnce' /\ (DOMAIN notices = {})'
  BY <1>1 DEF EthereumInv, ToldAtMostOnce
<1> QED BY <1>9, <1>10, <1>11 DEF EthereumInv

\* What the instances count with is what the library's theorems are about.
LEMMA SameCardinality ==
  ASSUME NEW S
  PROVE  Server!Cardinality(S) = Cardinality(S) /\ Tables!Cardinality(S) = Cardinality(S)
BY DEF Server!Cardinality, Tables!Cardinality, Cardinality

LEMMA StreamTransfer ==
  ASSUME EthereumInv, protocol = "ethereum", NEW a \in People, NEW b \in People,
         Server!Transfer(a, b)
  PROVE  EthereumInv'
<1> DEFINE tr == [from |-> a, to |-> b]
<1>0. PICK t, up : t = Len(transfers) + 1 /\ up = {s \in 1..Len(subs) : subs[s].listener = "up"}
  OBVIOUS
<1>1. /\ t <= MaxTransfers /\ transfers' = Append(transfers, tr)
      /\ sent' = [k \in Client |-> [sent[k] EXCEPT ![t] = @ + Server!Emits(k, t, up)]]
      /\ UNCHANGED <<here, registry, subs, rows, notices>>
  BY <1>0 DEF Server!Transfer, Server!Tell, Server!clients, Server!database, Server!Subs
<1>2. /\ transfers \in Seq([from : People, to : People]) /\ Len(transfers) \in Nat
      /\ sent \in [Client -> [1..MaxTransfers -> Nat]] /\ MaxTransfers \in Nat
      /\ Len(subs) \in Nat
  BY PagesAssumption DEF EthereumInv, StreamShape
<1>3. /\ transfers' \in Seq([from : People, to : People]) /\ Len(transfers') = t
  BY <1>0, <1>1, <1>2, AppendProperties
<1>4. t \in 1..MaxTransfers
  BY <1>0, <1>1, <1>2
<1>5. ASSUME NEW k \in Client  PROVE Server!Emits(k, t, up) \in {0, 1}
  <2> DEFINE E == {s \in up : subs[s].of = k /\ Server!Concerns(s, t)}
  <2>1. Server!Emits(k, t, up) = IF k \in here THEN Cardinality(E) ELSE 0
    BY SameCardinality DEF Server!Emits
  <2>2. ASSUME k \in here  PROVE Cardinality(E) \in {0, 1}
    <3>1. E \subseteq {registry[k]}
      BY <1>0, <2>2 DEF EthereumInv, OneIsOn, Server!Concerns
    <3>2. IsFiniteSet({registry[k]}) /\ Cardinality({registry[k]}) = 1
      BY FS_Singleton
    <3> HIDE DEF E
    <3>3. IsFiniteSet(E) /\ Cardinality(E) <= 1 /\ Cardinality(E) \in Nat
      BY <3>1, <3>2, FS_Subset, FS_CardinalityType
    <3> QED BY <3>3
  <2> HIDE DEF E
  <2> QED BY <2>1, <2>2
<1> HIDE DEF tr
<1>6. ASSUME NEW k \in Client
      PROVE  /\ sent'[k] \in [1..MaxTransfers -> Nat]
             /\ \A i \in 1..MaxTransfers :
                  sent'[k][i] = IF i = t THEN sent[k][i] + Server!Emits(k, t, up) ELSE sent[k][i]
  <2>1. sent'[k] = [sent[k] EXCEPT ![t] = @ + Server!Emits(k, t, up)]
    BY <1>1
  <2>2. sent[k] \in [1..MaxTransfers -> Nat]
    BY <1>2
  <2>3. PICK e \in Nat : e = Server!Emits(k, t, up)
    BY <1>5
  <2>4. sent'[k] = [sent[k] EXCEPT ![t] = sent[k][t] + e]
    BY <2>1, <2>3, Zenon
  <2>5. /\ sent'[k] \in [1..MaxTransfers -> Nat]
        /\ \A i \in 1..MaxTransfers : sent'[k][i] = IF i = t THEN sent[k][i] + e ELSE sent[k][i]
    <3>1. PICK f : f = sent[k]
      OBVIOUS
    <3>2. f \in [1..MaxTransfers -> Nat] /\ sent'[k] = [f EXCEPT ![t] = f[t] + e]
      BY <2>2, <2>4, <3>1
    <3>3. f[t] + e \in Nat
      BY <1>2, <1>4, <3>2
    <3>4. [f EXCEPT ![t] = f[t] + e] \in [1..MaxTransfers -> Nat]
      BY <3>2, <3>3
    <3>5. \A i \in 1..MaxTransfers : [f EXCEPT ![t] = f[t] + e][i] = IF i = t THEN f[t] + e ELSE f[i]
      BY <3>2
    <3> QED BY <3>1, <3>2, <3>4, <3>5
  <2> QED BY <2>3, <2>5, Zenon
<1>7. sent' \in [Client -> [1..MaxTransfers -> Nat]]
  BY <1>1, <1>6
<1>8. StreamShape'
  BY <1>0, <1>1, <1>3, <1>7 DEF EthereumInv, StreamShape
<1>9. ToldAtMostOnce'
  <2> SUFFICES ASSUME NEW k \in Client, NEW i \in 1..MaxTransfers
               PROVE  sent'[k][i] <= 1 /\ (i > t => sent'[k][i] = 0)
    BY <1>3 DEF ToldAtMostOnce
  <2>1. sent[k][i] <= 1 /\ (i > Len(transfers) => sent[k][i] = 0)
    BY DEF EthereumInv, ToldAtMostOnce
  <2>2. sent[k][i] \in Nat /\ i \in Nat
    BY <1>2
  <2>3. CASE i = t
    <3>1. sent[k][i] = 0
      BY <1>0, <1>2, <2>1, <2>3
    <3> QED BY <1>5, <1>6, <2>3, <3>1
  <2>4. CASE i # t
    <3>1. sent'[k][i] = sent[k][i]
      BY <1>6, <2>4
    <3> QED BY <1>0, <1>2, <2>1, <2>2, <3>1
  <2> QED BY <2>3, <2>4
<1>10. OneIsOn' /\ (DOMAIN notices = {})'
  BY <1>1 DEF EthereumInv, OneIsOn
<1> QED BY <1>8, <1>9, <1>10 DEF EthereumInv

LEMMA StreamStarts == ASSUME Server!Init  PROVE StreamInv
<1>1. /\ here = Client /\ registry = [k \in Client |-> 0] /\ subs = <<>>
      /\ transfers = <<>> /\ notices = [d \in {} |-> 0]
      /\ rows = [a \in People |-> 0]
      /\ sent = [k \in Client |-> [t \in 1..MaxTransfers |-> 0]]
  BY DEF Server!Init
<1>2. StreamShape
  BY <1>1, PagesAssumption DEF StreamShape
<1>3. OneIsOn
  BY <1>1 DEF OneIsOn
<1>4. ToldAtMostOnce /\ DOMAIN notices = {}
  BY <1>1 DEF ToldAtMostOnce
<1> QED BY <1>2, <1>3, <1>4 DEF StreamInv, EthereumInv

LEMMA StreamMoves == ASSUME StreamInv, Server!Next  PROVE StreamInv'
<1>1. ASSUME protocol = "ethereum"  PROVE EthereumInv'
  <2>1. EthereumInv
    BY <1>1 DEF StreamInv
  <2>2. DOMAIN notices = {}
    BY <2>1 DEF EthereumInv
  <2> QED BY <1>1, <2>1, <2>2, StreamSubscribe, StreamLeave, StreamTransfer, StreamSub, StreamWin
          DEF Server!Next, Server!Subs
<1>2. protocol' = protocol
  BY DEF Server!Next, Server!Subscribe, Server!Leave, Server!Transfer, Server!ReadLog, Server!ReadFails,
         Server!ListenerFails, Server!Retry, Server!Watch, Server!Reconnect, Server!Win, Server!chain
<1> QED BY <1>1, <1>2 DEF StreamInv

LEMMA StreamHolds == ASSUME StreamInv  PROVE Server!ToldOnce
<1> SUFFICES ASSUME protocol = "ethereum", NEW k \in Client, NEW t \in 1..Len(transfers)
             PROVE  sent[k][t] <= 1
  BY DEF Server!ToldOnce, Server!Transfers
<1>1. EthereumInv
  BY DEF StreamInv
<1>2. t \in 1..MaxTransfers
  BY <1>1, PagesAssumption DEF EthereumInv, StreamShape
<1> QED BY <1>1, <1>2 DEF EthereumInv, ToldAtMostOnce

-----------------------------------------------------------------------------
(* The tables: what the routes answer.                                     *)

LEMMA SmallestOf ==
  ASSUME NEW T \in SUBSET Nat, T # {}
  PROVE  \E x \in T : \A y \in T : x <= y
<1>1. PICK x \in T : \A y \in T : <<y, x>> \notin OpToRel(<, Nat)
  BY NatLessThanWellFounded, WFMin
<1>2. \A y \in T : ~(y < x)
  BY <1>1 DEF OpToRel
<1> QED BY <1>2

Above(S, m) == {j \in S : j >= m}

LEMMA AboveSteps ==
  ASSUME NEW n \in Nat, NEW S \in SUBSET (1..n)
  PROVE  /\ Above(S, n + 1) = {} /\ Above(S, 1) = S
         /\ \A i \in Nat : i \notin S => Above(S, i) = Above(S, i + 1)
         /\ \A i \in S : Above(S, i) = Above(S, i + 1) \cup {i} /\ i \notin Above(S, i + 1)
<1>1. \A j \in S : j \in Nat /\ 1 <= j /\ j <= n
  OBVIOUS
<1>2. Above(S, n + 1) = {} /\ Above(S, 1) = S
  <2>1. \A j \in S : ~(j >= n + 1) /\ j >= 1
    BY <1>1
  <2> QED BY <2>1 DEF Above
<1>3. ASSUME NEW i \in Nat, i \notin S  PROVE Above(S, i) = Above(S, i + 1)
  <2>1. \A j \in S : j >= i <=> j >= i + 1
    BY <1>1, <1>3
  <2> QED BY <2>1 DEF Above
<1>4. ASSUME NEW i \in S
      PROVE  Above(S, i) = Above(S, i + 1) \cup {i} /\ i \notin Above(S, i + 1)
  <2>1. \A j \in S : j >= i <=> j >= i + 1 \/ j = i
    BY <1>1
  <2>2. ~(i >= i + 1)
    BY <1>1
  <2> QED BY <2>1, <2>2 DEF Above
<1> QED BY <1>2, <1>3, <1>4

\* From above, the members of a set of numbers are counted one at a time.
LEMMA CountedFromAbove ==
  ASSUME NEW n \in Nat, NEW S \in SUBSET (1..n), NEW k \in 1..Cardinality(S)
  PROVE  \E i \in S : Cardinality({j \in S : j >= i}) = k
<1> DEFINE Few == {m \in Nat : m >= 1 /\ Cardinality(Above(S, m)) < k}
<1>1. IsFiniteSet(S) /\ Cardinality(S) \in Nat /\ k \in Nat \ {0} /\ k <= Cardinality(S)
  <2>1. IsFiniteSet(1..n)
    BY FS_Interval
  <2>2. IsFiniteSet(S)
    BY <2>1, FS_Subset
  <2> QED BY <2>2, FS_CardinalityType
<1>2. ASSUME NEW m  PROVE IsFiniteSet(Above(S, m)) /\ Cardinality(Above(S, m)) \in Nat
  <2>1. IsFiniteSet(Above(S, m))
    BY <1>1, FS_Subset DEF Above
  <2> QED BY <2>1, FS_CardinalityType
<1>3. Above(S, n + 1) = {} /\ Above(S, 1) = S
  BY AboveSteps
<1>4. n + 1 \in Few
  <2>1. Cardinality(Above(S, n + 1)) = 0
    BY <1>3, FS_EmptySet
  <2> QED BY <1>1, <2>1
<1>5. PICK m \in Few : \A x \in Few : m <= x
  <2>1. Few \subseteq Nat /\ Few # {}
    BY <1>4
  <2> HIDE DEF Few
  <2> QED BY <2>1, SmallestOf
<1>6. m \in Nat /\ m >= 1 /\ Cardinality(Above(S, m)) < k
  BY <1>5
<1>7. m # 1
  BY <1>1, <1>3, <1>6
<1>8. PICK i \in Nat : i + 1 = m /\ i >= 1
  <2>1. m - 1 \in Nat /\ (m - 1) + 1 = m /\ m - 1 >= 1
    BY <1>6, <1>7
  <2> QED BY <2>1
<1>9. ~(Cardinality(Above(S, i)) < k)
  <2>1. i \notin Few
    BY <1>5, <1>6, <1>8
  <2> QED BY <1>8, <2>1
<1>10. i \in S
  <2>1. Above(S, i) # Above(S, m)
    BY <1>6, <1>9
  <2> QED BY <1>8, <2>1, AboveSteps
<1>11. Cardinality(Above(S, i)) = Cardinality(Above(S, m)) + 1
  <2>1. Above(S, i) = Above(S, m) \cup {i} /\ i \notin Above(S, m)
    BY <1>8, <1>10, AboveSteps
  <2> QED BY <1>2, <2>1, FS_AddElement
<1>12. Cardinality(Above(S, i)) = k
  BY <1>1, <1>2, <1>6, <1>9, <1>11
<1> QED BY <1>10, <1>12 DEF Above

Asker == People \cup {Tables!Everybody}

LEMMA OwnRows ==
  ASSUME NEW n \in 0..Len(Owner), NEW who
  PROVE  /\ Tables!Own(n, who) \in SUBSET (1..n) /\ IsFiniteSet(Tables!Own(n, who))
         /\ Cardinality(Tables!Own(n, who)) \in Nat
<1>1. n \in Nat
  BY PagesAssumption DEF Tables!ActivityAssumption
<1>2. Tables!Own(n, who) \subseteq 1..n
  BY DEF Tables!Own
<1>3. IsFiniteSet(Tables!Own(n, who))
  <2>1. IsFiniteSet(1..n)
    BY <1>1, FS_Interval
  <2> QED BY <1>2, <2>1, FS_Subset
<1> QED BY <1>2, <1>3, FS_CardinalityType

\* The rows are the asker's own, and as many.
LEMMA RowsAreOwn ==
  ASSUME NEW n \in 0..Len(Owner), NEW who \in Asker
  PROVE  /\ Len(Tables!RowsOf[n][who]) = Cardinality(Tables!Own(n, who))
         /\ Len(Tables!RowsOf[n][who]) \in Nat
         /\ \A k \in 1..Len(Tables!RowsOf[n][who]) : Tables!RowsOf[n][who][k] \in Tables!Own(n, who)
<1> DEFINE S == Tables!Own(n, who)
           R == Tables!RowsOf[n][who]
           nth(k) == CHOOSE i \in S : Cardinality({j \in S : j >= i}) = k
<1>1. S \in SUBSET (1..n) /\ Cardinality(S) \in Nat /\ n \in Nat
  BY OwnRows, PagesAssumption DEF Tables!ActivityAssumption
<1>2. R = [k \in 1..Cardinality(S) |-> nth(k)]
  BY SameCardinality DEF Tables!RowsOf, Asker
<1>3. ASSUME NEW k \in 1..Cardinality(S)  PROVE nth(k) \in S
  <2>1. \E i \in S : Cardinality({j \in S : j >= i}) = k
    BY <1>1, CountedFromAbove
  <2> QED BY <2>1
<1> HIDE DEF S, R, nth
<1>4. Len(R) = Cardinality(S)
  BY <1>1, <1>2
<1>5. \A k \in 1..Len(R) : R[k] \in S
  BY <1>2, <1>3, <1>4
<1> QED BY <1>1, <1>4, <1>5 DEF S, R

\* With time there are more.
LEMMA RowsGrow ==
  ASSUME NEW n \in 0..Len(Owner), n + 1 \in 0..Len(Owner), NEW who \in Asker
  PROVE  Len(Tables!RowsOf[n][who]) <= Len(Tables!RowsOf[n + 1][who])
<1>1. n \in Nat
  BY PagesAssumption DEF Tables!ActivityAssumption
<1>2. Tables!Own(n, who) \subseteq Tables!Own(n + 1, who)
  BY <1>1 DEF Tables!Own
<1>3. IsFiniteSet(Tables!Own(n + 1, who))
  BY OwnRows
<1>4. Cardinality(Tables!Own(n, who)) <= Cardinality(Tables!Own(n + 1, who))
  BY <1>2, <1>3, FS_Subset
<1> QED BY <1>4, RowsAreOwn

Theirs(rows_, who) == \A i \in DOMAIN rows_ : Owner[rows_[i]] = who

LEMMA PageIsOwn ==
  ASSUME size \in 0..Len(Owner), NEW who \in People, NEW p \in Nat \ {0}
  PROVE  Theirs(Tables!PageOf(who, p), who)
<1> DEFINE R == Tables!RowsOf[size][who]
           S == Tables!Own(size, who)
           a == (p - 1) * PerPage + 1
           b == Tables!Min2(p * PerPage, Len(R))
<1>1. who \in Asker /\ who # Tables!Everybody /\ PerPage \in Nat
  BY PagesAssumption DEF Tables!ActivityAssumption, Asker
<1>2. Len(R) \in Nat /\ \A k \in 1..Len(R) : R[k] \in S
  BY <1>1, RowsAreOwn
<1>3. \A k \in S : Owner[k] = who
  BY <1>1 DEF Tables!Own
<1>4. Tables!PageOf(who, p) = SubSeq(R, a, b)
  BY DEF Tables!PageOf
<1>5. (p - 1) * PerPage \in Nat /\ p * PerPage \in Nat
  BY <1>1
<1>6. a \in Int /\ b \in Int /\ a >= 1 /\ b <= Len(R)
  BY <1>2, <1>5 DEF Tables!Min2
<1> HIDE DEF R, S, a, b
<1>7. \A k \in a..b : R[k] \in S
  BY <1>2, <1>6
<1>8. SubSeq(R, a, b) \in Seq(S)
  BY <1>6, <1>7, SubSeqProperties
<1>9. ASSUME NEW i \in DOMAIN SubSeq(R, a, b)  PROVE SubSeq(R, a, b)[i] \in S
  <2>1. i \in 1..Len(SubSeq(R, a, b))
    BY <1>8
  <2> QED BY <1>8, <2>1, ElementOfSeq
<1> QED BY <1>3, <1>4, <1>9 DEF Theirs

LEMMA AnswerIsOwn ==
  ASSUME size \in 0..Len(Owner), NEW who, NEW p \in Nat \ {0}
  PROVE  /\ Tables!AnswerRows(who, p).page \in {0, p}
         /\ who \in People => Theirs(Tables!AnswerRows(who, p).rows, who)
<1>1. Tables!AnswerRows(who, p).page \in {0, p}
  BY DEF Tables!AnswerRows, Tables!NoRows
<1>2. Tables!AnswerRows(who, p).rows \in {<<>>, Tables!PageOf(who, p)}
  BY DEF Tables!AnswerRows, Tables!NoRows
<1>3. Theirs(<<>>, who)
  BY DEF Theirs
<1> QED BY <1>1, <1>2, <1>3, PageIsOwn

LEMMA HomeIsOwn ==
  ASSUME size \in 0..Len(Owner), NEW who \in Asker
  PROVE  /\ Tables!AnswerHome(who).whose = who
         /\ Tables!AnswerHome(who).count = Len(Tables!RowsOf[size][who])
         /\ Tables!AnswerHome(who).count \in Nat
BY RowsAreOwn DEF Tables!AnswerHome

\* As many pages as the routes answer for.
LEMMA PagesAreAnswered ==
  ASSUME NEW n \in Nat, n <= Cap
  PROVE  (n + PerPage - 1) \div PerPage <= LastPage
<1> DEFINE x == n + PerPage - 1
           q == x \div PerPage
<1>1. PerPage \in Nat \ {0} /\ LastPage \in Nat /\ Cap \in Nat /\ Cap <= LastPage * PerPage
  BY PagesAssumption DEF Tables!ActivityAssumption
<1>2. LastPage * PerPage \in Nat
  BY <1>1
<1>3. x \in Nat /\ x < LastPage * PerPage + PerPage
  BY <1>1, <1>2
<1>4. q \in Nat /\ x % PerPage \in Nat /\ x = PerPage * q + (x % PerPage)
  <2> HIDE DEF x
  <2> QED BY <1>1, <1>3
<1> HIDE DEF x, q
<1>5. SUFFICES ASSUME LastPage + 1 <= q  PROVE FALSE
  BY <1>1, <1>4 DEF q, x
<1>6. PICK d \in Nat : q = LastPage + 1 + d
  <2>1. q - (LastPage + 1) \in Nat /\ q = LastPage + 1 + (q - (LastPage + 1))
    BY <1>1, <1>4, <1>5
  <2> QED BY <2>1
<1>7. PerPage * q = LastPage * PerPage + PerPage + PerPage * d /\ PerPage * d \in Nat
  BY <1>1, <1>6
<1> QED BY <1>1, <1>2, <1>3, <1>4, <1>7

-----------------------------------------------------------------------------
(* The tables: what is shown.                                              *)

FetcherOK(f) ==
  f = [question |-> f.question, data |-> f.data] /\ f.question \in {<<>>} \cup (People \X Tables!Pages)

TableShape ==
  /\ size \in 0..Len(Owner) /\ user \in People \cup {Nobody}
  /\ page \in Tables!Pages /\ filter \in {0, 1}
  /\ FetcherOK(rowsFetcher) /\ FetcherOK(homeFetcher)
  /\ rowsCache = [p \in Tables!Pages |-> rowsCache[p]]
  /\ homeFetcher.data.count \in Nat /\ homeCache.count \in Nat /\ shown.home.count \in Nat

\* The rows in the cache are of the page in their key.
Cached == \A p \in Tables!Pages : rowsCache[p].page \in {0, p}

Filtered == filter = 1 => user # Nobody

\* What a connected account's fetchers have, or are waiting for, is its own, of this page.
RowsAreTheirs ==
  /\ Tables!Busy(rowsFetcher) => rowsFetcher.question = <<user, page>>
  /\ ~Tables!Busy(rowsFetcher) =>
       Theirs(rowsFetcher.data.rows, user) /\ rowsFetcher.data.page \in {0, page}
HomeIsTheirs ==
  /\ Tables!Busy(homeFetcher) => homeFetcher.question[1] = user
  /\ ~Tables!Busy(homeFetcher) =>
       /\ homeFetcher.data.whose = user
       /\ homeFetcher.data.count <= Len(Tables!RowsOf[size][user])
Fetched == user # Nobody /\ route # "error" => RowsAreTheirs /\ HomeIsTheirs

\* The memoized view: the account's is what its fetchers have; everybody's is of the
\* same page as the rows in the cache, if not as new.
View ==
  route # "error" =>
    /\ filter = 1 => shown = [table |-> rowsFetcher.data, home |-> homeFetcher.data]
    /\ filter = 0 => shown.table.page = rowsCache[page].page

Turned == page \in 1..LastPage \/ typed

TableInv == TableShape /\ Cached /\ Filtered /\ Fetched /\ View /\ Turned

LEMMA Loading ==
  ASSUME NEW f, FetcherOK(f), NEW who \in People \cup {Nobody}, NEW p \in Tables!Pages
  PROVE  /\ FetcherOK(Tables!Load(f, who, p)) /\ Tables!Load(f, who, p).data = f.data
         /\ who # Nobody => /\ Tables!Busy(Tables!Load(f, who, p))
                            /\ Tables!Load(f, who, p).question = <<who, p>>
                            /\ Tables!Load(f, who, p).question[1] = who
         /\ who = Nobody => Tables!Load(f, who, p) = f
<1>1. CASE who = Nobody
  BY <1>1 DEF Tables!Load
<1>2. CASE who # Nobody
  <2> DEFINE g == [f EXCEPT !.question = <<who, p>>]
  <2>1. Tables!Load(f, who, p) = g
    BY <1>2 DEF Tables!Load
  <2>2. g = [question |-> <<who, p>>, data |-> f.data]
    BY DEF FetcherOK
  <2>3. g.question = <<who, p>> /\ g.data = f.data
    BY <2>2
  <2>4. <<who, p>> \in People \X Tables!Pages /\ <<who, p>> # <<>> /\ <<who, p>>[1] = who
    BY <1>2
  <2> HIDE DEF g
  <2> QED BY <1>2, <2>1, <2>2, <2>3, <2>4 DEF FetcherOK, Tables!Busy
<1> QED BY <1>1, <1>2

LEMMA LoadingBoth ==
  ASSUME TableShape, NEW who \in People \cup {Nobody}, NEW p \in Tables!Pages,
         rowsFetcher' = Tables!Load(rowsFetcher, who, p),
         homeFetcher' = Tables!Load(homeFetcher, who, p)
  PROVE  /\ FetcherOK(rowsFetcher') /\ FetcherOK(homeFetcher')
         /\ rowsFetcher'.data = rowsFetcher.data /\ homeFetcher'.data = homeFetcher.data
         /\ who # Nobody => /\ Tables!Busy(rowsFetcher') /\ rowsFetcher'.question = <<who, p>>
                            /\ Tables!Busy(homeFetcher') /\ homeFetcher'.question[1] = who
<1>1. FetcherOK(rowsFetcher) /\ FetcherOK(homeFetcher)
  BY DEF TableShape
<1>2. /\ FetcherOK(rowsFetcher') /\ rowsFetcher'.data = rowsFetcher.data
      /\ who # Nobody => Tables!Busy(rowsFetcher') /\ rowsFetcher'.question = <<who, p>>
  BY <1>1, Loading
<1>3. /\ FetcherOK(homeFetcher') /\ homeFetcher'.data = homeFetcher.data
      /\ who # Nobody => Tables!Busy(homeFetcher') /\ homeFetcher'.question[1] = who
  BY <1>1, Loading
<1> QED BY <1>2, <1>3

LEMMA Landed ==
  ASSUME NEW data
  PROVE  /\ FetcherOK(Tables!NotFetched(data)) /\ Tables!NotFetched(data).data = data
         /\ ~Tables!Busy(Tables!NotFetched(data))
BY DEF Tables!NotFetched, FetcherOK, Tables!Busy

\* A render that finds nothing changed shows what is no older than a change.
LEMMA Rendered ==
  ASSUME TableInv, route # "error", NEW newHome \in BOOLEAN, Tables!Render(newHome),
         filter' \in {0, 1}, homeFetcher'.data.count \in Nat, homeCache'.count \in Nat,
         rowsFetcher'.data = rowsFetcher.data \/ Tables!Busy(rowsFetcher') # Tables!Busy(rowsFetcher),
         homeFetcher'.data = homeFetcher.data \/ Tables!Busy(homeFetcher') # Tables!Busy(homeFetcher)
  PROVE  View' /\ shown'.home.count \in Nat
<1> DEFINE M == Tables!Memo(filter', rowsFetcher', homeFetcher', rowsCache', homeCache', page')
           changed == \/ filter' # filter \/ Tables!Busy(rowsFetcher') # Tables!Busy(rowsFetcher)
                      \/ Tables!Busy(homeFetcher') # Tables!Busy(homeFetcher) \/ newHome
                      \/ rowsCache'[page'].page # rowsCache[page].page
<1>1. shown' = IF changed THEN M ELSE shown
  BY DEF Tables!Render
<1>2. /\ filter' = 1 => M = [table |-> rowsFetcher'.data, home |-> homeFetcher'.data]
      /\ filter' = 0 => M = [table |-> rowsCache'[page'], home |-> homeCache']
  BY DEF Tables!Memo
<1>3. CASE changed
  <2>1. shown' = M
    BY <1>1, <1>3
  <2> HIDE DEF M, changed
  <2> QED BY <1>2, <2>1 DEF View
<1>4. CASE ~changed
  <2>1. shown' = shown
    BY <1>1, <1>4
  <2>2. filter' = filter
    BY <1>4
  <2>3. rowsFetcher'.data = rowsFetcher.data
    BY <1>4
  <2>4. homeFetcher'.data = homeFetcher.data
    BY <1>4
  <2>5. rowsCache'[page'].page = rowsCache[page].page
    BY <1>4
  <2> HIDE DEF M, changed
  <2> QED BY <2>1, <2>2, <2>3, <2>4, <2>5 DEF TableInv, TableShape, View
<1> QED BY <1>3, <1>4

LEMMA PagesAreNumbers ==
  /\ Tables!Pages \in SUBSET (Nat \ {0}) /\ 1 \in Tables!Pages /\ LastPage \in Nat /\ 1 \in 1..LastPage
  /\ Nobody \notin People
<1>1. /\ TypedPages \subseteq Nat \ {0} /\ LastPage \in Nat \ {0} /\ Nobody \notin People
  BY PagesAssumption DEF Tables!ActivityAssumption
<1>2. 1 \in 1..LastPage /\ 1..LastPage \subseteq Nat \ {0}
  BY <1>1
<1> QED BY <1>1, <1>2 DEF Tables!Pages

LEMMA TablesMount ==
  ASSUME TableInv, NEW r, NEW p \in Tables!Pages, NEW who \in People \cup {Nobody},
         Tables!Mount(r, p, who), Turned'
  PROVE  TableInv'
<1> DEFINE rf == Tables!NotFetched(Tables!NoRows)
           hf == Tables!NotFetched(Tables!NoHome)
<1>1. /\ page' = p /\ user' = who
      /\ filter' = (IF r = "rewards" /\ who # Nobody THEN 1 ELSE 0)
      /\ rowsFetcher' = Tables!Load(rf, who, p) /\ homeFetcher' = Tables!Load(hf, who, p)
      /\ shown' = Tables!Memo(filter', rowsFetcher', homeFetcher', rowsCache, homeCache, p)
      /\ UNCHANGED <<size, rowsCache, homeCache>>
  BY DEF Tables!Mount, Tables!caches
<1>2. FetcherOK(rf) /\ FetcherOK(hf) /\ hf.data.count = 0
  BY Landed DEF Tables!NoHome
<1> HIDE DEF rf, hf
<1>3. /\ FetcherOK(rowsFetcher') /\ FetcherOK(homeFetcher') /\ homeFetcher'.data.count = 0
      /\ who # Nobody => /\ Tables!Busy(rowsFetcher') /\ rowsFetcher'.question = <<who, p>>
                         /\ Tables!Busy(homeFetcher') /\ homeFetcher'.question[1] = who
  BY <1>1, <1>2, Loading
<1>4. /\ filter' = 1 => shown' = [table |-> rowsFetcher'.data, home |-> homeFetcher'.data]
      /\ filter' = 0 => shown' = [table |-> rowsCache[p], home |-> homeCache]
  BY <1>1 DEF Tables!Memo
<1>5. filter' \in {0, 1} /\ (filter' = 1 => who # Nobody)
  BY <1>1
<1>6. TableShape'
  <2>1. shown'.home.count \in Nat
    BY <1>3, <1>4, <1>5 DEF TableInv, TableShape
  <2> QED BY <1>1, <1>3, <1>5, <2>1 DEF TableInv, TableShape
<1>7. Cached' /\ Filtered'
  BY <1>1, <1>5 DEF TableInv, Cached, Filtered
<1>8. View'
  BY <1>1, <1>4 DEF View
<1>9. Fetched'
  BY <1>1, <1>3 DEF Fetched, RowsAreTheirs, HomeIsTheirs
<1> QED BY <1>6, <1>7, <1>8, <1>9 DEF TableInv

LEMMA TablesOpen ==
  ASSUME TableInv, NEW r, Tables!Open(r)
  PROVE  TableInv'
<1>1. Tables!Mount(r, 1, user) /\ typed' = FALSE /\ page' = 1
  BY DEF Tables!Open, Tables!Mount
<1>2. Turned'
  BY <1>1, PagesAreNumbers DEF Turned
<1>3. user \in People \cup {Nobody}
  BY DEF TableInv, TableShape
<1> QED BY <1>1, <1>2, <1>3, PagesAreNumbers, TablesMount

LEMMA TablesType ==
  ASSUME TableInv, NEW p \in TypedPages, Tables!Type(p)
  PROVE  TableInv'
<1>1. Tables!Mount(route, p, Nobody) /\ Turned'
  BY DEF Tables!Type, Turned
<1>2. p \in Tables!Pages
  BY DEF Tables!Pages
<1> QED BY <1>1, <1>2, TablesMount

\* The rows that the table counts.
LEMMA CountedRows ==
  ASSUME TableShape
  PROVE  /\ Tables!Min2(Cap, shown.home.count) \in Nat /\ Tables!Min2(Cap, shown.home.count) <= Cap
         /\ Cap \in Nat /\ PerPage \in Nat \ {0}
<1>1. Cap \in Nat /\ PerPage \in Nat \ {0}
  BY PagesAssumption DEF Tables!ActivityAssumption
<1>2. shown.home.count \in Nat
  BY DEF TableShape
<1> QED BY <1>1, <1>2 DEF Tables!Min2

LEMMA TablesTurn ==
  ASSUME TableInv, NEW p \in Tables!Pages, Tables!Turn(p)
  PROVE  TableInv'
<1>1. /\ route # "error" /\ p <= Tables!PageCount /\ page' = p /\ typed' = FALSE
      /\ rowsFetcher' = Tables!Load(rowsFetcher, user, p)
      /\ homeFetcher' = Tables!Load(homeFetcher, user, p)
      /\ UNCHANGED <<size, route, user, filter, rowsCache, homeCache>> /\ Tables!Render(FALSE)
  BY DEF Tables!Turn, Tables!caches
<1>2. TableShape
  BY DEF TableInv
<1>3. /\ FetcherOK(rowsFetcher') /\ FetcherOK(homeFetcher')
      /\ rowsFetcher'.data = rowsFetcher.data /\ homeFetcher'.data = homeFetcher.data
      /\ user # Nobody => /\ Tables!Busy(rowsFetcher') /\ rowsFetcher'.question = <<user, p>>
                          /\ Tables!Busy(homeFetcher') /\ homeFetcher'.question[1] = user
  BY <1>1, <1>2, LoadingBoth DEF TableShape
<1>4. View' /\ shown'.home.count \in Nat
  <2>1. /\ filter' \in {0, 1} /\ homeFetcher'.data.count \in Nat /\ homeCache'.count \in Nat
    BY <1>1, <1>2, <1>3 DEF TableShape
  <2> QED BY <1>1, <1>3, <2>1, Rendered
<1>5. TableShape'
  BY <1>1, <1>2, <1>3, <1>4 DEF TableShape
<1>6. Turned'
  <2> DEFINE n == Tables!Min2(Cap, shown.home.count)
  <2>1. n \in Nat /\ n <= Cap
    BY <1>2, CountedRows
  <2>2. Tables!PageCount = (n + PerPage - 1) \div PerPage
    BY DEF Tables!PageCount
  <2> HIDE DEF n
  <2>3. Tables!PageCount <= LastPage
    BY <2>1, <2>2, PagesAreAnswered
  <2>4. Tables!PageCount \in Int
    <3>1. n + PerPage - 1 \in Nat /\ PerPage \in Nat \ {0}
      BY <2>1, PagesAssumption DEF Tables!ActivityAssumption
    <3> QED BY <2>2, <3>1
  <2>5. p \in Nat /\ p >= 1 /\ LastPage \in Nat
    BY PagesAreNumbers
  <2>6. p \in 1..LastPage
    BY <1>1, <2>3, <2>4, <2>5
  <2> QED BY <1>1, <2>6 DEF Turned
<1>7. Cached' /\ Filtered'
  BY <1>1 DEF TableInv, Cached, Filtered
<1>8. Fetched'
  BY <1>1, <1>3 DEF Fetched, RowsAreTheirs, HomeIsTheirs
<1> QED BY <1>4, <1>5, <1>6, <1>7, <1>8 DEF TableInv

LEMMA TablesPress ==
  ASSUME TableInv, NEW i \in {0, 1}, Tables!Press(i)
  PROVE  TableInv'
<1>1. /\ route # "error" /\ filter' = i /\ (i = 1 => user # Nobody)
      /\ UNCHANGED <<size, route, page, typed, user, rowsFetcher, homeFetcher, rowsCache, homeCache>>
      /\ Tables!Render(FALSE)
  <2>1. i \in Tables!Filters
    BY DEF Tables!Press
  <2>2. i = 1 => user # Nobody
    BY <2>1 DEF Tables!Filters
  <2> QED BY <2>2 DEF Tables!Press, Tables!fetchers, Tables!caches
<1>2. TableShape
  BY DEF TableInv
<1>3. View' /\ shown'.home.count \in Nat
  BY <1>1, <1>2, Rendered DEF TableShape
<1>4. TableShape'
  BY <1>1, <1>2, <1>3 DEF TableShape
<1>5. Cached' /\ Filtered' /\ Turned'
  BY <1>1 DEF TableInv, Cached, Filtered, Turned
<1>6. Fetched'
  BY <1>1 DEF TableInv, Fetched, RowsAreTheirs, HomeIsTheirs
<1> QED BY <1>3, <1>4, <1>5, <1>6 DEF TableInv

LEMMA TablesSwitch ==
  ASSUME TableInv, NEW who \in People \cup {Nobody}, Tables!Switch(who)
  PROVE  TableInv'
<1>1. /\ route # "error" /\ user' = who /\ filter' = Tables!Default(who)
      /\ rowsFetcher' = Tables!Load(rowsFetcher, who, page)
      /\ homeFetcher' = Tables!Load(homeFetcher, who, page)
      /\ UNCHANGED <<size, route, page, typed, rowsCache, homeCache>> /\ Tables!Render(FALSE)
  BY DEF Tables!Switch, Tables!caches
<1>2. TableShape
  BY DEF TableInv
<1>3. /\ FetcherOK(rowsFetcher') /\ FetcherOK(homeFetcher')
      /\ rowsFetcher'.data = rowsFetcher.data /\ homeFetcher'.data = homeFetcher.data
      /\ who # Nobody => /\ Tables!Busy(rowsFetcher') /\ rowsFetcher'.question = <<who, page>>
                         /\ Tables!Busy(homeFetcher') /\ homeFetcher'.question[1] = who
  BY <1>1, <1>2, LoadingBoth DEF TableShape
<1>4. filter' \in {0, 1} /\ (filter' = 1 => who # Nobody)
  <2>1. CASE who = Nobody
    BY <1>1, <2>1 DEF Tables!Default
  <2>2. CASE who # Nobody /\ user # Nobody
    BY <1>1, <1>2, <2>2 DEF Tables!Default, TableShape
  <2>3. CASE who # Nobody /\ user = Nobody /\ route = "rewards"
    BY <1>1, <2>3 DEF Tables!Default
  <2>4. CASE who # Nobody /\ user = Nobody /\ route # "rewards"
    BY <1>1, <2>4 DEF Tables!Default
  <2> QED BY <2>1, <2>2, <2>3, <2>4
<1>5. View' /\ shown'.home.count \in Nat
  <2>1. homeFetcher'.data.count \in Nat /\ homeCache'.count \in Nat
    BY <1>1, <1>2, <1>3 DEF TableShape
  <2> QED BY <1>1, <1>3, <1>4, <2>1, Rendered
<1>6. TableShape'
  BY <1>1, <1>2, <1>3, <1>4, <1>5 DEF TableShape
<1>7. Cached' /\ Filtered' /\ Turned'
  BY <1>1, <1>4 DEF TableInv, Cached, Filtered, Turned
<1>8. Fetched'
  BY <1>1, <1>3 DEF Fetched, RowsAreTheirs, HomeIsTheirs
<1> QED BY <1>5, <1>6, <1>7, <1>8 DEF TableInv

LEMMA TablesRowsLand ==
  ASSUME TableInv, Tables!RowsLand
  PROVE  TableInv'
<1> DEFINE q == rowsFetcher.question
           data == Tables!AnswerRows(q[1], q[2])
<1>1. /\ route # "error" /\ Tables!Busy(rowsFetcher) /\ rowsFetcher' = Tables!NotFetched(data)
      /\ UNCHANGED <<size, route, page, typed, user, filter, homeFetcher, rowsCache, homeCache>>
      /\ Tables!Render(FALSE)
  BY DEF Tables!RowsLand, Tables!caches
<1>2. TableShape /\ size \in 0..Len(Owner)
  BY DEF TableInv, TableShape
<1>3. q \in People \X Tables!Pages
  BY <1>1, <1>2 DEF TableShape, FetcherOK, Tables!Busy
<1>4. q[1] \in People /\ q[2] \in Nat \ {0}
  BY <1>3, PagesAreNumbers
<1>5. data.page \in {0, q[2]} /\ Theirs(data.rows, q[1])
  BY <1>2, <1>4, AnswerIsOwn
<1> HIDE DEF data
<1>6. FetcherOK(rowsFetcher') /\ rowsFetcher'.data = data /\ ~Tables!Busy(rowsFetcher')
  BY <1>1, Landed
<1>7. View' /\ shown'.home.count \in Nat
  <2>1. Tables!Busy(rowsFetcher') # Tables!Busy(rowsFetcher)
    BY <1>1, <1>6
  <2>2. filter' \in {0, 1} /\ homeFetcher'.data.count \in Nat /\ homeCache'.count \in Nat
    BY <1>1, <1>2 DEF TableShape
  <2>3. homeFetcher'.data = homeFetcher.data
    BY <1>1
  <2> QED BY <1>1, <2>1, <2>2, <2>3, Rendered
<1>8. TableShape'
  BY <1>1, <1>2, <1>6, <1>7 DEF TableShape
<1>9. Cached' /\ Filtered' /\ Turned'
  BY <1>1 DEF TableInv, Cached, Filtered, Turned
<1>10. Fetched'
  <2> SUFFICES ASSUME user # Nobody  PROVE RowsAreTheirs' /\ HomeIsTheirs'
    BY <1>1 DEF Fetched
  <2>1. q = <<user, page>> /\ HomeIsTheirs
    BY <1>1 DEF TableInv, Fetched, RowsAreTheirs
  <2>2. q[1] = user /\ q[2] = page
    BY <2>1
  <2>3. RowsAreTheirs'
    BY <1>1, <1>5, <1>6, <2>2 DEF RowsAreTheirs
  <2>4. HomeIsTheirs'
    BY <1>1, <2>1 DEF HomeIsTheirs
  <2> QED BY <2>3, <2>4
<1> QED BY <1>7, <1>8, <1>9, <1>10 DEF TableInv

LEMMA TablesHomeLands ==
  ASSUME TableInv, Tables!HomeLands
  PROVE  TableInv'
<1> DEFINE q == homeFetcher.question
           data == Tables!AnswerHome(q[1])
<1>1. /\ route # "error" /\ Tables!Busy(homeFetcher) /\ homeFetcher' = Tables!NotFetched(data)
      /\ UNCHANGED <<size, route, page, typed, user, filter, rowsFetcher, rowsCache, homeCache>>
      /\ Tables!Render(FALSE)
  BY DEF Tables!HomeLands, Tables!caches
<1>2. TableShape /\ size \in 0..Len(Owner)
  BY DEF TableInv, TableShape
<1>3. q \in People \X Tables!Pages
  BY <1>1, <1>2 DEF TableShape, FetcherOK, Tables!Busy
<1>4. q[1] \in Asker
  BY <1>3 DEF Asker
<1>5. data.whose = q[1] /\ data.count = Len(Tables!RowsOf[size][q[1]]) /\ data.count \in Nat
  BY <1>2, <1>4, HomeIsOwn
<1> HIDE DEF data
<1>6. FetcherOK(homeFetcher') /\ homeFetcher'.data = data /\ ~Tables!Busy(homeFetcher')
  BY <1>1, Landed
<1>7. View' /\ shown'.home.count \in Nat
  <2>1. Tables!Busy(homeFetcher') # Tables!Busy(homeFetcher)
    BY <1>1, <1>6
  <2>2. filter' \in {0, 1} /\ homeFetcher'.data.count \in Nat /\ homeCache'.count \in Nat
    BY <1>1, <1>2, <1>5, <1>6 DEF TableShape
  <2>3. rowsFetcher'.data = rowsFetcher.data
    BY <1>1
  <2> QED BY <1>1, <2>1, <2>2, <2>3, Rendered
<1>8. TableShape'
  BY <1>1, <1>2, <1>5, <1>6, <1>7 DEF TableShape
<1>9. Cached' /\ Filtered' /\ Turned'
  BY <1>1 DEF TableInv, Cached, Filtered, Turned
<1>10. Fetched'
  <2> SUFFICES ASSUME user # Nobody  PROVE RowsAreTheirs' /\ HomeIsTheirs'
    BY <1>1 DEF Fetched
  <2>1. q[1] = user /\ RowsAreTheirs
    BY <1>1 DEF TableInv, Fetched, HomeIsTheirs
  <2>2. RowsAreTheirs'
    BY <1>1, <2>1 DEF RowsAreTheirs
  <2>3. homeFetcher'.data.whose = user' /\ homeFetcher'.data.count <= Len(Tables!RowsOf[size'][user'])
    BY <1>1, <1>5, <1>6, <2>1
  <2>4. HomeIsTheirs'
    BY <1>6, <2>3 DEF HomeIsTheirs
  <2> QED BY <2>2, <2>4
<1> QED BY <1>7, <1>8, <1>9, <1>10 DEF TableInv

LEMMA TablesFail ==
  ASSUME TableInv, Tables!Fail
  PROVE  TableInv'
<1>1. /\ route' = "error" /\ filter' = 0
      /\ rowsFetcher' = Tables!NotFetched(Tables!NoRows) /\ homeFetcher' = Tables!NotFetched(Tables!NoHome)
      /\ shown' = [table |-> Tables!NoRows, home |-> Tables!NoHome]
      /\ UNCHANGED <<size, page, typed, user, rowsCache, homeCache>>
  BY DEF Tables!Fail, Tables!caches
<1>2. Tables!NoHome.count = 0
  BY DEF Tables!NoHome
<1>3. FetcherOK(rowsFetcher') /\ FetcherOK(homeFetcher') /\ homeFetcher'.data = Tables!NoHome
  BY <1>1, Landed
<1>4. shown'.home = Tables!NoHome
  BY <1>1
<1>5. TableShape'
  BY <1>1, <1>2, <1>3, <1>4 DEF TableInv, TableShape
<1>6. Cached' /\ Filtered' /\ Turned' /\ Fetched' /\ View'
  BY <1>1 DEF TableInv, Cached, Filtered, Turned, Fetched, View
<1> QED BY <1>5, <1>6 DEF TableInv

\* SWR asks again.
LEMMA TablesRefresh ==
  ASSUME TableInv, Tables!RowsRefresh \/ Tables!HomeRefresh
  PROVE  TableInv'
<1>1. /\ route # "error"
      /\ UNCHANGED <<size, route, page, typed, user, filter, rowsFetcher, homeFetcher>>
      /\ \E new \in BOOLEAN : Tables!Render(new)
      /\ \/ /\ rowsCache' = [rowsCache EXCEPT ![page] = Tables!AnswerRows(Tables!Everybody, page)]
            /\ homeCache' = homeCache
         \/ rowsCache' = rowsCache /\ homeCache' = Tables!AnswerHome(Tables!Everybody)
  BY DEF Tables!RowsRefresh, Tables!HomeRefresh, Tables!fetchers
<1>2. TableShape /\ size \in 0..Len(Owner) /\ page \in Tables!Pages /\ page \in Nat \ {0}
  BY PagesAreNumbers DEF TableInv, TableShape
<1>3. Tables!AnswerHome(Tables!Everybody).count \in Nat
  BY <1>2, HomeIsOwn DEF Asker
<1>4. Tables!AnswerRows(Tables!Everybody, page).page \in {0, page}
  BY <1>2, AnswerIsOwn
<1>5. rowsCache' = [p \in Tables!Pages |-> rowsCache'[p]] /\ homeCache'.count \in Nat
  BY <1>1, <1>2, <1>3 DEF TableShape
<1>6. Cached'
  BY <1>1, <1>2, <1>4 DEF TableInv, TableShape, Cached
<1>7. View' /\ shown'.home.count \in Nat
  <2>1. PICK new \in BOOLEAN : Tables!Render(new)
    BY <1>1
  <2>2. filter' \in {0, 1} /\ homeFetcher'.data.count \in Nat
    BY <1>1, <1>2 DEF TableShape
  <2>3. rowsFetcher'.data = rowsFetcher.data /\ homeFetcher'.data = homeFetcher.data
    BY <1>1
  <2> QED BY <1>1, <1>5, <2>1, <2>2, <2>3, Rendered
<1>8. TableShape'
  BY <1>1, <1>2, <1>5, <1>7 DEF TableShape
<1>9. Filtered' /\ Turned'
  BY <1>1 DEF TableInv, Filtered, Turned
<1>10. Fetched'
  BY <1>1 DEF TableInv, Fetched, RowsAreTheirs, HomeIsTheirs
<1> QED BY <1>6, <1>7, <1>8, <1>9, <1>10 DEF TableInv

LEMMA TablesGrow ==
  ASSUME TableInv, Tables!Grow
  PROVE  TableInv'
<1>1. /\ size < Len(Owner) /\ size' = size + 1
      /\ UNCHANGED <<route, page, typed, user, filter, rowsFetcher, homeFetcher, rowsCache, homeCache, shown>>
  BY DEF Tables!Grow, Tables!fetchers, Tables!caches
<1>2. TableShape /\ size \in 0..Len(Owner) /\ Len(Owner) \in Nat
  BY PagesAssumption DEF TableInv, TableShape, Tables!ActivityAssumption
<1>3. size + 1 \in 0..Len(Owner)
  BY <1>1, <1>2
<1>4. TableShape'
  BY <1>1, <1>2, <1>3 DEF TableShape
<1>5. Cached' /\ Filtered' /\ Turned' /\ View'
  BY <1>1 DEF TableInv, Cached, Filtered, Turned, View
<1>6. Fetched'
  <2> SUFFICES ASSUME user # Nobody, route # "error"  PROVE RowsAreTheirs' /\ HomeIsTheirs'
    BY <1>1 DEF Fetched
  <2>1. RowsAreTheirs /\ HomeIsTheirs
    BY DEF TableInv, Fetched
  <2>2. user \in Asker
    BY <1>2 DEF TableShape, Asker
  <2>3. /\ Len(Tables!RowsOf[size][user]) <= Len(Tables!RowsOf[size + 1][user])
        /\ Len(Tables!RowsOf[size][user]) \in Nat /\ Len(Tables!RowsOf[size + 1][user]) \in Nat
    BY <1>2, <1>3, <2>2, RowsGrow, RowsAreOwn
  <2>4. homeFetcher.data.count \in Nat
    BY <1>2 DEF TableShape
  <2>5. RowsAreTheirs'
    BY <1>1, <2>1 DEF RowsAreTheirs
  <2>6. HomeIsTheirs'
    BY <1>1, <2>1, <2>3, <2>4 DEF HomeIsTheirs
  <2> QED BY <2>5, <2>6
<1> QED BY <1>4, <1>5, <1>6 DEF TableInv

LEMMA TablesStart == ASSUME Tables!Init  PROVE TableInv
<1>1. /\ size = First /\ page = 1 /\ user = Nobody /\ filter = 0
      /\ rowsFetcher = Tables!NotFetched(Tables!NoRows)
      /\ homeFetcher = Tables!NotFetched(Tables!NoHome)
      /\ rowsCache = [p \in Tables!Pages |-> Tables!NoRows] /\ homeCache = Tables!NoHome
      /\ shown = [table |-> Tables!NoRows, home |-> Tables!NoHome]
  BY DEF Tables!Init
<1>2. Tables!NoHome.count = 0 /\ Tables!NoRows.page = 0
  BY DEF Tables!NoHome, Tables!NoRows
<1>3. FetcherOK(rowsFetcher) /\ FetcherOK(homeFetcher) /\ homeFetcher.data = Tables!NoHome
  BY <1>1, Landed
<1>4. shown.home = Tables!NoHome /\ shown.table = Tables!NoRows
  BY <1>1
<1>5. TableShape
  BY <1>1, <1>2, <1>3, <1>4, PagesAreNumbers, PagesAssumption DEF TableShape, Tables!ActivityAssumption
<1>6. Cached /\ View
  BY <1>1, <1>2, <1>4, PagesAreNumbers DEF Cached, View
<1>7. Filtered /\ Turned /\ Fetched
  BY <1>1, PagesAreNumbers DEF Filtered, Turned, Fetched
<1> QED BY <1>5, <1>6, <1>7 DEF TableInv

LEMMA TablesMove == ASSUME TableInv, Tables!Next  PROVE TableInv'
BY TablesOpen, TablesType, TablesTurn, TablesPress, TablesSwitch, TablesRowsLand, TablesHomeLands,
   TablesFail, TablesRefresh, TablesGrow DEF Tables!Next

LEMMA TablesHold == ASSUME TableInv  PROVE TablesAreOwn
<1>1. Tables!MineIsOwn
  <2> SUFFICES ASSUME route # "error", Tables!Visible.whose = "My", Tables!Settled
               PROVE  /\ user # Nobody /\ shown.home.whose = user
                      /\ Tables!Visible.count <= Len(Tables!RowsOf[size][user])
                      /\ \A i \in DOMAIN shown.table.rows :
                           Tables!transactionRow(shown.table.rows[i]).account = user
    BY DEF Tables!MineIsOwn
  <2>1. Tables!Visible.whose = (IF filter = 1 THEN "My" ELSE "Global") /\ Tables!Visible.count = shown.home.count
    BY DEF Tables!Visible, Tables!HomePage, Tables!RewardsPage
  <2>2. filter = 1
    BY <2>1
  <2>3. user # Nobody /\ shown = [table |-> rowsFetcher.data, home |-> homeFetcher.data]
    BY <2>2 DEF TableInv, Filtered, View
  <2>4. shown.table = rowsFetcher.data /\ shown.home = homeFetcher.data
    BY <2>3
  <2>5. /\ Theirs(rowsFetcher.data.rows, user) /\ homeFetcher.data.whose = user
        /\ homeFetcher.data.count <= Len(Tables!RowsOf[size][user])
    BY <2>3 DEF TableInv, Fetched, RowsAreTheirs, HomeIsTheirs, Tables!Settled
  <2>6. \A i : Tables!transactionRow(i).account = Owner[i]
    BY DEF Tables!transactionRow
  <2> QED BY <2>1, <2>3, <2>4, <2>5, <2>6 DEF Theirs
<1>2. Tables!RowsOfPage
  <2> SUFFICES ASSUME route # "error", Tables!Mine => Tables!Settled
               PROVE  shown.table.page \in {0, page}
    BY DEF Tables!RowsOfPage
  <2>1. CASE filter = 1
    <3>1. Tables!Settled /\ user # Nobody
      BY <2>1 DEF Tables!Mine, TableInv, Filtered
    <3>2. shown = [table |-> rowsFetcher.data, home |-> homeFetcher.data]
      BY <2>1 DEF TableInv, View
    <3>3. rowsFetcher.data.page \in {0, page}
      BY <3>1 DEF TableInv, Fetched, RowsAreTheirs, Tables!Settled
    <3>4. shown.table = rowsFetcher.data
      BY <3>2
    <3> QED BY <3>3, <3>4
  <2>2. CASE filter = 0
    BY <2>2 DEF TableInv, TableShape, View, Cached
  <2> QED BY <2>1, <2>2 DEF TableInv, TableShape
<1>3. Tables!ButtonsAreAnswered
  <2> DEFINE n == Tables!Min2(Cap, shown.home.count)
             to == Tables!Min2(page * PerPage, n)
  <2>1. n \in Nat /\ n <= Cap
    BY CountedRows DEF TableInv
  <2>2. page * PerPage \in Nat
    BY PagesAreNumbers, PagesAssumption DEF TableInv, TableShape, Tables!ActivityAssumption
  <2>3. Tables!Heading.to = IF n > 0 THEN to ELSE 0
    BY DEF Tables!Heading
  <2> HIDE DEF n
  <2>4. to \in Nat /\ to <= n
    BY <2>1, <2>2 DEF Tables!Min2
  <2> HIDE DEF to
  <2>5. LastPage * PerPage \in Nat /\ Cap <= LastPage * PerPage /\ Cap \in Nat
    BY PagesAssumption DEF Tables!ActivityAssumption
  <2>6. Tables!Heading.to <= LastPage * PerPage
    BY <2>1, <2>3, <2>4, <2>5
  <2> QED BY <2>6 DEF Tables!ButtonsAreAnswered, TableInv, Turned
<1> QED BY <1>1, <1>2, <1>3 DEF TablesAreOwn

-----------------------------------------------------------------------------
(* All four.                                                               *)

PagesInv == FrameInv /\ HintInv /\ StreamInv /\ TableInv

LEMMA HintsStand ==
  ASSUME HintInv, UNCHANGED hintVars  PROVE HintInv'
BY HintSame DEF hintVars

LEMMA StreamsStand ==
  ASSUME StreamInv, UNCHANGED serverVars  PROVE StreamInv'
<1>1. UNCHANGED <<protocol, here, registry, subs, transfers, notices, rows, sent>>
  BY DEF serverVars
<1>2. EthereumInv => EthereumInv'
  BY <1>1 DEF EthereumInv, StreamShape, OneIsOn, ToldAtMostOnce
<1> QED BY <1>1, <1>2 DEF StreamInv

LEMMA TablesStand ==
  ASSUME TableInv, UNCHANGED tableVars  PROVE TableInv'
<1>1. UNCHANGED <<size, route, page, typed, user, filter, rowsFetcher, homeFetcher, rowsCache, homeCache, shown>>
  BY DEF tableVars
<1>2. TableShape' /\ Cached' /\ Filtered' /\ Turned'
  BY <1>1 DEF TableInv, TableShape, Cached, Filtered, Turned
<1>3. RowsAreTheirs' = RowsAreTheirs /\ HomeIsTheirs' = HomeIsTheirs
  BY <1>1 DEF RowsAreTheirs, HomeIsTheirs
<1>4. Fetched' /\ View'
  BY <1>1, <1>3 DEF TableInv, Fetched, View
<1> QED BY <1>2, <1>4 DEF TableInv

LEMMA PagesStart == MCInit => PagesInv
BY FrameStarts, HintStarts, StreamStarts, TablesStart DEF MCInit, PagesInv

LEMMA PagesMove == PagesInv /\ [MCNext]_everything => PagesInv'
<1> SUFFICES ASSUME PagesInv, [MCNext]_everything  PROVE PagesInv'
  OBVIOUS
<1>1. CASE FrameStep /\ UNCHANGED <<tableVars, hintVars, serverVars, part>>
  BY <1>1, FrameMoves, HintsStand, StreamsStand, TablesStand DEF PagesInv
<1>2. CASE Hints!Next /\ UNCHANGED <<tableVars, frameVars, serverVars, hasty, part>>
  BY <1>2, FrameSame, HintMoves, StreamsStand, TablesStand DEF PagesInv
<1>3. CASE Server!Next /\ UNCHANGED <<tableVars, frameVars, hintVars, hasty, part>>
  BY <1>3, FrameSame, HintsStand, StreamMoves, TablesStand DEF PagesInv
<1>4. CASE Tables!Next /\ UNCHANGED <<frameVars, hintVars, serverVars, hasty, part>>
  BY <1>4, FrameSame, HintsStand, StreamsStand, TablesMove DEF PagesInv
<1>5. CASE UNCHANGED everything
  <2>1. UNCHANGED tableVars /\ UNCHANGED <<frameVars, hasty>> /\ UNCHANGED hintVars /\ UNCHANGED serverVars
    BY <1>5 DEF everything
  <2> QED BY <2>1, FrameSame, HintsStand, StreamsStand, TablesStand DEF PagesInv
<1> QED BY <1>1, <1>2, <1>3, <1>4, <1>5 DEF MCNext

LEMMA PagesAlways == MCSpec => []PagesInv
<1>1. MCInit => PagesInv
  BY PagesStart
<1>2. PagesInv /\ [MCNext]_everything => PagesInv'
  BY PagesMove
<1> QED BY <1>1, <1>2, PTL DEF MCSpec

\* The dialogs of the frame yield, whatever order its timers and the wallet's answers
\* come in (dashboard.tsx:281-306, MobileModal.tsx:43-78): a connected wallet is not asked
\* for again, the referral's dialog does not stay on a narrow screen, and the page is left
\* locked without its menu only by who closed the menu within its second.
THEOREM FramesAlwaysYield == MCSpec => []FrameYields
<1>1. PagesInv => FrameYields
  BY FrameHolds DEF PagesInv
<1> QED BY <1>1, PagesAlways, PTL

\* Nobody is told twice: of a win for one time its account was connected, whichever sockets
\* were left open (NotificationSubscription.tsx:152); of a transfer on Ethereum, however
\* often the client subscribed (server.ts:104).
THEOREM AlwaysToldOnce == MCSpec => []ToldOnce
<1>1. PagesInv => ToldOnce
  BY HintHolds, StreamHolds DEF PagesInv, ToldOnce
<1> QED BY <1>1, PagesAlways, PTL

\* What the tables show as the account's is the account's and of the page that is marked,
\* in any order of answers, refreshes, accounts and pages, and their buttons lead to pages
\* that are answered for (home.tsx:195-382, Table/index.tsx:79-101).
THEOREM TablesAreAlwaysOwn == MCSpec => []TablesAreOwn
<1>1. PagesInv => TablesAreOwn
  BY TablesHold DEF PagesInv
<1> QED BY <1>1, PagesAlways, PTL
=============================================================================
