-------------------------- MODULE FlyStakingModal --------------------------
(***************************************************************************)
(* The FLY staking modal of the web app, on the wallet and on StakingV1.   *)
(*                                                                         *)
(* React runs an effect again when one of its dependencies has a new       *)
(* identity, and every render of EthereumFacade makes its functions anew:  *)
(* Facade is that render with all the effects of the modal it triggers.    *)
(* The modal is drawn in a portal that an effect builds, from what the     *)
(* state was then: the buttons read "shown", never the state itself.       *)
(*                                                                         *)
(* An asynchronous call is a record that is stepped: a load reads the      *)
(* chain for an account, a run goes through the prompts of the wallet.     *)
(***************************************************************************)
EXTENDS Integers, Sequences, FiniteSets

CONSTANTS
  Account, NoAccount, Selected, \* the account that is selected in the wallet at first
  Wallet,                 \* the FLY everyone has at first
  Typed,                  \* amounts a user types
  MaxEvents, MaxRuns      \* bounds: facade renders and failed or repeated loads, runs

ModalAssumption ==
  /\ NoAccount \notin Account /\ Selected \in Account /\ Wallet \in [Account -> Nat]
  /\ Typed \subseteq Nat /\ {MaxEvents, MaxRuns} \subseteq Nat

VARIABLES
  account, signer,        \* the wallet: its account, and whether it has a provider
  renders,                \* renders of EthereumFacade
  fly, staked, unbonding, matured, nonce, \* the chain
  pool,                   \* transactions that are not mined yet
  ui, shown,              \* the modal: its state, and what its portal was built from
  loads, runs,            \* calls in flight
  started, done,          \* the interactions that began, and whether one has returned
  pressed,                \* "renders" when the first one was begun
  upsets                  \* failed and repeated loads; with "renders" bounded by MaxEvents

wallet == <<account, signer, renders>>
chain == <<fly, staked, unbonding, matured, nonce, pool>>
modal == <<ui, shown>>
history == <<started, done, pressed>>
vars == <<wallet, chain, modal, loads, runs, history, upsets>>

Holder == Account \cup {NoAccount}
Status == {"Stats", "StakingDetails", "AmountEntered", "IsConnected", "HasStaked", "InError"}
Kind == {"stake", "unstake", "finalise"}
Step == {"sign", "send", "unsigned"}
Idle == [step |-> "idle"]

AtMost(n, bound) == IF n < bound THEN n ELSE bound
StakeAmount(u) == AtMost(u.typed, u.balance)
UnstakeAmount(u) == AtMost(u.typed, u.staked)
Chosen(u) == IF u.staking THEN StakeAmount(u) ELSE UnstakeAmount(u)

\* What the portal shows of a state, and its handlers go by.
Claimable(u) == u.unstaking # 0 /\ ~u.unstaked
StatsScreen(u) == [balance |-> u.balance, staked |-> u.staked, claimable |-> Claimable(u)]
DetailsScreen(u) == [entered |-> u.typed, amount |-> Chosen(u)]
ActionButton(u) == [enabled |-> u.status # "HasStaked" /\ Chosen(u) # 0]
\* The two steps that are ticked off; the error is behind both of them.
Steps(u) ==
  [connected |-> u.status \in {"IsConnected", "HasStaked", "InError"},
   done |-> u.status \in {"HasStaked", "InError"}]
Portal(u) ==
  [stats |-> StatsScreen(u), details |-> DetailsScreen(u), action |-> ActionButton(u), steps |-> Steps(u)]

Init ==
  /\ account = NoAccount /\ signer = FALSE /\ renders = 0
  /\ fly = Wallet /\ staked = [a \in Account |-> 0] /\ unbonding = [a \in Account |-> 0]
  /\ matured = [a \in Account |-> 0] /\ nonce = [a \in Account |-> 0] /\ pool = <<>>
  /\ ui = [status |-> "Stats", staking |-> TRUE, begin |-> FALSE, typed |-> 0,
           balance |-> 0, staked |-> 0, unstaking |-> 0, unstaked |-> FALSE]
  /\ shown = Portal(ui)
  /\ loads = {} /\ runs = [i \in 0..MaxRuns |-> Idle] /\ upsets = 0
  /\ started = 0 /\ done = FALSE /\ pressed = 0

-----------------------------------------------------------------------------
(* What the modal asks the wallet for.                                     *)

\* The loads of a render with functions that are new; without a provider they
\* return at once.
Loads(a, s) ==
  IF s /\ a # NoAccount
  THEN [of : {a}, kind : {"balance", "details", "unstaking"}] ELSE {}

\* The effect behind the button: it has what the state was when it started.
Run(kind, n, a, s, u) ==
  [kind |-> kind, n |-> n, owner |-> a, signedBy |-> NoAccount,
   nonce |-> IF a = NoAccount THEN 0 ELSE nonce[a],
   before |-> [balance |-> u.balance, staked |-> u.staked, spent |-> StakeAmount(u)],
   step |-> CASE ~s -> "unsigned" [] s /\ kind = "stake" -> "sign" [] OTHER -> "send"]

Interaction(a, s, u) ==
  Run(IF u.staking THEN "stake" ELSE "unstake", Chosen(u), a, s, u)

Begin(run) ==
  /\ started < MaxRuns /\ started' = started + 1 /\ done' = done
  /\ pressed' = IF started = 0 THEN renders ELSE pressed
  /\ runs' = [runs EXCEPT ![started + 1] = run]

Connected(u, a) ==
  IF u.status = "AmountEntered" /\ a # NoAccount THEN [u EXCEPT !.status = "IsConnected"] ELSE u

\* EthereumFacade renders, with the account and the provider it now has. The
\* interaction runs again if it has ever been begun.
Facade(a, s) ==
  /\ renders + upsets < MaxEvents
  /\ account' = a /\ signer' = s /\ renders' = renders + 1
  /\ loads' = loads \cup Loads(a, s)
  /\ ui' = Connected(ui, a)
  /\ shown' = IF ui' = ui THEN shown ELSE Portal(ui')
  /\ IF ui.begin THEN Begin(Interaction(a, s, ui)) ELSE UNCHANGED <<runs, history>>
  /\ UNCHANGED <<chain, upsets>>

\* The provider comes with the account, or a render later.
Connect == account = NoAccount /\ \E s \in BOOLEAN : Facade(Selected, s)
SwitchAccount(a) == account \notin {a, NoAccount} /\ Facade(a, TRUE)
\* While a connector activates there is an account and no provider.
Activating == signer /\ Facade(account, FALSE)
Activated == account # NoAccount /\ ~signer /\ Facade(account, TRUE)
Disconnect == signer /\ Facade(NoAccount, FALSE)
Rerender == signer /\ Facade(account, TRUE)

-----------------------------------------------------------------------------
(* The loads, and what their answers do to the modal.                      *)

\* What is unstaked and not returned yet, whether or not its period is over.
AmountUnstaking(a) == unbonding[a] + matured[a]

Answered(load, u) ==
  CASE load.kind = "balance" -> [u EXCEPT !.balance = fly[load.of]]
    [] load.kind = "details" -> [u EXCEPT !.staked = staked[load.of]]
    [] load.kind = "unstaking" -> [u EXCEPT !.unstaking = AmountUnstaking(load.of)]

\* A new status builds the portal again.
Turn(u) == ui' = u /\ shown' = IF u.status = ui.status THEN shown ELSE Portal(u)

\* New points, or a new amount unstaking, build the portal again: a balance does not.
Answer(load) ==
  /\ load \in loads
  /\ ui' = Answered(load, ui)
  /\ shown' = IF load.kind = "balance" THEN shown ELSE Portal(ui')
  /\ loads' = loads \ {load}
  /\ UNCHANGED <<wallet, chain, runs, history, upsets>>

\* An error is caught, and the modal goes to its error from wherever it is.
LoadFails(load) ==
  /\ load \in loads
  /\ Turn([ui EXCEPT !.status = "InError"])
  /\ loads' = loads \ {load} /\ renders + upsets < MaxEvents /\ upsets' = upsets + 1
  /\ UNCHANGED <<wallet, chain, runs, history>>

\* shouldUpdateFlyBalance, which a claim raises.
Reload ==
  /\ renders + upsets < MaxEvents /\ upsets' = upsets + 1
  /\ loads' = loads \cup {l \in Loads(account, signer) : l.kind \in {"balance", "details"}}
  /\ UNCHANGED <<wallet, chain, modal, runs, history>>

-----------------------------------------------------------------------------
(* The user.                                                               *)

Draw(u) == ui' = u /\ shown' = Portal(u)

\* handleClose, of the cross and the escape key. It does not end what runs. A
\* click beside the modal hides it as it is.
Close ==
  /\ ui.status # "Stats" /\ Draw([ui EXCEPT !.status = "Stats"])
  /\ UNCHANGED <<wallet, chain, loads, runs, history, upsets>>

Type(n) ==
  /\ ui.status = "StakingDetails" /\ n # ui.typed
  /\ Draw([ui EXCEPT !.typed = n])
  /\ UNCHANGED <<wallet, chain, loads, runs, history, upsets>>

\* setMaxBalance, with the balance the portal was built with.
TypeMax == Type(IF ui.staking THEN shown.stats.balance ELSE shown.stats.staked)

\* The two buttons of the first screen.
Choose(staking) ==
  /\ ui.status = "Stats"
  /\ Draw([ui EXCEPT !.staking = staking, !.status = "StakingDetails"])
  /\ UNCHANGED <<wallet, chain, loads, runs, history, upsets>>

\* The button of the later screens is disabled for an amount of nothing.
Enter ==
  /\ ui.status = "StakingDetails" /\ shown.action.enabled
  /\ Draw(Connected([ui EXCEPT !.status = "AmountEntered"], account))
  /\ UNCHANGED <<wallet, chain, loads, runs, history, upsets>>

PressAnew ==
  /\ ui.status = "IsConnected" /\ shown.action.enabled
  /\ ui' = [ui EXCEPT !.begin = TRUE] /\ shown' = shown
  /\ Begin(Interaction(account, signer, ui))
  /\ UNCHANGED <<wallet, chain, loads, upsets>>

\* beginStakeInteraction: beginStaking is set, and never reset.
Press ==
  /\ ui.status = "IsConnected" /\ shown.action.enabled
  /\ ui' = [ui EXCEPT !.begin = TRUE] /\ shown' = shown
  /\ IF ui.begin THEN UNCHANGED <<runs, history>> ELSE Begin(Interaction(account, signer, ui))
  /\ UNCHANGED <<wallet, chain, loads, upsets>>

\* finaliseUnstake is called first without being sent, and fails unseen if nothing
\* would be returned.
Finalisable == account # NoAccount /\ matured[account] > 0

Claim ==
  /\ ui.status = "Stats" /\ shown.stats.claimable
  /\ signer /\ Finalisable
  /\ Len(pool) < MaxRuns \* a bound
  /\ runs[0] = Idle /\ runs' = [runs EXCEPT ![0] = Run("finalise", matured[account], account, TRUE, ui)]
  /\ UNCHANGED <<wallet, chain, modal, loads, history, upsets>>

-----------------------------------------------------------------------------
(* The runs.                                                               *)

Stepped(i, r) == runs' = [runs EXCEPT ![i] = r] /\ UNCHANGED history
Ended(i, how) ==
  /\ runs' = [runs EXCEPT ![i] = Idle]
  /\ done' = (done \/ how # "refused") /\ UNCHANGED <<started, pressed>>

\* The permit names the account the run started with, and is signed by the
\* account the wallet has now.
Sign(i) ==
  /\ runs[i].step = "sign" /\ account # NoAccount
  /\ Stepped(i, [runs[i] EXCEPT !.step = "send", !.signedBy = account])
  /\ UNCHANGED <<wallet, chain, modal, loads, upsets>>

\* What the modal makes of an interaction that returned: it is believed to have
\* changed what the modal knew when it started, a stake and an unstake alike.
Believed(r, u) ==
  IF r.kind = "finalise" THEN [u EXCEPT !.unstaked = TRUE]
  ELSE [u EXCEPT !.status = "HasStaked",
         !.staked = IF u.staking THEN r.before.staked + r.before.spent
                    ELSE r.before.staked - r.before.spent,
         !.balance = r.before.balance - r.before.spent]


\* It is done when it is sent, not when it is mined.
Send(i) ==
  LET r == runs[i] IN
  /\ r.step = "send" /\ account # NoAccount /\ r.n >= 0
  /\ pool' = Append(pool, [kind |-> r.kind, n |-> r.n, owner |-> r.owner, signedBy |-> r.signedBy,
                           from |-> account, nonce |-> r.nonce])
  /\ Turn(Believed(r, ui)) /\ Ended(i, "sent")
  /\ UNCHANGED <<wallet, fly, staked, unbonding, matured, nonce, loads, upsets>>

\* Without a signer a run returns as if it had worked.
Return(i) ==
  /\ runs[i].step = "unsigned"
  /\ Turn(Believed(runs[i], ui)) /\ Ended(i, "unsent")
  /\ UNCHANGED <<wallet, chain, loads, upsets>>

RefuseBelieved(i) ==
  /\ runs[i].step \in {"sign", "send"}
  /\ Ended(i, "refused") /\ Turn(Believed(runs[i], ui))
  /\ UNCHANGED <<wallet, chain, loads, upsets>>

\* The user refuses, or the node does: handleContractErrors throws. Nobody
\* catches the error of a finaliseUnstake.
Refuse(i) ==
  /\ runs[i].step \in {"sign", "send"}
  /\ Ended(i, "refused")
  /\ Turn(IF runs[i].kind = "finalise" THEN ui ELSE [ui EXCEPT !.status = "InError"])
  /\ UNCHANGED <<wallet, chain, loads, upsets>>

-----------------------------------------------------------------------------
(* The chain.                                                              *)

Permitted(tx) == tx.owner = tx.from /\ tx.signedBy = tx.from /\ tx.nonce = nonce[tx.from]

\* StakingV1 takes the oldest transaction; one that reverts changes nothing.
Mine ==
  /\ pool # <<>> /\ pool' = Tail(pool)
  /\ LET tx == Head(pool)
         who == tx.from
     IN CASE tx.kind = "stake" /\ Permitted(tx) /\ tx.n \in 1..fly[who] ->
               /\ fly' = [fly EXCEPT ![who] = @ - tx.n] /\ staked' = [staked EXCEPT ![who] = @ + tx.n]
               /\ nonce' = [nonce EXCEPT ![who] = @ + 1] /\ UNCHANGED <<unbonding, matured>>
          [] tx.kind = "unstake" /\ tx.n \in 1..staked[who] ->
               /\ staked' = [staked EXCEPT ![who] = @ - tx.n]
               /\ unbonding' = [unbonding EXCEPT ![who] = @ + tx.n] /\ UNCHANGED <<fly, matured, nonce>>
          [] tx.kind = "finalise" /\ matured[who] > 0 ->
               /\ fly' = [fly EXCEPT ![who] = @ + matured[who]]
               /\ matured' = [matured EXCEPT ![who] = 0] /\ UNCHANGED <<staked, unbonding, nonce>>
          [] OTHER -> UNCHANGED <<fly, staked, unbonding, matured, nonce>>
  /\ UNCHANGED <<wallet, modal, loads, runs, history, upsets>>

\* The unbonding period of what an account has unstaked is over.
Mature(a) ==
  /\ unbonding[a] > 0
  /\ matured' = [matured EXCEPT ![a] = @ + unbonding[a]] /\ unbonding' = [unbonding EXCEPT ![a] = 0]
  /\ UNCHANGED <<wallet, fly, staked, nonce, pool, modal, loads, runs, history, upsets>>

-----------------------------------------------------------------------------
WalletStep ==
  \/ \E a \in Account : SwitchAccount(a)
  \/ Connect \/ Disconnect \/ Activating \/ Activated \/ Rerender

UserStep ==
  \/ Close \/ TypeMax \/ Enter \/ Press \/ Claim \/ Reload
  \/ \E n \in Typed : Type(n)
  \/ \E staking \in BOOLEAN : Choose(staking)

LoadStep == \E load \in loads : Answer(load) \/ LoadFails(load)

\* Somebody or something answers every prompt of a run.
RunStep(i) == (Sign(i) \/ Send(i) \/ Return(i) \/ Refuse(i))

Next ==
  \/ WalletStep \/ UserStep \/ LoadStep \/ Mine
  \/ \E i \in 0..MaxRuns : RunStep(i)
  \/ \E a \in Account : Mature(a)

Spec == Init /\ [][Next]_vars /\ \A i \in 0..MaxRuns : WF_vars(RunStep(i))

-----------------------------------------------------------------------------
(* Properties.                                                             *)

TypeOK ==
  /\ account \in Holder /\ signer \in BOOLEAN /\ renders \in 0..MaxEvents
  /\ \A f \in {fly, staked, unbonding, matured, nonce} : f \in [Account -> Nat]
  /\ ui \in [status : Status, staking : BOOLEAN, begin : BOOLEAN, typed : Int,
             balance : Int, staked : Int, unstaking : Nat, unstaked : BOOLEAN]
  /\ loads \subseteq [of : Account, kind : {"balance", "details", "unstaking"}]
  /\ \A i \in 0..MaxRuns : runs[i] = Idle \/ (runs[i].step \in Step /\ runs[i].kind \in Kind)
  /\ started \in 0..MaxRuns /\ pressed \in 0..MaxEvents
  /\ done \in BOOLEAN /\ upsets \in 0..MaxEvents

\* Nothing is asked of the wallet before the button was pressed, and after that
\* one interaction for the press and one for each time the facade rendered
\* since: the effect at FLYStakingStatsModal that begins it never ends.
StartsHaveCauses == started <= IF ui.begin THEN 1 + renders - pressed ELSE 0

\* An interaction is ticked off only after one was sent, or returned because the
\* provider was gone, and never after one that was refused alone: unless the modal
\* says at the same time that there was an error.
DoneMeansSent == shown.steps.done => (done \/ ui.status = "InError")

\* An interaction that is in flight when the user waits for it ends the wait:
\* it is done, or it has failed and says so.
Waits == ui.status = "IsConnected"
InFlight == Waits /\ \E i \in 1..MaxRuns : runs[i] # Idle

WaitEnds == InFlight ~> ~Waits
=============================================================================
