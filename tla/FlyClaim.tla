------------------------------ MODULE FlyClaim ------------------------------
(***************************************************************************)
(* Claiming the FLY of the airdrop: the recap page, which asks whether the *)
(* account is owed any, and the modal it opens, which has the user sign    *)
(* the terms, asks the airdrop service for a proof with that signature and *)
(* claims (or claims and stakes) with it at the Merkle distributor.        *)
(*                                                                         *)
(* The modal is mounted anew each time it is opened; what the last one     *)
(* left in flight goes on, and can only reach the page.  Its effects run   *)
(* again when the account changes and when EthereumFacade renders.         *)
(***************************************************************************)
EXTENDS Integers, Sequences, FiniteSets

CONSTANTS
  Account, NoAccount,
  Owed, Index,            \* of the airdrop: the FLY of an account, its index in the tree
  MaxRenders, MaxOpens, MaxRuns \* bounds

ClaimAssumption ==
  /\ NoAccount \notin Account
  /\ Owed \in [Account -> Nat] /\ Index \in [Account -> Nat]
  /\ {MaxRenders, MaxOpens, MaxRuns} \subseteq Nat

VARIABLES
  account, signer, renders, \* the wallet
  asked, overlapped,        \* what is owed, asked for; whether two were asked for at once
  owed, checkable, checked, \* the page: flyAmountOwed, the button, its answer shown
  opens, modal,             \* the modal, mounted for the opens-th time
  signing,                  \* the mounts whose signature the user is asked for
  runs, begun,              \* the effect that claims, in flight; how many there were
  completed, returned,      \* completedClaimStakeModal; the ways in which claims returned
  claimed, pool             \* the distributor, and the transactions on their way to it

wallet == <<account, signer, renders>>
page == <<asked, overlapped, owed, checkable, checked, completed>>
effects == <<signing, runs, begun, returned>>
chain == <<claimed, pool>>
vars == <<wallet, page, opens, modal, effects, chain>>

Status == {"Disconnected", "IsConnected", "HasSigned", "HasClaimed", "HasStaked", "InError"}
Closed == [mode |-> "none"]
Idle == [step |-> "idle"]
Mounted == modal # Closed

Init ==
  /\ account = NoAccount /\ signer = FALSE /\ renders = 0
  /\ asked = {} /\ overlapped = FALSE /\ owed = 0 /\ checkable = FALSE /\ checked = FALSE
  /\ opens = 0 /\ modal = Closed /\ signing = {}
  /\ runs = [i \in 1..MaxRuns |-> Idle] /\ begun = 0
  /\ completed = FALSE /\ returned = {}
  /\ claimed = {} /\ pool = <<>>

-----------------------------------------------------------------------------
(* The page.                                                               *)

AskOnce(a) ==
  /\ asked' = IF a = NoAccount \/ owed > 0 THEN asked ELSE asked \cup {a}
  /\ overlapped' = (overlapped \/ (a # NoAccount /\ asked \ {a} # {}))
  /\ UNCHANGED <<owed, checkable, checked, completed>>

\* useFLYOwedForAddress, of an account that the page has not seen before.
Ask(a) ==
  /\ asked' = IF a = NoAccount THEN asked ELSE asked \cup {a}
  /\ overlapped' = (overlapped \/ (a # NoAccount /\ asked \ {a} # {}))
  /\ UNCHANGED <<owed, checkable, checked, completed>>

\* Whatever answer comes last stays; an error is thrown where nobody catches it.
AnswerOwed(a) ==
  /\ a \in asked /\ asked' = asked \ {a}
  /\ owed' = Owed[a] /\ checkable' = TRUE
  /\ UNCHANGED <<wallet, overlapped, checked, completed, opens, modal, effects, chain>>

OwedFails(a) ==
  /\ a \in asked /\ asked' = asked \ {a} /\ overlapped' = TRUE
  /\ UNCHANGED <<wallet, owed, checkable, checked, completed, opens, modal, effects, chain>>

CheckEligibility ==
  /\ checkable /\ ~checked
  /\ checkable' = FALSE /\ checked' = TRUE
  /\ UNCHANGED <<wallet, asked, overlapped, owed, completed, opens, modal, effects, chain>>

\* A modal starts connected when there is an account already.
ClaimYourFly(mode) ==
  /\ checked /\ owed > 0 /\ ~completed /\ ~Mounted
  /\ opens < MaxOpens /\ opens' = opens + 1
  /\ modal' = [mode |-> mode, confirming |-> mode = "claim", request |-> FALSE, begin |-> FALSE,
               signature |-> NoAccount,
               status |-> IF account = NoAccount THEN "Disconnected" ELSE "IsConnected"]
  /\ UNCHANGED <<wallet, page, effects, chain>>

Close ==
  /\ Mounted /\ modal' = Closed
  /\ UNCHANGED <<wallet, page, opens, effects, chain>>

-----------------------------------------------------------------------------
(* The modal.                                                              *)

\* The effect that claims, with the account it has and the signature of then.
Run(a, m) == [of |-> opens, for |-> a, signature |-> m.signature, mode |-> m.mode, step |-> "proof"]

Begin(a, m) ==
  /\ begun < MaxRuns /\ begun' = begun + 1
  /\ runs' = [runs EXCEPT ![begun + 1] = Run(a, m)]

\* The facade renders: the account is asked about if it is new, the modal takes
\* note of it, and a claim that was begun is begun again.
Facade(a, s) ==
  /\ renders < MaxRenders /\ renders' = renders + 1
  /\ account' = a /\ signer' = s
  /\ IF a = account THEN UNCHANGED page ELSE Ask(a)
  /\ modal' = IF Mounted /\ modal.status = "Disconnected" /\ a # NoAccount
              THEN [modal EXCEPT !.status = "IsConnected"] ELSE modal
  /\ IF Mounted /\ modal.begin /\ a # NoAccount THEN Begin(a, modal) ELSE UNCHANGED <<runs, begun>>
  /\ UNCHANGED <<opens, signing, returned, chain>>

Connect(a) == account = NoAccount /\ Facade(a, TRUE)
SwitchAccount(a) == account \notin {a, NoAccount} /\ Facade(a, TRUE)
Disconnect == account # NoAccount /\ Facade(NoAccount, FALSE)
Activating == signer /\ Facade(account, FALSE)
Activated == account # NoAccount /\ ~signer /\ Facade(account, TRUE)

\* The buttons of the modal, and the circle of a row by the state it is in; an
\* error counts as a state beyond the last.
Buttons ==
  CASE ~Mounted -> {}
    [] Mounted /\ modal.confirming -> {"continue", "stake"}
    [] Mounted /\ ~modal.confirming /\ modal.status \in {"HasStaked", "InError"} -> {}
    [] OTHER -> {"action"}

CheckedAt ==
  [connect |-> Status \ {"Disconnected"}, sign |-> Status \ {"Disconnected", "IsConnected"},
   claim |-> {"HasStaked"}, stake |-> {"HasStaked", "InError"}]

NextAt ==
  [connect |-> {"Disconnected"}, sign |-> {"IsConnected"}, claim |-> {"InError"}, stake |-> {"HasClaimed"}]

Circle(row) ==
  IF modal.status \in CheckedAt[row] THEN "checked" ELSE IF modal.status \in NextAt[row] THEN "next" ELSE "base"

ContinueClaiming ==
  /\ Buttons = {"continue", "stake"}
  /\ \E mode \in {"claim", "stake"} : modal' = [modal EXCEPT !.confirming = FALSE, !.mode = mode]
  /\ UNCHANGED <<wallet, page, opens, effects, chain>>

\* handleBeginSigning; the request is never taken back, so there is only one.
PressSign ==
  /\ "action" \in Buttons /\ Circle("sign") = "next" /\ ~modal.request
  /\ modal' = [modal EXCEPT !.request = TRUE]
  /\ signing' = signing \cup {opens}
  /\ UNCHANGED <<wallet, page, opens, runs, begun, returned, chain>>

\* The wallet signs with the account it has at the time.
Signs(n) ==
  /\ n \in signing /\ signing' = signing \ {n}
  /\ signer /\ account # NoAccount
  /\ modal' = IF Mounted /\ n = opens
              THEN [modal EXCEPT !.signature = account, !.status = "HasSigned"] ELSE modal
  /\ UNCHANGED <<wallet, page, opens, runs, begun, returned, chain>>

\* The user declines, or there is no signer: an error that nobody sees.
SignFails(n) ==
  /\ n \in signing /\ signing' = signing \ {n}
  /\ UNCHANGED <<wallet, page, opens, modal, runs, begun, returned, chain>>

\* handleBeginClaiming and handleBeginStaking
PressClaim ==
  /\ "action" \in Buttons /\ modal.status = "HasSigned" /\ ~modal.begin
  /\ modal' = [modal EXCEPT !.begin = TRUE]
  /\ IF account # NoAccount THEN Begin(account, modal) ELSE UNCHANGED <<runs, begun>>
  /\ UNCHANGED <<wallet, page, opens, signing, returned, chain>>

-----------------------------------------------------------------------------
(* The runs of the effect.                                                 *)

Show(r, status) ==
  modal' = IF Mounted /\ r.of = opens THEN [modal EXCEPT !.status = status] ELSE modal

Over(i) == runs' = [runs EXCEPT ![i] = Idle]

\* Both ways of a run to its end: the modal says so, and the page is told.
Complete(i) ==
  /\ Show(runs[i], IF runs[i].mode = "stake" THEN "HasStaked" ELSE "HasClaimed")
  /\ completed' = TRUE /\ Over(i)
  /\ UNCHANGED <<asked, overlapped, owed, checkable, checked>>

\* requestProof was answered with the index, the amount and the proofs.
Proof(i) ==
  /\ runs[i].step = "proof" /\ Owed[runs[i].for] > 0
  /\ runs' = [runs EXCEPT ![i].step = "check"]
  /\ UNCHANGED <<wallet, page, opens, modal, signing, begun, returned, chain>>

\* Asked without a signer, the distributor is not asked at all.
IsClaimed(a) == signer /\ a \in claimed

AlreadyClaimed(i) ==
  /\ runs[i].step = "check" /\ IsClaimed(runs[i].for)
  /\ Complete(i)
  /\ UNCHANGED <<wallet, opens, signing, begun, returned, chain>>

\* An index of zero is taken for no index.
NotYetClaimed(i) ==
  /\ runs[i].step = "check" /\ ~IsClaimed(runs[i].for) /\ Index[runs[i].for] # 0
  /\ runs' = [runs EXCEPT ![i].step = "claim"]
  /\ UNCHANGED <<wallet, page, opens, modal, signing, begun, returned, chain>>

\* claimAndStake is tried with a static call before; neither is waited for.
Triggered(r) == r.mode = "stake" => r.for = account /\ account \notin claimed

SendClaim(i) ==
  /\ runs[i].step = "claim" /\ signer /\ account # NoAccount /\ Triggered(runs[i])
  /\ pool' = Append(pool, [for |-> runs[i].for, from |-> account])
  /\ returned' = returned \cup {"sent"} /\ Complete(i)
  /\ UNCHANGED <<wallet, opens, signing, begun, claimed>>

\* Without a signer the call returns, and counts as done.
ReturnUnsent(i) ==
  /\ runs[i].step = "claim" /\ ~signer
  /\ returned' = returned \cup {"unsent"} /\ Complete(i)
  /\ UNCHANGED <<wallet, opens, signing, begun, chain>>

RunFailsUnseen(i) ==
  /\ runs[i] # Idle /\ Over(i) /\ modal' = modal
  /\ UNCHANGED <<wallet, page, opens, signing, begun, returned, chain>>

\* The service, the node or the user says no, or the index is zero.
RunFails(i) ==
  /\ runs[i] # Idle /\ Over(i) /\ Show(runs[i], "InError")
  /\ UNCHANGED <<wallet, page, opens, signing, begun, returned, chain>>

\* The leaf of the tree is of the index and the sender: another's reverts.
Mine ==
  /\ pool # <<>> /\ pool' = Tail(pool)
  /\ claimed' = IF Head(pool).for = Head(pool).from THEN claimed \cup {Head(pool).for} ELSE claimed
  /\ UNCHANGED <<wallet, page, opens, modal, effects>>

-----------------------------------------------------------------------------
WalletStep ==
  \/ \E a \in Account : Connect(a) \/ SwitchAccount(a)
  \/ Disconnect \/ Activating \/ Activated

PageStep ==
  \/ \E a \in Account : AnswerOwed(a) \/ OwedFails(a)
  \/ CheckEligibility \/ Close
  \/ \E mode \in {"claim", "stake"} : ClaimYourFly(mode)

ModalStep ==
  \/ ContinueClaiming \/ PressSign \/ PressClaim
  \/ \E n \in 1..MaxOpens : Signs(n) \/ SignFails(n)

RunStep(i) ==
  \/ Proof(i) \/ AlreadyClaimed(i) \/ NotYetClaimed(i)
  \/ SendClaim(i) \/ ReturnUnsent(i) \/ RunFails(i)

Next ==
  \/ WalletStep \/ PageStep \/ ModalStep \/ Mine
  \/ \E i \in 1..MaxRuns : RunStep(i)

Fairness == \A i \in 1..MaxRuns : WF_vars(RunStep(i))

Spec == Init /\ [][Next]_vars /\ Fairness

-----------------------------------------------------------------------------
(* Properties.                                                             *)

\* Nobody's proof is asked for before the terms were signed in that modal, by
\* an account that was connected at the time: not after a wallet that could not
\* sign, nor with what an earlier modal left behind.  Nor is the row of the
\* terms ever checked without.
TermsFirst ==
  /\ \A i \in 1..MaxRuns : runs[i] # Idle => runs[i].signature # NoAccount
  /\ Mounted /\ Circle("sign") = "checked" => modal.signature # NoAccount

\* The page replaces its claim buttons for good only when a claim was sent or
\* found made, or the wallet lost its provider while it was asked; and the modal
\* checks the row of the stake only then, or after an error.
CompletedMeansClaimed ==
  /\ completed => returned # {} \/ claimed # {}
  /\ Mounted /\ modal.status # "InError" /\ Circle("stake") = "checked" => completed

\* What the page says is owed is owed to the account it shows, as long as no
\* request was overtaken by another and none failed.
OwedIsOwn ==
  (~overlapped /\ asked = {} /\ account # NoAccount) => owed = Owed[account]

\* A claim in flight ends the wait of the user in the modal that began it.
Waits == Mounted /\ modal.status = "HasSigned"
InFlight == Waits /\ \E i \in 1..MaxRuns : runs[i] # Idle /\ runs[i].of = opens

WaitEnds == InFlight ~> ~Waits
=============================================================================
