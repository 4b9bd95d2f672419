------------------------------- MODULE MCFly -------------------------------
(* The staking modal, the claim of the airdrop and the staking contract     *)
(* share nothing that changes here: in a behaviour one of them moves.       *)
(* At the contract alice, with two positions, stakes; the operator and at   *)
(* times she herself stake for her.  In the web app, of two accounts one    *)
(* has 1 FLY to stake, the other has none; both are owed FLY, the other     *)
(* with the first leaf of the tree.                                         *)
EXTENDS Staking

CONSTANTS
  User, NoAccount,
  Selected, Purse, Typed,           \* of the staking modal: who connects first, what everyone has
  Owed, Index,                      \* of the claim
  MaxEvents, MaxRuns,               \* bounds of the staking modal
  MaxRenders, MaxOpens, MaxClaims   \* bounds of the claim

Stakers == {"alice", "operator"}
JustAlice == {"alice"}
Funds == [s \in Stakers |-> IF s = "alice" THEN 2 ELSE 1]
UpToThree == 1..3

MCPurse == [u \in User |-> IF u = Selected THEN 1 ELSE 0]
MCOwed == [u \in User |-> IF u = Selected THEN 1 ELSE 2]
MCIndex == [u \in User |-> IF u = Selected THEN 1 ELSE 0]

VARIABLES
  account, signer, renders, fly, inContract, unbonding, matured, nonce, pool, ui, shown,
  loads, runs, started, done, pressed, upsets,
  cAccount, cSigner, cRenders, asked, overlapped, owed, checkable, checked, opens, mount,
  signing, cRuns, begun, completed, returned, claimed, cPool,
  part

modalVars == <<account, signer, renders, fly, inContract, unbonding, matured, nonce, pool, ui, shown,
               loads, runs, started, done, pressed, upsets>>
claimVars == <<cAccount, cSigner, cRenders, asked, overlapped, owed, checkable, checked, opens, mount,
               signing, cRuns, begun, completed, returned, claimed, cPool>>
everything == <<vars, modalVars, claimVars, part>>

Modal == INSTANCE FlyStakingModal WITH
           Account <- User, Wallet <- Purse, staked <- inContract

Claims == INSTANCE FlyClaim WITH
            Account <- User, MaxRuns <- MaxClaims,
            account <- cAccount, signer <- cSigner, renders <- cRenders,
            modal <- mount, runs <- cRuns, pool <- cPool

ASSUME FlyAssumption == Modal!ModalAssumption /\ Claims!ClaimAssumption

MCInit == Init /\ Modal!Init /\ Claims!Init /\ part \in {"staking", "claim", "contract"}

MCNext ==
  \/ part = "staking" /\ Modal!Next /\ UNCHANGED <<vars, claimVars, part>>
  \/ part = "claim" /\ Claims!Next /\ UNCHANGED <<vars, modalVars, part>>
  \/ part = "contract" /\ Next /\ UNCHANGED <<modalVars, claimVars, part>>

MCSpec ==
  /\ MCInit /\ [][MCNext]_everything
  /\ \A i \in 0..MaxRuns : WF_modalVars(Modal!RunStep(i))
  /\ Claims!Fairness

-----------------------------------------------------------------------------
\* Nothing is asked of the wallet before the button of the staking modal was
\* pressed, nobody's proof before the terms were signed.
StepsHaveCauses == Modal!StartsHaveCauses /\ Claims!TermsFirst

\* Neither modal says that something is done that was only refused or failed,
\* unless it says at the same time that there was an error.
SaysWhatWasDone == Modal!DoneMeansSent /\ Claims!CompletedMeansClaimed

\* The FLY the recap page says is owed is owed to the account it shows.
OwedIsOwn == Claims!OwedIsOwn

\* A stake or a claim in flight ends the wait of the user in the modal that
\* began it: it is done, or it has failed and says so.
WaitsEnd == (Modal!InFlight \/ Claims!InFlight) ~> ~(Modal!Waits \/ Claims!Waits)
=============================================================================
