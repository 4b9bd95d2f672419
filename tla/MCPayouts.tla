----------------------------- MODULE MCPayouts -----------------------------
(* Payouts in four settings over the same tables.                           *)
(*   "orderly", the constants of the configuration: one goroutine, no daily *)
(*   release, no failures, three announcements, of which one has payouts    *)
(*   for both of its accounts, one winner the token may block.              *)
(*   "faults": a goroutine and the daily release flush the same table, of   *)
(*   one payout; payments revert and any service is killed.                 *)
(*   "halves": two payouts of one announcement, of which the daily release  *)
(*   may take one, and which are not delivered again.                       *)
(*   "again": two payouts, of which a delivery may have recorded one.       *)
EXTENDS Payouts

Wins == {"small", "large", "gift", "late"}
Services == {"spooler", "release", "sender", "tracker"}
OnlyBob == {"bob"}
BothAccounts == {"alice", "bob"}

\* Which wins are announced together: the large one was by a transfer to alice, who gets a gift.
JustLarge == <<<<"large">>>>
WithGift == <<<<"large", "gift">>>>
Separately == <<<<"small">>, <<"large", "gift">>>>
WithLate == <<<<"small">>, <<"large", "gift">>, <<"late">>>>

Transfers == [w \in Wins |-> IF w = "gift" THEN "large" ELSE w]
Senders == Wins \ {"gift"}
Heights == [w \in Wins |-> CASE w = "small" -> 1 [] w = "late" -> 3 [] OTHER -> 2]
AllAlice == [w \in Wins |-> "alice"]
BobLarge == [w \in Wins |-> IF w = "large" THEN "bob" ELSE "alice"]
Prizes == [w \in Wins |-> IF w \in {"small", "gift"} THEN 1 ELSE 3]

F == INSTANCE Payouts WITH
       NMessages <- 1, WinsIn <- JustLarge, WinnerOf <- AllAlice, BatchThreshold <- 2,
       DailyRelease <- TRUE, Quarantined <- {}, MayRevert <- TRUE,
       Mortal <- Services, MaxCrashes <- 1

Halves == INSTANCE Payouts WITH
       NMessages <- 1, WinsIn <- WithGift, WinnerOf <- AllAlice, BatchThreshold <- 2,
       DailyRelease <- TRUE, Quarantined <- {}, MayRevert <- FALSE,
       Mortal <- Services, MaxCrashes <- 1, MessageRetries <- 2
Again == INSTANCE Payouts WITH
       NMessages <- 1, WinsIn <- WithGift, BatchThreshold <- 2,
       DailyRelease <- FALSE, Quarantined <- {}, MayRevert <- TRUE,
       Mortal <- Services, MaxCrashes <- 1

ASSUME F!PayoutsAssumption /\ F!WinsAreAnnouncedOnce /\ F!TransfersAreTogether
ASSUME Halves!PayoutsAssumption /\ Halves!WinsAreAnnouncedOnce /\ Halves!TransfersAreTogether
ASSUME Again!PayoutsAssumption /\ Again!WinsAreAnnouncedOnce /\ Again!TransfersAreTogether

VARIABLE setting

mcvars == <<vars, setting>>

MCInit ==
  \/ setting = "orderly" /\ Init
  \/ setting = "faults" /\ F!Init
  \/ setting = "halves" /\ Halves!Init
  \/ setting = "again" /\ Again!Init

Orderly == setting = "orderly" /\ Next
Faulty ==
  \/ setting = "faults" /\ F!Next
  \/ setting = "halves" /\ Halves!Next
  \/ setting = "again" /\ Again!Next

MCNext == (Orderly \/ Faulty) /\ UNCHANGED setting

\* The fairness of the pipeline, assumed of the orderly setting only.
InOrder(A) == setting = "orderly" /\ A /\ UNCHANGED setting

MCFairness ==
  /\ \A g \in Goroutine : WF_mcvars(InOrder(Spooler(g)))
  /\ WF_mcvars(InOrder(Sender)) /\ WF_mcvars(InOrder(Chain)) /\ WF_mcvars(InOrder(Tracker))

MCSpec == MCInit /\ [][MCNext]_mcvars /\ MCFairness

\* The constants of the configuration, and no other setting.
AsConfigured == setting = "orderly" /\ Init /\ [][Next /\ UNCHANGED setting]_mcvars

-----------------------------------------------------------------------------
\* What deliveries and crashes repeat they repeat at most once each: a win is
\* recorded once for each delivery of its announcement, a row submitted once
\* more for each time the sender went down.
RepeatsAreBounded ==
  /\ setting = "orderly" => TypeOK /\ RecordedWithinDeliveries /\ SubmittedWithinCrashes
  /\ setting = "faults" => F!TypeOK /\ F!RecordedWithinDeliveries /\ F!SubmittedWithinCrashes
  /\ setting = "halves" => Halves!TypeOK /\ Halves!RecordedWithinDeliveries /\ Halves!SubmittedWithinCrashes
  /\ setting = "again" => Again!TypeOK /\ Again!RecordedWithinDeliveries /\ Again!SubmittedWithinCrashes

\* Without failures a flush finds rows, and a winner message is published
\* only for a win that was paid and of which everyone was told before
\* (main.go:222 of the spooler, processReward of track-winners).
ReportsAreTrue ==
  setting = "orderly" => FlushFindsRewards /\ ReportedIsPaid /\ ReportedWasTold

\* Without failures every announced win is paid and reported in the end, or
\* blocked by the token.
OrderlyReported == (setting = "orderly") => EventuallyReported
=============================================================================
