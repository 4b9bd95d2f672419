---------------------------- MODULE AirdropPage ----------------------------
(***************************************************************************)
(* The airdrop page: which dialog is open, and what the browser keeps of   *)
(* the visits before.                                                      *)
(*                                                                         *)
(* The dialog is a state of the page and the hash of its address at once:  *)
(* an effect sets the one when the other changes, in both directions. Two  *)
(* seconds into a first visit a timer opens the tutorial. The flags of     *)
(* earlier visits are read by an effect after the first render.            *)
(***************************************************************************)
EXTENDS Integers

CONSTANTS MaxVisits       \* a bound

PageAssumption == MaxVisits \in Nat

VARIABLES
  visits, wide,           \* visits so far, and whether the screen is wide
  at, leaving,            \* on the page, and on the way to another
  modal, hash,            \* the dialog, and the address
  timer, scroll,          \* running: the one of the tutorial, the one of the leaderboard
  local, stored,          \* the flags of the page and of the browser
  slide, intro,           \* the slide of the tutorial, the video of the recap
  autos, finished         \* tutorials nobody asked for, and whether the intro was seen

screen == <<visits, wide>>
place == <<at, leaving>>
dialog == <<modal, hash>>
timers == <<timer, scroll>>
flags == <<local, stored>>
shows == <<slide, intro>>
history == <<autos, finished>>
vars == <<screen, place, dialog, timers, flags, shows, history>>

None == "none"
Airdrop_Modals == {"recap", "tutorial", "leaderboard", "referrals", "stake", "staking-stats", "claim"}
Dialog == Airdrop_Modals \cup {"bottles-details", None}
Recap == {"recap", "claim"}

\* What a dialog mounts with. The intro is for those who have not seen it.
Intro(m, flag) == IF m \in Recap THEN IF flag THEN "playing" ELSE "content" ELSE None

Init ==
  /\ visits = 0 /\ wide = TRUE /\ at = FALSE /\ leaving = FALSE
  /\ modal = None /\ hash = None /\ timer = FALSE /\ scroll = FALSE
  /\ local = [intro |-> FALSE, numbers |-> TRUE]
  /\ stored = [visited |-> FALSE, introSeen |-> FALSE, numbers |-> TRUE]
  /\ slide = 0 /\ intro = None /\ autos = 0 /\ finished = FALSE

-----------------------------------------------------------------------------
(* The two effects.                                                        *)

FromHash(h) == IF h \in Airdrop_Modals THEN h ELSE None

\* The address as it would be read back without a look at what is open.
ReadAlways(m, h) == FromHash(h)

\* The effect of a new hash: one of a dialog that is open already changes nothing.
ReadHash(m, h) == IF h = m THEN m ELSE FromHash(h)

\* The dialog turns into m, the effect of that navigates, and the effect of the
\* new hash reads it back. A navigation under way is given up for this one.
Turn(m) ==
  /\ modal' = ReadHash(m, m) /\ hash' = modal'
  /\ leaving' = FALSE /\ slide' = 0
  /\ intro' = IF modal \in Recap /\ modal' \in Recap THEN intro ELSE Intro(modal', local.intro)

\* A link to a hash of this page.
FollowHash(h) ==
  /\ at /\ h # hash
  /\ modal' = ReadHash(modal, h) /\ hash' = IF modal' = modal THEN h ELSE modal'
  /\ leaving' = FALSE /\ slide' = 0
  /\ intro' = IF modal \in Recap /\ modal' \in Recap THEN intro ELSE Intro(modal', local.intro)
  /\ UNCHANGED <<screen, at, timers, flags, history>>

-----------------------------------------------------------------------------
(* Visits.                                                                 *)

\* The flag is stored as soon as it was read, whether or not there is a tutorial.
Remember(flag, tutorial) == [flag EXCEPT !.visited = TRUE]

\* The page mounts, then its effects read the flags and store them. A page with
\* parameters in its address, or on a small screen, starts no timer.
Visit(h, w, plain) ==
  /\ ~at /\ visits < MaxVisits /\ visits' = visits + 1
  /\ at' = TRUE /\ leaving' = FALSE /\ wide' = w
  /\ modal' = FromHash(h) /\ hash' = modal'
  /\ local' = [intro |-> ~stored.introSeen, numbers |-> stored.numbers]
  /\ stored' = Remember(stored, ~stored.visited /\ w /\ plain)
  /\ timer' = (~stored.visited /\ w /\ plain) /\ scroll' = FALSE
  /\ slide' = 0 /\ intro' = Intro(modal', FALSE)
  /\ UNCHANGED history

\* A link to another page; it is left once that page has loaded.
StartLeaving ==
  /\ at /\ ~leaving /\ leaving' = TRUE
  /\ UNCHANGED <<screen, at, dialog, timers, flags, shows, history>>

\* Nothing clears the timers, but what they set is gone with the page.
Leave ==
  /\ at /\ leaving /\ at' = FALSE /\ leaving' = FALSE
  /\ modal' = None /\ hash' = None /\ timer' = FALSE /\ scroll' = FALSE /\ slide' = 0 /\ intro' = None
  /\ UNCHANGED <<screen, flags, history>>

\* Small and wide screens have trees of their own: what is shown mounts again.
Resize ==
  /\ at /\ wide' = ~wide /\ slide' = 0 /\ intro' = Intro(modal, local.intro)
  /\ UNCHANGED <<visits, place, dialog, timers, flags, history>>

-----------------------------------------------------------------------------
(* The tabs, the buttons and the dialogs.                                  *)

\* The tabs, and the details of the statistics below them.
Tabs == {"recap", "tutorial", "referrals", None} \cup IF wide THEN {} ELSE {"leaderboard"}
Details == {"referrals"} \cup IF wide THEN {"bottles-details"} ELSE {"leaderboard"}

\* A small screen shows a dialog instead of the dashboard, a wide one over it.
Content == IF modal \in Recap THEN "recap" ELSE IF wide THEN None ELSE modal
Boxes == {"referrals", "bottles-details", "stake", "staking-stats", "tutorial"}

\* A click beside a box closes it, and is still a click.
Choose(m) ==
  /\ at /\ m \in Tabs \cup (IF Content = None THEN Details ELSE {}) /\ m # modal /\ Turn(m)
  /\ UNCHANGED <<screen, at, timers, flags, history>>

CloseBox ==
  /\ at /\ wide /\ modal \in Boxes /\ Turn(None)
  /\ UNCHANGED <<screen, at, timers, flags, history>>

\* On a wide screen the leaderboard is further down: the dialog is closed, and a
\* second later the page scrolls.
GoToLeaderboard ==
  /\ at /\ wide /\ scroll' = (modal # None)
  /\ IF modal # None THEN Turn(None) ELSE UNCHANGED <<leaving, dialog, shows>>
  /\ UNCHANGED <<screen, at, timer, flags, history>>

ScrollFires ==
  /\ scroll /\ scroll' = FALSE
  /\ UNCHANGED <<screen, place, dialog, timer, flags, shows, history>>

\* The tutorial takes the place of what is open by then.
TutorialFires ==
  /\ at /\ timer /\ timer' = FALSE /\ autos' = autos + 1
  /\ IF modal # "tutorial" THEN Turn("tutorial") ELSE UNCHANGED <<leaving, dialog, shows>>
  /\ UNCHANGED <<screen, at, scroll, flags, finished>>

Slides == 0..4
NextSlide(d) ==
  /\ at /\ modal = "tutorial" /\ slide + d \in Slides /\ slide' = slide + d
  /\ UNCHANGED <<screen, place, dialog, timers, flags, intro, history>>

StartEarning ==
  /\ at /\ modal = "tutorial" /\ wide /\ slide = 4 /\ Turn(None)
  /\ UNCHANGED <<screen, at, timers, flags, history>>

FinishIntro ==
  /\ intro = "playing" /\ intro' = "content" /\ finished' = TRUE
  /\ local' = [local EXCEPT !.intro = FALSE] /\ stored' = [stored EXCEPT !.introSeen = TRUE]
  /\ UNCHANGED <<screen, place, dialog, timers, slide, autos>>

ToggleNumbers ==
  /\ at /\ wide /\ Content = None
  /\ local' = [local EXCEPT !.numbers = ~@] /\ stored' = [stored EXCEPT !.numbers = local'.numbers]
  /\ UNCHANGED <<screen, place, dialog, timers, shows, history>>

-----------------------------------------------------------------------------
Next ==
  \/ \E h \in Dialog, w, plain \in BOOLEAN : Visit(h, w, plain)
  \/ StartLeaving \/ Leave \/ Resize
  \/ \E m \in Dialog : Choose(m) \/ FollowHash(m)
  \/ CloseBox \/ GoToLeaderboard \/ ScrollFires \/ TutorialFires
  \/ NextSlide(1) \/ NextSlide(-1) \/ StartEarning \/ FinishIntro \/ ToggleNumbers

Spec == Init /\ [][Next]_vars

-----------------------------------------------------------------------------
(* Properties.                                                             *)

\* Over all the visits the tutorial opens by itself once at most, and the intro
\* never plays again for somebody who saw it to its end.
ShownOnce == autos <= 1 /\ (intro = "playing" => ~finished)

\* A dialog that was opened stays open until something else is done: the two
\* effects that write the dialog and the address never undo each other, also for
\* the dialog that cannot be opened by its address.
OpenedStays ==
  [][\A m \in Dialog : Choose(m) => modal' = m /\ hash' = m]_vars
=============================================================================
