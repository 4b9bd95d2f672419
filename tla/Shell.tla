------------------------------- MODULE Shell -------------------------------
(***************************************************************************)
(* The frame of the dashboard: routes/$network/dashboard.tsx, the menu of  *)
(* small screens (components/MobileModal.tsx) and the dialog that connects *)
(* a wallet (components/ConnectWalletModal.tsx).  They share three things: *)
(* which dialogs are shown, the wallet of the facade, and the style of the *)
(* document's body, which the menu changes so that the page behind it does *)
(* not scroll.  The menu is closed, and the page locked, by timers that    *)
(* are never cleared: setTimeout(..., 800) and setTimeout(..., 1000).      *)
(***************************************************************************)
EXTENDS Naturals, FiniteSets

CONSTANTS Networks, Unclaimed, MaxTimers  \* MaxTimers: a bound

ShellAssumption ==
  /\ Networks # {} /\ MaxTimers \in Nat
  /\ Unclaimed \in {"none", "dust", "some"}  \* "dust": less than 0.000005

VARIABLES
  route,   \* network and page; "fluidify" stands for the pages without the frame
  width,   \* "narrow" <= 768 < "tablet" <= 850 < "desktop"
  wallet,  \* the facade's connected and connecting
  eager,   \* the provider has not yet tried to connect eagerly
  open,    \* the dialogs of the frame that are shown, "menu" among them
  inner,   \* the dialogs the menu shows in its own place
  timers,  \* how many timers are waiting, by what they do
  body     \* document.body.style

vars == <<route, width, wallet, eager, open, inner, timers, body>>

FramePages == {"home", "airdrop", "rewards", "unclaimed"}
Pages == FramePages \cup {"fluidify"}
Widths == {"narrow", "tablet", "desktop"}
Dialogs == {"menu", "wallet", "connected", "chain", "referral", "staking"}
Free == [overflow |-> "unset", position |-> "static"]
Locked == [overflow |-> "hidden", position |-> "fixed"]

Init ==
  /\ route \in [net : Networks, page : FramePages] /\ width \in Widths
  /\ wallet = "none" /\ eager = TRUE
  /\ open = {} /\ inner = {}
  /\ timers = [close |-> 0, lock |-> 0, fix |-> 0]
  /\ body = Free

----------------------------------------------------------------------------
Framed == route.page \in FramePages
Clear == Framed /\ open \subseteq {"connected"}
MenuShows == Framed /\ "menu" \in open /\ inner \cap {"wallet", "chain"} = {}

\* Where the prize button of the header leads, and the two of the menu.
PrizePage == IF Unclaimed = "some" THEN "unclaimed" ELSE "rewards"
MenuPrizePage == IF Unclaimed = "none" THEN "rewards" ELSE "unclaimed"

\* The style when openMobModal has changed: it is freed at once (handleScroll).
Scrolled(shown) == IF "menu" \in open \ shown THEN Free ELSE body

\* The timers when it has: the lock of handleScroll, and the menu's own effect at mount.
Delayed(shown, t) ==
  IF "menu" \in shown \ open
  THEN [t EXCEPT !.lock = @ + 1, !.fix = @ + 1] ELSE t

\* The dialogs become shown, on the same page, and the effects of that run.
Show(shown) ==
  /\ open' = shown
  /\ inner' = IF "menu" \in shown THEN inner ELSE {}
  /\ timers' = Delayed(shown, timers)
  /\ body' = Scrolled(shown)
  /\ UNCHANGED <<route, eager>>

\* navigate: the frame stays while the page is one of its own; the pages without it and
\* another network's provider drop it, with its state. Its path frees the body's style.
Go(to, shown, within, t) ==
  LET kept == to.net = route.net /\ to.page \in FramePages IN
  /\ route' = to
  /\ open' = IF kept THEN shown ELSE {}
  /\ inner' = IF kept THEN within ELSE {}
  /\ timers' = IF kept THEN t ELSE [t EXCEPT !.close = 0]
  /\ body' = IF to = route THEN Scrolled(shown) ELSE Free
  /\ eager' = (eager \/ to.net # route.net)

\* A provider that is replaced takes its connection with it.
KeepWallet(to) == wallet' = IF to.net = route.net THEN wallet ELSE "none"

----------------------------------------------------------------------------
\* The buttons of the frame, which its dialogs cover.
OpenDialog(m) ==
  /\ Clear /\ m \notin open
  /\ CASE m = "wallet" -> wallet = "none"
       [] m = "connected" -> wallet = "connected"
       [] m = "referral" -> width = "desktop"
       [] OTHER -> TRUE
  /\ Show(open \cup {m})
  /\ UNCHANGED <<width, wallet>>

\* setIsOpen(prev => !prev), from the header of small screens or from the menu itself.
Burger ==
  /\ \/ /\ Clear /\ width # "desktop"
        /\ timers.lock < MaxTimers /\ timers.fix < MaxTimers
        /\ Show(open \cup {"menu"})
     \/ MenuShows /\ Show(open \ {"menu"})
  /\ UNCHANGED <<width, wallet>>

CloseDialog(m) ==
  /\ m \in open
  /\ Show(open \ {m})
  /\ UNCHANGED <<width, wallet>>

Follow(p) ==
  /\ Clear /\ p \in {"home", "airdrop", "rewards", "fluidify", PrizePage}
  /\ Go([route EXCEPT !.page = p], open, inner, timers)
  /\ UNCHANGED <<width, wallet>>

\* handleSetChain, which keeps the path after the network, then handleModal(false).
ChooseChain(n) ==
  /\ "chain" \in open
  /\ Go([route EXCEPT !.net = n], open \ {"chain"}, inner, timers)
  /\ KeepWallet([net |-> n]) /\ UNCHANGED width

\* connectWallet of the referral dialog closes it; the staking dialog stays behind.
ConnectFrom(m) ==
  /\ m \in open \cap {"referral", "staking"} /\ wallet # "connected"
  /\ Show((open \ {"referral"}) \cup {"wallet"})
  /\ UNCHANGED <<width, wallet>>

\* Back from a page without the frame: it is mounted, and its effects free the style.
Return ==
  /\ ~Framed
  /\ route' = [route EXCEPT !.page = "home"] /\ body' = Free
  /\ UNCHANGED <<width, wallet, eager, open, inner, timers>>

----------------------------------------------------------------------------
\* The menu: a link navigates at once and closes the menu 800 ms later.
MenuLink(p) ==
  /\ MenuShows /\ p \in {"home", "airdrop", "rewards", "fluidify", MenuPrizePage}
  /\ timers.close < MaxTimers
  /\ Go([route EXCEPT !.page = p], open, inner, [timers EXCEPT !.close = @ + 1])
  /\ UNCHANGED <<width, wallet>>

MenuStaking ==
  /\ MenuShows /\ Show(open \cup {"staking"})
  /\ UNCHANGED <<width, wallet>>

\* Its dialogs replace it; the one that connects lets the page stand still again.
MenuOpen(m) ==
  /\ MenuShows /\ m \notin inner
  /\ CASE m = "wallet" -> wallet = "none"
       [] m = "connected" -> wallet = "connected"
       [] m = "chain" -> TRUE
  /\ inner' = inner \cup {m}
  /\ body' = IF m = "wallet" THEN [body EXCEPT !.position = "static"] ELSE body
  /\ UNCHANGED <<route, width, wallet, eager, open, timers>>

\* The timers when the menu's dialog that connects is hidden: its effect runs again.
Refixed(m, t) == IF m = "wallet" THEN [t EXCEPT !.fix = @ + 1] ELSE t

MenuClose(m) ==
  /\ m \in inner /\ timers.fix < MaxTimers
  /\ inner' = inner \ {m} /\ timers' = Refixed(m, timers)
  /\ UNCHANGED <<route, width, wallet, eager, open, body>>

MenuChooseChain(n) ==
  /\ "chain" \in inner
  /\ Go([route EXCEPT !.net = n], open, inner \ {"chain"}, timers)
  /\ KeepWallet([net |-> n]) /\ UNCHANGED width

----------------------------------------------------------------------------
CloseFires ==
  /\ timers.close > 0
  /\ LET shown == open \ {"menu"} IN
     /\ open' = shown /\ inner' = {}
     /\ timers' = [timers EXCEPT !.close = @ - 1]
     /\ body' = Scrolled(shown)
  /\ UNCHANGED <<route, width, wallet, eager>>

\* handleScroll of the render in which the menu was open: it never sees it closed.
LockFires ==
  /\ timers.lock > 0 /\ timers' = [timers EXCEPT !.lock = @ - 1]
  /\ body' = Locked
  /\ UNCHANGED <<route, width, wallet, eager, open, inner>>

FixFires ==
  /\ timers.fix > 0 /\ timers' = [timers EXCEPT !.fix = @ - 1]
  /\ body' = [body EXCEPT !.position = "fixed"]
  /\ UNCHANGED <<route, width, wallet, eager, open, inner>>

----------------------------------------------------------------------------
\* A bug to be caught: only the start of a connection closes the dialog.
YieldingOnce(w) == IF w = "connecting" THEN open \ {"wallet"} ELSE open

\* The dialogs that stay when the wallet's state becomes w.
Yielding(w) == IF w \in {"connecting", "connected"} THEN open \ {"wallet"} ELSE open

WalletBecomes(w) ==
  LET gone == w = "connected" /\ "wallet" \in inner IN
  /\ gone => timers.fix < MaxTimers
  /\ wallet' = w /\ open' = Yielding(w)
  /\ inner' = IF gone THEN inner \ {"wallet"} ELSE inner
  /\ timers' = IF gone THEN Refixed("wallet", timers) ELSE timers
  /\ UNCHANGED <<route, width, body>>

\* The first connector is tried when the provider is mounted: every() stops after it, as
\* its callback answers nothing. A wallet on another network is asked to change; when it
\* refuses, a hint is shown and the page stays, as getNetworkFromChainId knows no other.
EagerConnect ==
  /\ eager /\ wallet = "none"
  /\ eager' = FALSE /\ WalletBecomes("connecting")

\* useConnectorType, or the adapter's select, from the dialog's list.
UseConnector ==
  /\ "wallet" \in open \cup inner /\ wallet = "none"
  /\ WalletBecomes("connecting") /\ UNCHANGED eager

\* The wallet accepts or refuses; one that is connected can leave by itself.
WalletAnswers(w) ==
  /\ wallet = "connecting" /\ w \in {"connected", "none"}
  /\ WalletBecomes(w) /\ UNCHANGED eager

WalletLeaves ==
  /\ wallet = "connected" /\ WalletBecomes("none") /\ UNCHANGED eager

\* Disconnect of ConnectedWalletModal, the frame's or the menu's.
Disconnect ==
  /\ wallet = "connected" /\ wallet' = "none"
  /\ \/ /\ "connected" \in open /\ open' = open \ {"connected"} /\ inner' = inner
     \/ /\ "connected" \in inner /\ inner' = inner \ {"connected"} /\ open' = open
  /\ UNCHANGED <<route, width, eager, timers, body>>

----------------------------------------------------------------------------

\* The dialogs a width leaves: the menu is for small screens, the referral dialog for
\* wide ones, and its place is taken by a part of the airdrop page.
Fitting(w) ==
  (IF w = "desktop" THEN open \ {"menu"} ELSE open)
    \ (IF w = "narrow" THEN {"referral"} ELSE {})

Resize(w) ==
  /\ w # width /\ width' = w /\ UNCHANGED wallet
  /\ IF Framed /\ "referral" \in open \ Fitting(w)
     THEN Go([route EXCEPT !.page = "airdrop"], Fitting(w), inner, timers)
     ELSE Show(Fitting(w))

Next ==
  \/ \E m \in Dialogs \ {"menu"} : OpenDialog(m) \/ CloseDialog(m) \/ ConnectFrom(m)
  \/ \E m \in {"wallet", "chain", "connected"} : MenuOpen(m) \/ MenuClose(m)
  \/ \E p \in Pages : Follow(p) \/ MenuLink(p)
  \/ \E n \in Networks : ChooseChain(n) \/ MenuChooseChain(n)
  \/ Burger \/ Return \/ MenuStaking \/ CloseFires \/ LockFires \/ FixFires
  \/ EagerConnect \/ UseConnector \/ WalletLeaves \/ Disconnect
  \/ \E w \in {"connected", "none"} : WalletAnswers(w)
  \/ \E w \in Widths : Resize(w)

Spec == Init /\ [][Next]_vars /\ WF_vars(CloseFires \/ LockFires \/ FixFires)

----------------------------------------------------------------------------
\* A connected wallet is never asked for again: no dialog that connects is shown beside
\* it, whichever of them was open, in the frame or the menu, when the answer came.
WalletDialogsYield == wallet = "connected" => "wallet" \notin open \cup inner

\* The referral dialog is never shown on a screen it does not fit.
ReferralOnlyWide == "referral" \in open => width \in {"tablet", "desktop"}
=============================================================================
