------------------------------ MODULE MCPages ------------------------------
(***************************************************************************)
(* The frame of the dashboard, the notifications in it, the streams of the *)
(* server and the tables of the home and the rewards page share nothing    *)
(* that changes here: in a behaviour one of them moves.  Of the frame there *)
(* are two networks and three widths; hasty remembers that the menu was     *)
(* closed or left while one of its timers was still to lock the page.  Of   *)
(* the tables there are three rows, the middle one another account's.       *)
(***************************************************************************)
EXTENDS Integers, Sequences, FiniteSets

CONSTANTS
  alice, bob, People, Nobody,
  Chains, Unclaimed, MaxTimers,
  Served, MaxSockets, MaxWins,
  Client, MaxSubscriptions, MaxTransfers, MaxRows, MaxReconnects,
  Owner, First, PerPage, Cap, LastPage, TypedPages, MaxChanges, MaxFaults

VARIABLES
  path, width, facade, eager, open, inner, timers, body,
  holder, provider, connections, sockets, wins, coming, hints, now, told, asked, detail,
  protocol, here, registry, subs, transfers, notices, lastSignature, rows, reconnects, sent, sentRow,
  size, route, page, typed, user, filter, rowsFetcher, homeFetcher, rowsCache, homeCache, shown,
  changes, faults,
  hasty, part

MCOwner == <<alice, bob, alice>>

Frame == INSTANCE Shell WITH Networks <- Chains, route <- path, wallet <- facade
Hints == INSTANCE Notifications WITH
           Account <- People, NoAccount <- Nobody, Network <- Chains,
           account <- holder, network <- provider, visits <- connections
Server == INSTANCE Streams WITH Address <- People
Tables == INSTANCE Activity WITH
            Address <- People, Typed <- TypedPages, MaxSwitches <- MaxChanges, switches <- changes

\* The routes answer for all the rows that the table counts: 240 of them, 20 pages of 12.
ASSUME PagesAssumption ==
  /\ Frame!ShellAssumption /\ Tables!ActivityAssumption /\ Cap <= LastPage * PerPage
  /\ {MaxWins, MaxTransfers} \subseteq Nat

frameVars == <<path, width, facade, eager, open, inner, timers, body>>
hintVars == <<holder, provider, connections, sockets, wins, coming, hints, now, told, asked, detail>>
serverVars == <<protocol, here, registry, subs, transfers, notices, lastSignature, rows, reconnects, sent, sentRow>>
tableVars == <<size, route, page, typed, user, filter, rowsFetcher, homeFetcher, rowsCache, homeCache,
               shown, changes, faults>>
everything == <<tableVars, frameVars, hintVars, serverVars, hasty, part>>

Locks == timers.lock + timers.fix

\* Those that stand still are in one of their initial states.
Still ==
  /\ part # "frame" => path = [net |-> provider, page |-> "home"] /\ width = "narrow"
  /\ part # "hints" => provider = "arbitrum"
  /\ part # "streams" => protocol = "ethereum"
  /\ part # "tables" => route = "home"

MCInit ==
  /\ Tables!Init /\ Frame!Init /\ Hints!Init /\ Server!Init /\ hasty = FALSE
  /\ part \in {"frame", "hints", "streams", "tables"} /\ Still

FrameStep ==
  /\ Frame!Next
  /\ hasty' = \/ "menu" \in open /\ "menu" \notin open' /\ Locks > 0
              \/ hasty /\ ~(body' = Frame!Free /\ Locks' = 0)

MCNext ==
  \/ part = "frame" /\ FrameStep /\ UNCHANGED <<tableVars, hintVars, serverVars, part>>
  \/ part = "hints" /\ Hints!Next /\ UNCHANGED <<tableVars, frameVars, serverVars, hasty, part>>
  \/ part = "streams" /\ Server!Next /\ UNCHANGED <<tableVars, frameVars, hintVars, hasty, part>>
  \/ part = "tables" /\ Tables!Next /\ UNCHANGED <<frameVars, hintVars, serverVars, hasty, part>>

\* Requests of a page that is open end, and its timers of SWR come round.
TablesFairness ==
  /\ WF_tableVars(part = "tables" /\ Tables!RowsLand)
  /\ WF_tableVars(part = "tables" /\ Tables!HomeLands)
  /\ WF_tableVars(part = "tables" /\ Tables!RowsRefresh)
  /\ WF_tableVars(part = "tables" /\ Tables!HomeRefresh)

MCSpec == MCInit /\ [][MCNext]_everything /\ Hints!Fairness /\ Server!Fairness /\ TablesFairness

-----------------------------------------------------------------------------
\* The page stays locked without its menu only if the menu was closed, or its page left,
\* within the second its timers take: a menu left open that long always frees the page.
StuckOnlyByHaste == ("menu" \notin open /\ body # Frame!Free) => hasty

\* The dialogs of the frame yield: those that connect to a connected wallet, the
\* referral's to a narrow screen, the menu's lock of the page to a menu that is closed
\* (dashboard.tsx:281-306, 372-408).
FrameYields == Frame!WalletDialogsYield /\ Frame!ReferralOnlyWide /\ StuckOnlyByHaste

\* Nobody is told twice: of a win for one time the account was connected, of a transfer
\* on Ethereum however often a client subscribes (NotificationSubscription.tsx:152,
\* server.ts:104).
ToldOnce == Hints!OncePerVisit /\ Server!ToldOnce

\* What is shown as the account's is the account's, of the page that is marked as the
\* current one, and the buttons lead only to pages that the routes answer for
\* (home.tsx:195-382, Table/index.tsx:79-101).
TablesAreOwn == Tables!MineIsOwn /\ Tables!RowsOfPage /\ Tables!ButtonsAreAnswered

\* Who waits is answered, time and again: a socket asks for the wins of its account or is
\* closed, a client that stays is told of the newest winner, a table whose page is answered
\* for does not stay at "Fetching table data...", nor everybody's without what is new.
WaitsAreAnswered ==
  /\ \A s \in 1..MaxSockets : []<>~(part = "hints" /\ Hints!Silent(s))
  /\ \A s \in 1..MaxSubscriptions : []<>~(part = "streams" /\ Server!Untold(s))
  /\ \A p \in 1..LastPage : []<>~(part = "tables" /\ Tables!Fetching(p))
  /\ []<>~(part = "tables" /\ Tables!Stale)
=============================================================================
