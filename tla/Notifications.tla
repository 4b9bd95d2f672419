--------------------------- MODULE Notifications ---------------------------
(***************************************************************************)
(* The notifications of rewards in the browser: NotificationSubscription   *)
(* opens a websocket to the notification service for the account that is   *)
(* connected, sends it the account once it is open, and shows a hint for   *)
(* each win that comes.  Nothing closes a socket but the network: one that *)
(* was opened for an earlier account, or for the chain that was left, goes *)
(* on to show hints, with the functions of the render that opened it.      *)
(***************************************************************************)
EXTENDS Naturals, Sequences, FiniteSets

CONSTANTS
  Account, NoAccount, Network,
  Served,                \* the networks the service has an endpoint for
  MaxSockets, MaxWins    \* bounds

VARIABLES
  account, network,      \* rawAddress of the facade, the network of the route
  visits,                \* how often each account was connected
  sockets,               \* in the order they were opened
  wins, coming,          \* what the service sent, and what has not yet arrived
  hints, now, told,      \* the hints shown, Date.now(), and how often each win was shown
  asked, detail          \* the details that wait for a balance, and those that are shown

wallet == <<account, network, visits>>
service == <<sockets, wins, coming>>
screen == <<hints, now, told, asked, detail>>
vars == <<wallet, service, screen>>

Holder == Account \cup {NoAccount}
Sockets == 1..Len(sockets)

Init ==
  /\ account = NoAccount /\ network \in Network
  /\ visits = [a \in Account |-> [n \in Network |-> 0]]
  /\ sockets = <<>> /\ wins = <<>> /\ coming = {}
  /\ hints = {} /\ now = 0 /\ told = [w \in 1..MaxWins |-> 0]
  /\ asked = {} /\ detail = 0

-----------------------------------------------------------------------------
(* The sockets.                                                            *)

\* A bug to be caught: the account is only sent through a socket that is open already.
SocketUnasked(a) == [of |-> a, net |-> network, mounted |-> TRUE, state |-> "connecting", asks |-> FALSE]

\* DSSocketManager with the account, then emitEvent, before the socket is open.
Socket(a) == [of |-> a, net |-> network, mounted |-> TRUE, state |-> "connecting", asks |-> TRUE]

\* The effect of the account.
Effect(a) == IF a \in {account, NoAccount} THEN sockets ELSE Append(sockets, Socket(a))

\* The facade renders, with the account it has by then.
Render(a) ==
  /\ Len(Effect(a)) <= MaxSockets /\ sockets' = Effect(a)
  /\ account' = a
  /\ visits' = IF a \in {account, NoAccount} THEN visits ELSE [visits EXCEPT ![a][network] = @ + 1]
  /\ UNCHANGED <<network, wins, coming, screen>>

\* The provider of another chain has no account yet; the component is mounted anew.
ChangeNetwork(n) ==
  /\ n # network /\ network' = n /\ account' = NoAccount /\ detail' = 0
  /\ sockets' = [s \in Sockets |-> [sockets[s] EXCEPT !.mounted = FALSE]]
  /\ UNCHANGED <<visits, wins, coming, hints, now, told, asked>>

\* A change of the socket's state.
Become(s, state) == sockets' = [sockets EXCEPT ![s].state = state]

\* The listener of "open" sends the account.
Connected(s) ==
  /\ sockets[s].state = "connecting" /\ sockets[s].net \in Served
  /\ Become(s, IF sockets[s].asks THEN "asking" ELSE "open")
  /\ UNCHANGED <<wallet, wins, coming, screen>>

\* An error closes the socket, and a socket that is closed is not opened again.
SocketFails(s) ==
  /\ sockets[s].state # "closed" /\ Become(s, "closed")
  /\ coming' = {c \in coming : c.by # s}
  /\ UNCHANGED <<wallet, wins, screen>>

\* The service has the address of the socket, and answers "ok", which names no token.
Register(s) ==
  /\ sockets[s].state = "asking" /\ Become(s, "registered")
  /\ UNCHANGED <<wallet, wins, coming, screen>>

\* A winner of the queue goes to all the sockets that gave the address. The token is
\* one the application lists, or is not.
Broadcast(a, n, known) ==
  /\ n \in Served /\ Len(wins) < MaxWins
  /\ wins' = Append(wins, [to |-> a, net |-> n, known |-> known])
  /\ coming' = coming \cup
       {[by |-> s, win |-> Len(wins) + 1] :
          s \in {i \in Sockets : sockets[i].state = "registered" /\ sockets[i].of = a /\ sockets[i].net = n}}
  /\ UNCHANGED <<wallet, sockets, screen>>

-----------------------------------------------------------------------------
(* The hints.                                                              *)

\* handleClientListener: a hint's key is the millisecond in which it was opened.
Listen(c) ==
  /\ c \in coming /\ coming' = coming \ {c}
  /\ now' \in {now, now + 1}
  /\ IF wins[c.win].known
     THEN /\ hints' = hints \cup {[by |-> c.by, win |-> c.win, id |-> now']}
          /\ told' = [told EXCEPT ![c.win] = @ + 1]
     ELSE UNCHANGED <<hints, told>>
  /\ UNCHANGED <<wallet, sockets, wins, asked, detail>>

\* The cross, or the timer of the hint: every hint with its key goes.
CloseHint(h) ==
  /\ h \in hints /\ hints' = {g \in hints : g.id # h.id}
  /\ UNCHANGED <<wallet, service, now, told, asked, detail>>

\* The details of a win wait for the balance.
AskDetails(h) ==
  /\ h \in hints /\ [by |-> h.by, win |-> h.win] \notin asked
  /\ asked' = asked \cup {[by |-> h.by, win |-> h.win]}
  /\ UNCHANGED <<wallet, service, hints, now, told, detail>>

\* They are shown whatever is shown by then, by the component that opened the socket.
ShowDetails(d) ==
  /\ d \in asked /\ asked' = asked \ {d}
  /\ detail' = IF sockets[d.by].mounted THEN d.win ELSE detail
  /\ UNCHANGED <<wallet, service, hints, now, told>>

\* The balance could not be read: nobody is told.
BalanceFails(d) ==
  /\ d \in asked /\ asked' = asked \ {d}
  /\ UNCHANGED <<wallet, service, hints, now, told, detail>>

\* Close, or the breakdown of the winnings, which is on another page of the frame.
CloseDetails ==
  /\ detail # 0 /\ detail' = 0
  /\ UNCHANGED <<wallet, service, hints, now, told, asked>>

-----------------------------------------------------------------------------
SocketStep(s) == Connected(s) \/ Register(s)

Next ==
  \/ \E a \in Holder : Render(a)
  \/ \E n \in Network : ChangeNetwork(n)
  \/ \E s \in Sockets : SocketStep(s) \/ SocketFails(s)
  \/ \E a \in Account, n \in Network, known \in BOOLEAN : Broadcast(a, n, known)
  \/ \E c \in coming : Listen(c)
  \/ \E h \in hints : CloseHint(h) \/ AskDetails(h)
  \/ \E d \in asked : ShowDetails(d) \/ BalanceFails(d)
  \/ CloseDetails

\* The browser opens a socket, and the service reads what it is sent, or it closes.
Waiting(s) == s \in Sockets /\ sockets[s].state \in {"connecting", "asking"}

Fairness == \A s \in 1..MaxSockets : WF_vars(Waiting(s) /\ (SocketStep(s) \/ SocketFails(s)))

Spec == Init /\ [][Next]_vars /\ Fairness

-----------------------------------------------------------------------------
(* Properties.                                                             *)

\* A win is shown at most once for each time its account was connected on its
\* network: the sockets that were left open repeat it, renders do not.
OncePerVisit ==
  \A w \in 1..Len(wins) : told[w] <= visits[wins[w].to][wins[w].net]

\* A socket asks for the wins of its account in the end, or is closed: it is
\* never left open with the service not knowing whose wins it is for.
Silent(s) == s \in Sockets /\ sockets[s].state \notin {"registered", "closed"}
=============================================================================
