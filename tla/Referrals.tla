----------------------------- MODULE Referrals -----------------------------
(***************************************************************************)
(* Referrals: a user copies a link with a code of their own from the       *)
(* dashboard; a friend who opens the dashboard by the link is asked to     *)
(* accept the referral, and signs that; what the friend wins from then on  *)
(* activates it.  Tabs cache what the two resource routes answer, by the   *)
(* address (and the code) of the question, and ask again every 100 s.      *)
(*                                                                         *)
(* The routes are handlers of a web server which may run at the same time  *)
(* as each other and query the database one statement at a time; and so    *)
(* are the handlers of the activator, of which a worker has several.       *)
(***************************************************************************)
EXTENDS Integers, Sequences, FiniteSets, Functions

CONSTANTS
  Tab, Address, Nobody, Code, NoCode, \* NoCode is the empty string
  Required,               \* FLU_LOOTBOX_REFERRAL_AMOUNT
  Won,                    \* how many bottles a message of the activator's may bring
  Handlers,               \* FLU_AMQP_GOROUTINES_PER_QUEUE
  MaxSwitches, MaxFaults, MaxEpochs, MaxAccepts, MaxWins \* bounds

ASSUME ReferralAssumption ==
  /\ Nobody \notin Address /\ NoCode \notin Code
  /\ {Required, Handlers, MaxEpochs} \subseteq Nat \ {0} /\ Won \subseteq Nat
  /\ {MaxSwitches, MaxFaults, MaxAccepts, MaxWins} \subseteq Nat

VARIABLES
  codes,    \* lootbox_referral_codes
  refs,     \* lootbox_referrals, by created_time
  epoch,    \* EPOCH_CURRENT_IDENTIFIER of the server that is deployed
  tabs,     \* the dashboards
  calls,    \* the loaders under way, with the action that one calls
  accepts,  \* the acceptances under way, with the action they call
  switches, faults, accepted, \* how many of them there were
  signed,   \* every message that a wallet signed
  shared,   \* the links that users copied
  messages, \* what the activator was sent, with what a handler of it has read and does
  paid,     \* the rewards it published
  disturbed \* of each referee: deliveries that began while another was handled, or that were lost

vars == <<codes, refs, epoch, tabs, calls, accepts, switches, faults, accepted, signed, shared,
          messages, paid, disturbed>>
tables == <<codes, refs, epoch>>
activator == <<messages, paid, disturbed>>
counts == <<switches, faults, accepted>>

NoData == "undefined"
NoRows == [i \in {} |-> i]
DataOf(a, f) == IF a = Nobody THEN NoData ELSE f[a]

\* One code per address and one address per code, whatever the epoch.
Fits(row) == \A r \in codes : r.code # row.code /\ r.address # row.address
CodeByAddress(a, e) == {r \in codes : r.address = a /\ r.epoch = e}
CodeByCode(c, e) == {r \in codes : r.code = c /\ r.epoch = e}

\* Rows of lootbox_referrals are told apart by their places in it, the earliest first.
Earliest(places) == CHOOSE i \in places : \A j \in places : i <= j
Between(by, to) == {i \in DOMAIN refs : refs[i].referrer = by /\ refs[i].referee = to}
ReferralByAddress(by, to, e) == {i \in Between(by, to) : refs[i].epoch = e}

Fresh == [acct |-> Nobody, clicked |-> NoCode, asking |-> FALSE, done |-> Nobody, erred |-> {},
          link |-> [a \in Address |-> NoData], offer |-> [k \in Code \X Address |-> NoData]]

Init ==
  /\ codes = {} /\ refs = <<>> /\ epoch = 1
  /\ tabs \in [Tab -> {[Fresh EXCEPT !.acct = a] : a \in Address}] /\ calls = {} /\ accepts = {}
  /\ switches = 0 /\ faults = 0 /\ accepted = 0 /\ signed = {} /\ shared = {}
  /\ messages = <<>> /\ paid = <<>> /\ disturbed = [a \in Address |-> 0]

-----------------------------------------------------------------------------
(* The dashboard.                                                          *)

\* The question is of the code and the account, if there are both.
Loaded(tab) == /\ tab.clicked # NoCode /\ tab.acct # Nobody
               /\ tab.offer[<<tab.clicked, tab.acct>>] # NoData

\* The effect that opens the modal runs when the flag changes, and only then.
Rendered(old, new) ==
  IF Loaded(new) /\ ~Loaded(old) THEN [new EXCEPT !.asking = TRUE] ELSE new
Renders(t, new) == tabs' = [tabs EXCEPT ![t] = Rendered(@, new)]

\* A question that was not asked before is asked although an error stands for it.
Switch(t, a) ==
  /\ a # tabs[t].acct /\ switches < MaxSwitches /\ switches' = switches + 1
  /\ Renders(t, [tabs[t] EXCEPT !.acct = a, !.erred = @ \ {a}])
  /\ UNCHANGED <<tables, calls, accepts, faults, accepted, signed, shared, activator>>

\* Whatever was under way answers a page that is gone; the modal opens again from the cache.
Load(t, code) ==
  /\ tabs' = [tabs EXCEPT ![t] = Rendered([@ EXCEPT !.acct = Nobody],
                [@ EXCEPT !.clicked = code, !.asking = FALSE, !.done = Nobody, !.erred = {}])]
  /\ calls' = {[c EXCEPT !.live = @ /\ c.tab # t] : c \in calls}
  /\ accepts' = {[x EXCEPT !.mounted = @ /\ x.tab # t] : x \in {y \in accepts : y.tab # t \/ y.at # "sign"}}

\* The link of a friend is followed, by a page that restores the cache of the last one.
Visit(t, link) ==
  /\ tabs[t].clicked = NoCode /\ Load(t, link.code)
  /\ UNCHANGED <<tables, counts, signed, shared, activator>>

Reload(t) ==
  /\ switches < MaxSwitches /\ switches' = switches + 1
  /\ Load(t, tabs[t].clicked)
  /\ UNCHANGED <<tables, faults, accepted, signed, shared, activator>>

\* A page of the dashboard is gone to, whose address has no code; a modal that is open stays.
Leave(t) ==
  /\ tabs[t].clicked # NoCode /\ switches < MaxSwitches /\ switches' = switches + 1
  /\ Renders(t, [tabs[t] EXCEPT !.clicked = NoCode])
  /\ UNCHANGED <<tables, calls, accepts, faults, accepted, signed, shared, activator>>

\* What failed is asked again when the window is looked at, or is online, again.
Focus(t) ==
  /\ tabs[t].acct \in tabs[t].erred
  /\ tabs' = [tabs EXCEPT ![t].erred = @ \ {tabs[t].acct}]
  /\ UNCHANGED <<tables, calls, accepts, counts, signed, shared, activator>>

\* What the loader of query/referrals counts beside the code, in the epoch of the server.
CountOf(Chosen(_)) == Cardinality({i \in DOMAIN refs : refs[i].epoch = epoch /\ Chosen(refs[i])})
ClaimedByReferrer(a) == CountOf(LAMBDA r : r.referrer = a /\ r.active)
ClaimedByReferee(a) == CountOf(LAMBDA r : r.referee = a /\ r.active)
UnclaimedByReferee(a) == CountOf(LAMBDA r : r.referee = a /\ ~r.active)
InactiveOf(a) == {i \in DOMAIN refs : refs[i].referee = a /\ refs[i].epoch = epoch /\ ~refs[i].active}

\* Links I've clicked, in the modal, and the details of the airdrop page, which adds them up.
LinksClicked(a) ==
  [claimed |-> ClaimedByReferee(a), unclaimed |-> UnclaimedByReferee(a),
   progress |-> IF InactiveOf(a) = {} THEN 0 ELSE refs[Earliest(InactiveOf(a))].progress]
ReferralDetails(a) ==
  LET links == LinksClicked(a) IN
  [active |-> ClaimedByReferrer(a), clicked |-> links.claimed + links.unclaimed,
   claimed |-> links.claimed, progress |-> links.progress]

\* What ReferralModal shows: a button to connect, dots, or the link of CopyGroup.
Link(t) == DataOf(tabs[t].acct, tabs[t].link)

Copy(t) ==
  /\ Link(t) # NoData
  /\ shared' = shared \cup ({[code |-> Link(t), by |-> tabs[t].acct]} \ {[code |-> NoCode, by |-> tabs[t].acct]})
  /\ UNCHANGED <<tables, tabs, calls, accepts, counts, signed, activator>>

CloseModal(t) ==
  /\ tabs[t].asking
  /\ tabs' = [tabs EXCEPT ![t].asking = FALSE, ![t].done = Nobody]
  /\ accepts' = {[x EXCEPT !.mounted = @ /\ x.tab # t] : x \in accepts}
  /\ UNCHANGED <<tables, calls, counts, signed, shared, activator>>

\* handleAcceptReferral is not disabled while it waits: only its success stops the next.
Accept(t) ==
  /\ tabs[t].asking /\ tabs[t].acct # Nobody /\ tabs[t].done = Nobody
  /\ accepted < MaxAccepts /\ accepted' = accepted + 1
  /\ accepts' = accepts \cup {[id |-> accepted, tab |-> t, at |-> "sign", address |-> tabs[t].acct, signer |-> Nobody,
                               code |-> tabs[t].clicked, mounted |-> TRUE]}
  /\ UNCHANGED <<tables, tabs, calls, switches, faults, signed, shared, activator>>

\* The wallet signs with the account it has now, which may not be that of the message.
SignBuffer(x) ==
  LET by == tabs[x.tab].acct IN
  /\ x.at = "sign" /\ by # Nobody
  /\ signed' = signed \cup {[by |-> by, code |-> x.code, address |-> x.address]}
  /\ accepts' = (accepts \ {x}) \cup {[x EXCEPT !.at = "post", !.signer = by]}
  /\ UNCHANGED <<tables, tabs, calls, counts, shared, activator>>

Decline(x) ==
  /\ x.at = "sign" /\ accepts' = accepts \ {x}
  /\ UNCHANGED <<tables, tabs, calls, counts, signed, shared, activator>>

-----------------------------------------------------------------------------
(* query/referrals, and the action of query/referralCode that it calls.    *)
(* Rows are never taken out of the tables: of two lookups that follow each *)
(* other the second is as good as both, and an answer that comes late is   *)
(* as good as one that is kept.                                            *)

\* Check address is new; then Generate unique ID, for which it is the address, and not the code,
\* that is looked up again, so that a code may be another's.
Taken == {r.code : r \in codes} \cup {c.row.code : c \in calls}
Repeats(g) == \E r \in codes : r.code = g
Generated(a) == {g \in Code : /\ CodeByAddress(a, epoch) = {}
                              /\ \/ Repeats(g) /\ faults < MaxFaults
                                 \/ g \notin Taken /\ g = (CHOOSE h \in Code : h \notin Taken)}

\* The insert finds out what another request did in between.
Outcome(row) == IF Fits(row) THEN row.code ELSE NoCode

Answer(c, data) ==
  /\ calls' = calls \ {c}
  /\ IF c.live THEN Renders(c.tab, [tabs[c.tab] EXCEPT !.link[c.row.address] = data]) ELSE UNCHANGED tabs

DueOnce(t, a) == tabs[t].link[a] = NoData /\ ~\E c \in calls : c.live /\ c.tab = t /\ c.row.address = a
\* useCache asks when it has nothing, and again and again, until a question fails.
Due(t, a) == a \notin tabs[t].erred /\ ~\E c \in calls : c.live /\ c.tab = t /\ c.row.address = a

Errs(t, a) == tabs' = [tabs EXCEPT ![t].erred = @ \cup {a}]

\* The code of the address is answered, or one is made; or a lookup fails, and the loader throws:
\* the tab keeps what it has and asks no more.
Ask(t) ==
  LET a == tabs[t].acct IN
  /\ a # Nobody /\ Due(t, a)
  /\ \/ \E r \in CodeByAddress(a, epoch) :
          Renders(t, [tabs[t] EXCEPT !.link[a] = r.code]) /\ UNCHANGED <<calls, faults>>
     \/ \E g \in Generated(a) :
          /\ calls' = calls \cup {[live |-> TRUE, tab |-> t, row |-> [code |-> g, address |-> a, epoch |-> epoch]]}
          /\ faults' = (IF Repeats(g) THEN faults + 1 ELSE faults)
          /\ UNCHANGED tabs
     \/ faults < MaxFaults /\ faults' = faults + 1 /\ Errs(t, a) /\ UNCHANGED calls
  /\ UNCHANGED <<tables, accepts, switches, accepted, signed, shared, activator>>

InsertCode(c) ==
  /\ codes' = IF Fits(c.row) THEN codes \cup {c.row} ELSE codes
  /\ Answer(c, Outcome(c.row))
  /\ UNCHANGED <<refs, epoch, accepts, counts, signed, shared, activator>>

\* The action is not reached, and the loader throws, or it answers that it failed.
CodeFault(c) ==
  /\ faults < MaxFaults /\ faults' = faults + 1
  /\ \/ /\ calls' = calls \ {c}
        /\ IF c.live THEN Errs(c.tab, c.row.address) ELSE UNCHANGED tabs
     \/ Answer(c, NoCode)
  /\ UNCHANGED <<tables, accepts, switches, accepted, signed, shared, activator>>

-----------------------------------------------------------------------------
(* The loader of query/referralCode, and query/addReferral.                *)

\* The owner of the code, unless the code is unknown or they referred the user already: then the
\* loader throws and the tab keeps what it has.  Asked and answered at once: what the tab keeps is
\* old as soon as it has it in any case.
Offer(t) ==
  LET a == tabs[t].acct
      by == {r.address : r \in CodeByCode(tabs[t].clicked, epoch)}
      new == {b \in by : a # Nobody /\ ReferralByAddress(b, a, epoch) = {}}
  IN \E b \in new :
       /\ Renders(t, [tabs[t] EXCEPT !.offer[<<tabs[t].clicked, a>>] = b])
       /\ UNCHANGED <<tables, calls, accepts, counts, signed, shared, activator>>

RecoversAny(x) == x.signer # Nobody

\* The address is recovered from the signature.  (On Solana, which is left out, the signature is
\* of another message than the one that is verified: no referral is accepted there.)
Recovers(x) == x.signer = x.address

\* The owner of the code, whom the account is not itself.
Referrers(x) == {r.address : r \in {f \in CodeByCode(x.code, epoch) : Recovers(x) /\ f.address # x.address}}

Done(x, new) == IF x.mounted /\ new THEN x.address ELSE tabs[x.tab].done

\* The pair is the key of the table: the same two cannot do it again in another epoch.
AddReferral(x) ==
  /\ x.at = "post" /\ accepts' = accepts \ {x}
  /\ \E by \in Referrers(x) :
       LET new == Between(by, x.address) = {} IN
       /\ refs' = IF new THEN Append(refs, [referrer |-> by, referee |-> x.address, epoch |-> epoch,
                                            progress |-> 0, active |-> FALSE]) ELSE refs
       /\ tabs' = [tabs EXCEPT ![x.tab].done = Done(x, new)]
  /\ UNCHANGED <<codes, epoch, calls, counts, signed, shared, activator>>

Failed(x) == tabs[x.tab].done

\* An error is answered, which handleAcceptReferral does nothing about.
AcceptFails(x) ==
  /\ x.at = "post" /\ accepts' = accepts \ {x}
  /\ \/ Referrers(x) = {} /\ UNCHANGED faults
     \/ faults < MaxFaults /\ faults' = faults + 1
  /\ tabs' = [tabs EXCEPT ![x.tab].done = Failed(x)]
  /\ UNCHANGED <<tables, calls, switches, accepted, signed, shared, activator>>

NewEpoch ==
  /\ epoch < MaxEpochs /\ epoch' = epoch + 1
  /\ UNCHANGED <<codes, refs, tabs, calls, accepts, counts, signed, shared, activator>>

-----------------------------------------------------------------------------
(* microservice-lootbox-referral-activator, which a message is sent to for *)
(* every transaction that wins bottles.  Between the rows that a handler   *)
(* reads, the reward it publishes and the row it writes, others do theirs. *)

Referred(a, e) == {i \in DOMAIN refs : refs[i].referee = a /\ refs[i].epoch = e}
Unclaimed(a, e) == {i \in Referred(a, e) : ~refs[i].active}

\* The rows that are read, by their places.
EarliestUnclaimed(a, e, n) ==
  LET all == Unclaimed(a, e) IN
  [i \in {j \in all : Cardinality({k \in all : k < j}) < n \div Required + 2} |-> refs[i]]

Least(x, y) == IF x < y THEN x ELSE y
Place(m) == Earliest(DOMAIN messages[m].todo)
Referral(m) == messages[m].todo[Place(m)]
Contribution(m) == Least(messages[m].left, Required - Referral(m).progress)
Others(m) == Restrict(messages[m].todo, DOMAIN messages[m].todo \ {Place(m)})
Rest(m) == IF messages[m].left = 0 THEN {} ELSE DOMAIN messages[m].todo

Handled == {m \in DOMAIN messages : messages[m].at \in {"look", "update"}}
HandledOf(a) == {m \in Handled : messages[m].who = a}

\* Who is referred by nobody yet is told apart by nothing that a handler does.
Win(a, n) ==
  /\ Referred(a, epoch) # {} /\ Len(messages) < MaxWins
  /\ messages' = Append(messages, [at |-> "queued", who |-> a, epoch |-> epoch, won |-> n, left |-> n, todo |-> NoRows])
  /\ UNCHANGED <<tables, tabs, calls, accepts, counts, signed, shared, paid, disturbed>>

\* A handler that is free takes the message and reads the rows.
Handle(m) ==
  LET x == messages[m]
      rows == EarliestUnclaimed(x.who, x.epoch, x.won)
  IN /\ x.at = "queued" /\ Cardinality(Handled) < Handlers
     /\ messages' = [messages EXCEPT ![m] = [@ EXCEPT !.at = "look", !.todo = rows]]
     /\ disturbed' = IF HandledOf(x.who) = {} THEN disturbed ELSE [disturbed EXCEPT ![x.who] = @ + 1]
     /\ UNCHANGED <<tables, tabs, calls, accepts, counts, signed, shared, paid>>

Activate(m) ==
  /\ messages[m].at = "look" /\ Rest(m) # {}
  /\ messages' = [messages EXCEPT ![m].at = "update"]
  /\ paid' = IF Referral(m).progress + Contribution(m) >= Required
             THEN Append(paid, <<Referral(m).referrer, messages[m].who>>) ELSE paid
  /\ UNCHANGED <<tables, tabs, calls, accepts, counts, signed, shared, disturbed>>

\* The row is written as it was read, with what was added to it.
UpdateReferral(m) ==
  LET r == Referral(m)
      p == r.progress + Contribution(m)
  IN /\ messages[m].at = "update"
     /\ refs' = [i \in DOMAIN refs |->
          IF <<refs[i].referrer, refs[i].referee, refs[i].epoch>> = <<r.referrer, r.referee, messages[m].epoch>>
          THEN [refs[i] EXCEPT !.progress = p, !.active = r.active \/ p >= Required] ELSE refs[i]]
     /\ messages' = [messages EXCEPT ![m].at = "look", ![m].left = @ - Contribution(m), ![m].todo = Others(m)]
     /\ UNCHANGED <<codes, epoch, tabs, calls, accepts, counts, signed, shared, paid, disturbed>>

Acked(m) ==
  /\ messages[m].at = "look" /\ Rest(m) = {}
  /\ messages' = [messages EXCEPT ![m] = [@ EXCEPT !.at = "acked", !.left = 0, !.todo = NoRows]]
  /\ UNCHANGED <<tables, tabs, calls, accepts, counts, signed, shared, paid, disturbed>>

\* A handler that fails ends the worker, and every message it had is delivered again, from its beginning.
Crash ==
  /\ Handled # {} /\ faults < MaxFaults /\ faults' = faults + 1
  /\ messages' = [m \in DOMAIN messages |->
       IF m \in Handled THEN [messages[m] EXCEPT !.at = "queued", !.left = messages[m].won, !.todo = NoRows]
       ELSE messages[m]]
  /\ disturbed' = [a \in Address |-> IF HandledOf(a) = {} THEN disturbed[a] ELSE disturbed[a] + 1]
  /\ UNCHANGED <<tables, tabs, calls, accepts, switches, accepted, signed, shared, paid>>

-----------------------------------------------------------------------------
User(t) ==
  \/ \E a \in Address : Switch(t, a)
  \/ \E link \in shared : Visit(t, link)
  \/ Reload(t) \/ Leave(t) \/ Focus(t) \/ Copy(t) \/ CloseModal(t) \/ Accept(t)

Next ==
  \/ \E t \in Tab : User(t) \/ Ask(t) \/ Offer(t)
  \/ \E c \in calls : InsertCode(c) \/ CodeFault(c)
  \/ \E x \in accepts : SignBuffer(x) \/ Decline(x) \/ AddReferral(x) \/ AcceptFails(x)
  \/ NewEpoch
  \/ \E a \in Address, n \in Won : Win(a, n)
  \/ \E m \in DOMAIN messages : Handle(m) \/ Activate(m) \/ UpdateReferral(m) \/ Acked(m)
  \/ Crash

-----------------------------------------------------------------------------
TypeOK ==
  /\ codes \subseteq [code : Code, address : Address, epoch : 1..MaxEpochs] /\ epoch \in 1..MaxEpochs
  /\ \A i \in DOMAIN refs : {refs[i].referrer, refs[i].referee} \subseteq Address /\ refs[i].progress \in 0..Required
  /\ \A t \in Tab : {tabs[t].acct, tabs[t].done} \subseteq Address \cup {Nobody} /\ tabs[t].clicked \in Code \cup {NoCode}
  /\ shared \subseteq [code : Code, by : Address]

\* Nobody is referred who did not sign that they accept the code of their referrer, of that epoch:
\* neither in the time between a press and a signature, in which the account may change, nor
\* between the answers of the database.
SignedByReferee ==
  \A i \in DOMAIN refs : \E s \in signed :
    /\ s.by = refs[i].referee /\ s.address = refs[i].referee
    /\ [code |-> s.code, address |-> refs[i].referrer, epoch |-> refs[i].epoch] \in codes

\* A link that a user copied and that has a code has their own: requests that race to create
\* it, and answers for the account of before, do not hand out another's or one that was lost.
LinkIsOwn ==
  \A link \in shared : \E r \in codes : r.code = link.code /\ r.address = link.by

\* ACCEPTED! is shown to an account only when its referral is recorded, by the owner of the code if
\* the address of the page still has it, whoever uses the modal by then.
AcceptedMeansReferred ==
  \A t \in Tab : tabs[t].done # Nobody => \E i \in DOMAIN refs :
    refs[i].referee = tabs[t].done /\ \E r \in codes : tabs[t].clicked \in {r.code, NoCode} /\ r.address = refs[i].referrer

\* A referral is rewarded once, and at most once more each time that a message of the referee's is
\* taken while another of theirs is handled, or that a crash loses what is: the messages of a
\* referee that are handled after each other, with no crash, never reward a referral again.
RewardedOnce ==
  \A k \in Range(paid) : Cardinality({i \in DOMAIN paid : paid[i] = k}) <= 1 + disturbed[k[2]]

\* What a user is told they referred and claimed was rewarded, and their progress to the next claim
\* is not complete; nor do they have more links than they signed for.
CountsArePaid ==
  \A a \in Address :
    LET shown == ReferralDetails(a) IN
    /\ shown.active <= Cardinality({i \in DOMAIN paid : paid[i][1] = a})
    /\ shown.claimed <= Cardinality({i \in DOMAIN paid : paid[i][2] = a})
    /\ shown.clicked <= Cardinality({s \in signed : s.by = a})
    /\ shown.progress < Required

\* Nobody is referred who did not sign that they accept the code of the one who refers
\* them, no link leads to another's, ACCEPTED! is only shown to who was referred; and a
\* referral is rewarded once, or again for messages that were handled at the same time or
\* lost in a crash, and nobody is told of more of them than were
\* (AcceptReferralModal/index.tsx:36-138, addReferral.tsx:43-101, referralCode.tsx:100-161,
\* microservice-lootbox-referral-activator/main.go:72-117, queue.go:133).
ReferralsAreDue ==
  /\ TypeOK /\ SignedByReferee /\ LinkIsOwn /\ AcceptedMeansReferred
  /\ RewardedOnce /\ CountsArePaid

\* A user whom no earlier epoch gave a code has a link with a code in the end, however the requests
\* of their tabs race and whatever is lost, if they stay, unless the last question failed.
Linkless(t, a) ==
  /\ tabs[t].acct = a /\ a \notin tabs[t].erred /\ tabs[t].link[a] \notin {r.code : r \in codes}
  /\ ~\E r \in codes : r.address = a /\ r.epoch < epoch

\* The interval of the cache asks while no question failed, and the server answers; nothing else has
\* to happen, not even that the window is looked at again.
Fairness ==
  /\ \A t \in Tab : WF_vars(Ask(t))
  /\ \A t \in Tab, a \in Address : WF_vars(\E c \in calls : c.tab = t /\ c.row.address = a /\ InsertCode(c))

Spec == Init /\ [][Next]_vars /\ Fairness
=============================================================================
