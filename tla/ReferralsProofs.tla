-------------------------- MODULE ReferralsProofs --------------------------
(***************************************************************************)
(* That nobody is referred, credited or told of what they are not due is   *)
(* proved of every number of tabs, accounts and codes, of every bound, and *)
(* whatever the number of bottles that a referral takes.                   *)
(*                                                                         *)
(* The invariant says, of each thing that is on its way, what is kept of   *)
(* it: a signature that is posted was given, a link in the cache is in the *)
(* table, a row that a handler of the activator read is of the row in its  *)
(* place, and one it is about to mark as active has its reward published.  *)
(* That rewards are not repeated but for what disturbed the handlers is an *)
(* account that is kept in balance: to what was paid for a referral are    *)
(* added the handlers that may still pay for it (Bids), and there is one   *)
(* more than what is made up for only while something is left of the       *)
(* attempt that earned it (Earned).                                        *)
(*                                                                         *)
(* The rest of the airdrop page is proved after the referrals, for any     *)
(* numbers of attempts, visits, rankings and accounts: what the dialog     *)
(* that locks liquidity asks of the wallet (StakeInv), which dialogs open  *)
(* by themselves (PageInv), and whose data is shown (DataInv).             *)
(***************************************************************************)
EXTENDS MCAirdrop, SumsProofs, SequenceTheorems, FiniteSetTheorems, TLAPS

Account == Address \cup {Nobody}
MaybeCode == Code \cup {NoCode}
CodeRow == [code : Code, address : Address, epoch : 1..MaxEpochs]
ReferralRow == [referrer : Address, referee : Address, epoch : 1..MaxEpochs,
                progress : 0..Required, active : BOOLEAN]
PageOf == [acct : Account, clicked : MaybeCode, asking : BOOLEAN, done : Account, erred : SUBSET Address,
           link : [Address -> MaybeCode \cup {NoData}], offer : [Code \X Address -> Address \cup {NoData}]]
Call == [live : BOOLEAN, tab : Tab, row : CodeRow]
Acceptance == [id : Nat, tab : Tab, at : {"sign", "post"}, address : Address, signer : Account,
               code : MaybeCode, mounted : BOOLEAN]
Signature == [by : Address, code : MaybeCode, address : Address]
Reading == UNION {[P -> ReferralRow] : P \in SUBSET Nat}
Message == [at : {"queued", "look", "update", "acked"}, who : Address, epoch : 1..MaxEpochs,
            won : Nat, left : Nat, todo : Reading]

\* Every variable holds what its part of the code puts there.
TablesShape == codes \in SUBSET CodeRow /\ refs \in Seq(ReferralRow) /\ epoch \in 1..MaxEpochs
TabsShape == tabs \in [Tab -> PageOf] /\ calls \in SUBSET Call /\ accepts \in SUBSET Acceptance
SignedShape == signed \in SUBSET Signature /\ IsFiniteSet(signed) /\ shared \in SUBSET [code : Code, by : Address]
PaidShape == messages \in Seq(Message) /\ paid \in Seq(Address \X Address) /\ disturbed \in [Address -> Nat]
CountsShape == {switches, faults, accepted} \subseteq Nat
Shape == TablesShape /\ TabsShape /\ SignedShape /\ PaidShape /\ CountsShape

Pair(i) == <<refs[i].referrer, refs[i].referee>>

\* The keys of the tables: a code is of one address and an address has one code, whatever the epoch;
\* and two users refer each other at most once in each direction.
Keyed ==
  /\ \A r, s \in codes : r.code = s.code \/ r.address = s.address => r = s
  /\ \A i, j \in DOMAIN refs : Pair(i) = Pair(j) => i = j

\* A link that a tab shows has a row, which is never taken out of the table.
Cached ==
  \A t \in Tab, a \in Address :
    \/ tabs[t].link[a] \in {NoData, NoCode}
    \/ \E r \in codes : r.code = tabs[t].link[a] /\ r.address = a

\* What is posted was signed by who the wallet says, and while its modal is open the tab has no code
\* but its own.
OfItsTab(x, clicked) == x.mounted => x.code = NoCode \/ clicked \in {x.code, NoCode}
Posted ==
  \A x \in accepts :
    /\ OfItsTab(x, tabs[x.tab].clicked)
    /\ x.at = "post" => [by |-> x.signer, code |-> x.code, address |-> x.address] \in signed

\* A row that is not active is short of what it takes.
Short == \A i \in DOMAIN refs : ~refs[i].active => refs[i].progress < Required

\* What a handler read is, but for its progress, what is in the place that it was read from, and is short.
AsRead ==
  \A m \in Handled :
    /\ \A i \in DOMAIN messages[m].todo :
         LET row == messages[m].todo[i] IN
         /\ i \in DOMAIN refs /\ ~row.active /\ row.progress < Required
         /\ row.referrer = refs[i].referrer /\ row.referee = refs[i].referee /\ row.epoch = refs[i].epoch
         /\ row.referee = messages[m].who /\ row.epoch = messages[m].epoch
    /\ messages[m].at = "update" => DOMAIN messages[m].todo # {}

\* Of the handler of a message, the row it is at, and whether that one is completed.
Reached(x) == Earliest(DOMAIN x.todo)
Key(x, i) == <<x.todo[i].referrer, x.todo[i].referee>>
Completes(x) == x.todo[Reached(x)].progress + Least(x.left, Required - x.todo[Reached(x)].progress) >= Required

\* It may pay for the referral of k yet; it has, and will mark it; or it has not, and will unmark it.
Bids(x, k) ==
  /\ x.at \in {"look", "update"}
  /\ \E i \in DOMAIN x.todo : Key(x, i) = k /\ (x.at = "update" => i # Reached(x))
Grants(x, k) == x.at = "update" /\ Completes(x) /\ Key(x, Reached(x)) = k
Forgoes(x, k) == x.at = "update" /\ ~Completes(x) /\ Key(x, Reached(x)) = k

Bidders(k) == {m \in DOMAIN messages : Bids(messages[m], k)}
Granted(k) == \E m \in DOMAIN messages : Grants(messages[m], k)
Forgone(k) == \E m \in DOMAIN messages : Forgoes(messages[m], k)
Active(k) == \E i \in DOMAIN refs : refs[i].active /\ Pair(i) = k
Earned(k) == (Active(k) \/ Granted(k) \/ Bidders(k) # {}) /\ ~Forgone(k)
PaymentsOf(k) == {j \in DOMAIN paid : paid[j] = k}

\* What is given was paid for; what was paid, and may be, is made up for.
Paid ==
  \A k \in Address \X Address :
    /\ Active(k) \/ Granted(k) => PaymentsOf(k) # {}
    /\ Cardinality(PaymentsOf(k)) + Cardinality(Bidders(k)) <= disturbed[k[2]] + (IF Earned(k) THEN 1 ELSE 0)

IInv ==
  /\ Shape /\ Keyed /\ Cached /\ Posted /\ Short /\ AsRead /\ Paid
  /\ SignedByReferee /\ LinkIsOwn /\ AcceptedMeansReferred

-----------------------------------------------------------------------------
\* The effect that opens the modal changes that flag of the page only.
LEMMA RendersPage ==
  ASSUME tabs \in [Tab -> PageOf], NEW t \in Tab, NEW new \in PageOf, Renders(t, new)
  PROVE  /\ tabs' \in [Tab -> PageOf]
         /\ tabs'[t].acct = new.acct /\ tabs'[t].clicked = new.clicked
         /\ tabs'[t].link = new.link /\ tabs'[t].done = new.done
         /\ \A u \in Tab \ {t} : tabs'[u] = tabs[u]
<1>1. tabs' = [tabs EXCEPT ![t] = Rendered(tabs[t], new)]
  BY DEF Renders
<1>2. Rendered(tabs[t], new) \in {new, [new EXCEPT !.asking = TRUE]}
  BY DEF Rendered
<1>3. [new EXCEPT !.asking = TRUE] \in PageOf
  BY DEF PageOf
<1>4. /\ [new EXCEPT !.asking = TRUE].acct = new.acct /\ [new EXCEPT !.asking = TRUE].clicked = new.clicked
      /\ [new EXCEPT !.asking = TRUE].link = new.link /\ [new EXCEPT !.asking = TRUE].done = new.done
  BY DEF PageOf
<1>5. tabs'[t] = Rendered(tabs[t], new) /\ \A u \in Tab \ {t} : tabs'[u] = tabs[u]
  BY <1>1
<1>6. tabs' \in [Tab -> PageOf]
  BY <1>1, <1>2, <1>3
<1>7. QED
  BY <1>2, <1>4, <1>5, <1>6

\* Rows are added at the end of the table of referrals and never moved, and what the key of a row is
\* made of stays; nothing is taken out of the codes, the signatures or the rewards.
Grown ==
  /\ \A i \in DOMAIN refs :
       /\ i \in DOMAIN refs' /\ refs'[i].referrer = refs[i].referrer
       /\ refs'[i].referee = refs[i].referee /\ refs'[i].epoch = refs[i].epoch
  /\ codes \subseteq codes' /\ signed \subseteq signed'

\* What may become of a tab in a step.
Carried(t) ==
  /\ \/ tabs'[t].clicked \in {tabs[t].clicked, NoCode}
     \/ tabs'[t].done = Nobody /\ \A x \in accepts' : x.tab = t => ~x.mounted
  /\ \A a \in Address :
       \/ tabs'[t].link[a] \in {tabs[t].link[a], NoCode}
       \/ \E r \in codes' : r.code = tabs'[t].link[a] /\ r.address = a
  /\ \/ tabs'[t].done = Nobody
     \/ tabs'[t].done = tabs[t].done
     \/ \E i \in DOMAIN refs' : refs'[i].referee = tabs'[t].done
          /\ \E r \in codes : tabs'[t].clicked \in {r.code, NoCode} /\ r.address = refs'[i].referrer

LEMMA Untouched ==
  ASSUME Shape, UNCHANGED tabs
  PROVE  tabs' \in [Tab -> PageOf] /\ \A t \in Tab : Carried(t)
BY DEF Shape, TabsShape, Carried

\* A tab is carried along if its page is made anew with what it had, with no link or with one of the table.
LEMMA CarriedByRender ==
  ASSUME Shape, NEW t \in Tab, NEW new \in PageOf, Renders(t, new),
         new.clicked \in {tabs[t].clicked, NoCode},
         \A a \in Address :
           \/ new.link[a] \in {tabs[t].link[a], NoCode}
           \/ \E r \in codes' : r.code = new.link[a] /\ r.address = a,
         new.done \in {Nobody, tabs[t].done}
  PROVE  tabs' \in [Tab -> PageOf] /\ \A u \in Tab : Carried(u)
<1>1. tabs \in [Tab -> PageOf]
  BY DEF Shape, TabsShape
<1>2. /\ tabs' \in [Tab -> PageOf]
      /\ tabs'[t].clicked = new.clicked /\ tabs'[t].link = new.link /\ tabs'[t].done = new.done
      /\ \A u \in Tab \ {t} : tabs'[u] = tabs[u]
  BY <1>1, RendersPage
<1>3. Carried(t)
  BY <1>2 DEF Carried
<1>4. ASSUME NEW u \in Tab, u # t  PROVE Carried(u)
  BY <1>2, <1>4 DEF Carried
<1>5. QED
  BY <1>2, <1>3, <1>4

-----------------------------------------------------------------------------
(* The tabs.                                                               *)

LEMMA SwitchTabs ==
  ASSUME IInv, NEW t \in Tab, NEW a \in Address, Switch(t, a)
  PROVE  tabs' \in [Tab -> PageOf] /\ \A u \in Tab : Carried(u)
<1> DEFINE new == [tabs[t] EXCEPT !.acct = a, !.erred = @ \ {a}]
<1>1. tabs[t] \in PageOf
  BY DEF IInv, Shape, TabsShape
<1>2. new \in PageOf /\ new.clicked = tabs[t].clicked /\ new.link = tabs[t].link /\ new.done = tabs[t].done
  BY <1>1 DEF PageOf, Account
<1>3. Renders(t, new)
  BY DEF Switch
<1> HIDE DEF new
<1>4. QED
  BY <1>2, <1>3, CarriedByRender DEF IInv

LEMMA LeaveTabs ==
  ASSUME IInv, NEW t \in Tab, Leave(t)
  PROVE  tabs' \in [Tab -> PageOf] /\ \A u \in Tab : Carried(u)
<1> DEFINE new == [tabs[t] EXCEPT !.clicked = NoCode]
<1>1. tabs[t] \in PageOf
  BY DEF IInv, Shape, TabsShape
<1>2. new \in PageOf /\ new.clicked = NoCode /\ new.link = tabs[t].link /\ new.done = tabs[t].done
  BY <1>1 DEF PageOf, MaybeCode
<1>3. Renders(t, new)
  BY DEF Leave
<1> HIDE DEF new
<1>4. QED
  BY <1>2, <1>3, CarriedByRender DEF IInv

\* What errors stand is of no account for the rest.
LEMMA ErredTabs ==
  ASSUME Shape, NEW t \in Tab, NEW e \in SUBSET Address, tabs' = [tabs EXCEPT ![t].erred = e]
  PROVE  tabs' \in [Tab -> PageOf] /\ \A u \in Tab : Carried(u)
<1> DEFINE new == [tabs[t] EXCEPT !.erred = e]
<1>1. tabs \in [Tab -> PageOf] /\ tabs[t] \in PageOf
  BY DEF Shape, TabsShape
<1>2. new \in PageOf /\ new.clicked = tabs[t].clicked /\ new.link = tabs[t].link /\ new.done = tabs[t].done
  BY <1>1 DEF PageOf
<1>3. tabs' = [tabs EXCEPT ![t] = new]
  BY <1>1 DEF PageOf
<1> HIDE DEF new
<1>4. tabs' \in [Tab -> PageOf] /\ tabs'[t] = new /\ \A u \in Tab \ {t} : tabs'[u] = tabs[u]
  BY <1>1, <1>2, <1>3
<1>5. Carried(t)
  BY <1>2, <1>4 DEF Carried
<1>6. ASSUME NEW u \in Tab, u # t  PROVE Carried(u)
  BY <1>4, <1>6 DEF Carried
<1>7. QED
  BY <1>4, <1>5, <1>6

LEMMA FocusTabs ==
  ASSUME IInv, NEW t \in Tab, Focus(t)
  PROVE  tabs' \in [Tab -> PageOf] /\ \A u \in Tab : Carried(u)
<1> DEFINE e == tabs[t].erred \ {tabs[t].acct}
<1>1. tabs \in [Tab -> PageOf] /\ tabs[t] \in PageOf
  BY DEF IInv, Shape, TabsShape
<1>2. e \in SUBSET Address
  BY <1>1 DEF PageOf
<1>3. tabs' = [tabs EXCEPT ![t].erred = e]
  BY DEF Focus
<1> HIDE DEF e
<1>4. QED
  BY <1>2, <1>3, ErredTabs DEF IInv

LEMMA ErrsTabs ==
  ASSUME Shape, NEW t \in Tab, NEW a \in Address, Errs(t, a)
  PROVE  tabs' \in [Tab -> PageOf] /\ \A u \in Tab : Carried(u)
<1> DEFINE e == tabs[t].erred \cup {a}
<1>1. tabs[t] \in PageOf
  BY DEF Shape, TabsShape
<1>2. e \in SUBSET Address
  BY <1>1 DEF PageOf
<1>3. tabs' = [tabs EXCEPT ![t].erred = e]
  BY DEF Errs
<1> HIDE DEF e
<1>4. QED
  BY <1>2, <1>3, ErredTabs

\* A page that is loaded shows nothing as accepted, and has no modal that something is waited for in.
LEMMA LoadTabs ==
  ASSUME IInv, NEW t \in Tab, NEW code \in MaybeCode, Load(t, code)
  PROVE  tabs' \in [Tab -> PageOf] /\ \A u \in Tab : Carried(u)
<1> DEFINE old == [tabs[t] EXCEPT !.acct = Nobody]
           new == [tabs[t] EXCEPT !.clicked = code, !.asking = FALSE, !.done = Nobody, !.erred = {}]
<1>0. tabs \in [Tab -> PageOf] /\ tabs[t] \in PageOf
  BY DEF IInv, Shape, TabsShape
<1>1. /\ new \in PageOf /\ [new EXCEPT !.asking = TRUE] \in PageOf
      /\ new.link = tabs[t].link /\ new.done = Nobody
      /\ [new EXCEPT !.asking = TRUE].link = tabs[t].link
      /\ [new EXCEPT !.asking = TRUE].done = Nobody
  BY <1>0 DEF PageOf, Account
<1>2. tabs' = [tabs EXCEPT ![t] = Rendered(old, new)]
  BY DEF Load
<1>3. Rendered(old, new) \in {new, [new EXCEPT !.asking = TRUE]}
  BY DEF Rendered
<1>u. \A x \in accepts' : x.tab = t => ~x.mounted
  <2>1. accepts' = {[x EXCEPT !.mounted = @ /\ x.tab # t] : x \in {y \in accepts : y.tab # t \/ y.at # "sign"}}
    BY DEF Load
  <2>2. accepts \in SUBSET Acceptance
    BY DEF IInv, Shape, TabsShape
  <2>3. \A x \in Acceptance, b \in BOOLEAN : [x EXCEPT !.mounted = b].tab = x.tab /\ [x EXCEPT !.mounted = b].mounted = b
    BY DEF Acceptance
  <2>4. \A x \in accepts : (x.mounted /\ x.tab # t) \in BOOLEAN
    OBVIOUS
  <2>5. QED
    BY <2>1, <2>2, <2>3, <2>4
<1> HIDE DEF new, old
<1>4. /\ Rendered(old, new) \in PageOf
      /\ Rendered(old, new).link = tabs[t].link /\ Rendered(old, new).done = Nobody
  BY <1>1, <1>3
<1>5. tabs' \in [Tab -> PageOf] /\ tabs'[t] = Rendered(old, new) /\ \A u \in Tab \ {t} : tabs'[u] = tabs[u]
  BY <1>0, <1>2, <1>4
<1>6. Carried(t)
  BY <1>4, <1>5, <1>u DEF Carried
<1>7. ASSUME NEW u \in Tab, u # t  PROVE Carried(u)
  BY <1>5, <1>7 DEF Carried
<1>8. QED
  BY <1>5, <1>6, <1>7

LEMMA VisitTabs ==
  ASSUME IInv, NEW t \in Tab, NEW link \in shared, Visit(t, link)
  PROVE  tabs' \in [Tab -> PageOf] /\ \A u \in Tab : Carried(u)
<1>1. link.code \in MaybeCode
  BY DEF IInv, Shape, SignedShape, MaybeCode
<1>2. QED
  BY <1>1, LoadTabs DEF Visit

LEMMA ReloadTabs ==
  ASSUME IInv, NEW t \in Tab, Reload(t)
  PROVE  tabs' \in [Tab -> PageOf] /\ \A u \in Tab : Carried(u)
<1>1. tabs[t].clicked \in MaybeCode
  BY DEF IInv, Shape, TabsShape, PageOf
<1>2. QED
  BY <1>1, LoadTabs DEF Reload

LEMMA CloseModalTabs ==
  ASSUME IInv, NEW t \in Tab, CloseModal(t)
  PROVE  tabs' \in [Tab -> PageOf] /\ \A u \in Tab : Carried(u)
<1> DEFINE new == [tabs[t] EXCEPT !.asking = FALSE, !.done = Nobody]
<1>1. tabs \in [Tab -> PageOf] /\ tabs[t] \in PageOf
  BY DEF IInv, Shape, TabsShape
<1>2. new \in PageOf /\ new.clicked = tabs[t].clicked /\ new.link = tabs[t].link /\ new.done = Nobody
  BY <1>1 DEF PageOf, Account
<1>3. tabs' = [tabs EXCEPT ![t] = new]
  BY <1>1 DEF CloseModal, PageOf
<1> HIDE DEF new
<1>4. tabs' \in [Tab -> PageOf] /\ tabs'[t] = new /\ \A u \in Tab \ {t} : tabs'[u] = tabs[u]
  BY <1>1, <1>2, <1>3
<1>5. Carried(t)
  BY <1>2, <1>4 DEF Carried
<1>6. ASSUME NEW u \in Tab, u # t  PROVE Carried(u)
  BY <1>4, <1>6 DEF Carried
<1>7. QED
  BY <1>4, <1>5, <1>6

\* An answer gives the account it is about no link, or one of the table.
LEMMA AnswerTabs ==
  ASSUME Shape, NEW c \in calls, NEW data \in MaybeCode, Answer(c, data),
         data = NoCode \/ \E r \in codes' : r.code = data /\ r.address = c.row.address
  PROVE  tabs' \in [Tab -> PageOf] /\ \A u \in Tab : Carried(u)
<1> DEFINE t == c.tab
           a == c.row.address
           new == [tabs[t] EXCEPT !.link[a] = data]
<1>1. t \in Tab /\ a \in Address /\ tabs[t] \in PageOf
  BY DEF Shape, TabsShape, Call, CodeRow
<1>2. /\ new \in PageOf /\ new.clicked = tabs[t].clicked /\ new.done = tabs[t].done
      /\ new.link = [tabs[t].link EXCEPT ![a] = data]
  BY <1>1 DEF PageOf
<1>3. tabs[t].link \in [Address -> MaybeCode \cup {NoData}]
  BY <1>1 DEF PageOf
<1>4. CASE UNCHANGED tabs
  BY <1>4, Untouched
<1>5. CASE Renders(t, new)
  <2> HIDE DEF new
  <2>1. \A b \in Address :
           \/ new.link[b] \in {tabs[t].link[b], NoCode}
           \/ \E r \in codes' : r.code = new.link[b] /\ r.address = b
    BY <1>2, <1>3
  <2>2. new.clicked \in {tabs[t].clicked, NoCode} /\ new.done \in {Nobody, tabs[t].done}
    BY <1>2
  <2>3. QED
    BY <1>1, <1>2, <1>5, <2>1, <2>2, CarriedByRender, ZenonT(40)
<1>6. QED
  BY <1>4, <1>5 DEF Answer

LEMMA AskTabs ==
  ASSUME IInv, NEW t \in Tab, Ask(t)
  PROVE  tabs' \in [Tab -> PageOf] /\ \A u \in Tab : Carried(u)
<1> DEFINE a == tabs[t].acct
<1>1. tabs[t] \in PageOf /\ a \in Address /\ codes \in SUBSET CodeRow
  BY DEF Ask, IInv, Shape, TabsShape, TablesShape, PageOf, Account
<1>2. codes' = codes
  BY DEF Ask, tables
<1>3. ASSUME NEW r \in CodeByAddress(a, epoch), Renders(t, [tabs[t] EXCEPT !.link[a] = r.code])
      PROVE  tabs' \in [Tab -> PageOf] /\ \A u \in Tab : Carried(u)
  <2> DEFINE new == [tabs[t] EXCEPT !.link[a] = r.code]
  <2>1. r \in codes /\ r.address = a /\ r.code \in Code
    BY <1>1, <1>3 DEF CodeByAddress, CodeRow
  <2>2. /\ new \in PageOf /\ new.clicked = tabs[t].clicked /\ new.done = tabs[t].done
        /\ new.link = [tabs[t].link EXCEPT ![a] = r.code]
    BY <1>1, <2>1 DEF PageOf, MaybeCode
  <2>3. tabs[t].link \in [Address -> MaybeCode \cup {NoData}]
    BY <1>1 DEF PageOf
  <2>4. Renders(t, new)
    BY <1>3
  <2> HIDE DEF new
  <2>5. \A b \in Address :
           \/ new.link[b] \in {tabs[t].link[b], NoCode}
           \/ \E s \in codes' : s.code = new.link[b] /\ s.address = b
    BY <1>2, <2>1, <2>2, <2>3
  <2>6. QED
    BY <2>2, <2>4, <2>5, CarriedByRender DEF IInv
<1>4. CASE UNCHANGED tabs
  BY <1>4, Untouched DEF IInv
<1>5. CASE Errs(t, a)
  BY <1>1, <1>5, ErrsTabs DEF IInv
<1>6. QED
  BY <1>3, <1>4, <1>5 DEF Ask

LEMMA InsertCodeTabs ==
  ASSUME IInv, NEW c \in calls, InsertCode(c)
  PROVE  tabs' \in [Tab -> PageOf] /\ \A u \in Tab : Carried(u)
<1>1. c.row \in CodeRow /\ c.row.code \in Code
  BY DEF IInv, Shape, TabsShape, Call, CodeRow
<1>2. Outcome(c.row) \in MaybeCode
  BY <1>1 DEF Outcome, MaybeCode
<1>3. Outcome(c.row) = NoCode \/ \E r \in codes' : r.code = Outcome(c.row) /\ r.address = c.row.address
  BY DEF InsertCode, Outcome
<1>4. Answer(c, Outcome(c.row))
  BY DEF InsertCode
<1>5. QED
  BY <1>2, <1>3, <1>4, AnswerTabs DEF IInv

LEMMA CodeFaultTabs ==
  ASSUME IInv, NEW c \in calls, CodeFault(c)
  PROVE  tabs' \in [Tab -> PageOf] /\ \A u \in Tab : Carried(u)
<1>1. CASE UNCHANGED tabs
  BY <1>1, Untouched DEF IInv
<1>2. CASE Answer(c, NoCode)
  <2>1. NoCode \in MaybeCode
    BY DEF MaybeCode
  <2>2. QED
    BY <1>2, <2>1, AnswerTabs DEF IInv
<1>3. CASE Errs(c.tab, c.row.address)
  <2>1. c.tab \in Tab /\ c.row.address \in Address
    BY DEF IInv, Shape, TabsShape, Call, CodeRow
  <2>2. QED
    BY <1>3, <2>1, ErrsTabs DEF IInv
<1>4. QED
  BY <1>1, <1>2, <1>3 DEF CodeFault

LEMMA OfferTabs ==
  ASSUME IInv, NEW t \in Tab, Offer(t)
  PROVE  tabs' \in [Tab -> PageOf] /\ \A u \in Tab : Carried(u)
<1> DEFINE a == tabs[t].acct
           k == <<tabs[t].clicked, a>>
<1>1. tabs[t] \in PageOf /\ codes \in SUBSET CodeRow
  BY DEF IInv, Shape, TabsShape, TablesShape
<1>2. PICK b \in {r.address : r \in CodeByCode(tabs[t].clicked, epoch)} :
        a # Nobody /\ Renders(t, [tabs[t] EXCEPT !.offer[k] = b])
  BY DEF Offer
<1> DEFINE new == [tabs[t] EXCEPT !.offer[k] = b]
<1>3. b \in Address /\ k \in Code \X Address
  BY <1>1, <1>2 DEF CodeByCode, CodeRow, PageOf, Account
<1> HIDE DEF k
<1>4. /\ new \in PageOf /\ new.clicked = tabs[t].clicked /\ new.done = tabs[t].done /\ new.link = tabs[t].link
  BY <1>1, <1>3 DEF PageOf
<1>5. Renders(t, new)
  BY <1>2
<1> HIDE DEF new
<1>6. QED
  BY <1>4, <1>5, CarriedByRender DEF IInv

\* ACCEPTED! is of a row that is added, by the owner of the code that the tab was opened with.
LEMMA AddReferralTabs ==
  ASSUME IInv, NEW x \in accepts, AddReferral(x)
  PROVE  tabs' \in [Tab -> PageOf] /\ \A u \in Tab : Carried(u)
<1> DEFINE t == x.tab
<1>1. /\ tabs \in [Tab -> PageOf] /\ t \in Tab /\ tabs[t] \in PageOf
      /\ x.address \in Address /\ x.code \in MaybeCode /\ refs \in Seq(ReferralRow) /\ codes \in SUBSET CodeRow
      /\ OfItsTab(x, tabs[t].clicked)
  BY DEF IInv, Shape, TabsShape, TablesShape, Acceptance, Posted
<1>2. PICK by \in Referrers(x) :
        LET fresh == Between(by, x.address) = {}
        IN  /\ refs' = IF fresh THEN Append(refs, [referrer |-> by, referee |-> x.address, epoch |-> epoch,
                                                   progress |-> 0, active |-> FALSE]) ELSE refs
            /\ tabs' = [tabs EXCEPT ![t].done = Done(x, fresh)]
  BY DEF AddReferral
<1> DEFINE fresh == Between(by, x.address) = {}
           row == [referrer |-> by, referee |-> x.address, epoch |-> epoch, progress |-> 0, active |-> FALSE]
           d == Done(x, fresh)
           new == [tabs[t] EXCEPT !.done = d]
<1>3. PICK r \in codes : r.code = x.code /\ r.address = by
  BY DEF Referrers, CodeByCode
<1>4. x.code # NoCode
  BY <1>1, <1>3, ReferralAssumption DEF CodeRow
<1>5. d = tabs[t].done \/ (fresh /\ x.mounted /\ d = x.address)
  BY DEF Done
<1>6. d \in Account
  BY <1>1, <1>5 DEF Account, PageOf
<1>7. tabs' = [tabs EXCEPT ![t] = new]
  BY <1>1, <1>2 DEF PageOf
<1> HIDE DEF d
<1>8. /\ new \in PageOf /\ new.clicked = tabs[t].clicked /\ new.link = tabs[t].link /\ new.done = d
  BY <1>1, <1>6 DEF PageOf
<1> HIDE DEF new
<1>9. tabs' \in [Tab -> PageOf] /\ tabs'[t] = new /\ \A u \in Tab \ {t} : tabs'[u] = tabs[u]
  BY <1>1, <1>7, <1>8
<1>10. ASSUME fresh, x.mounted, d = x.address
       PROVE  \E i \in DOMAIN refs' : refs'[i].referee = tabs'[t].done
                /\ \E s \in codes : tabs'[t].clicked \in {s.code, NoCode} /\ s.address = refs'[i].referrer
  <2>1. refs' = Append(refs, row)
    BY <1>2, <1>10
  <2>2. Len(refs) + 1 \in DOMAIN refs' /\ refs'[Len(refs) + 1] = row
    BY <1>1, <2>1
  <2>3. row.referee = x.address /\ row.referrer = by
    OBVIOUS
  <2>4. tabs'[t].done = x.address /\ tabs'[t].clicked \in {x.code, NoCode}
    BY <1>1, <1>4, <1>8, <1>9, <1>10 DEF OfItsTab
  <2> HIDE DEF row
  <2>5. QED
    BY <1>3, <2>2, <2>3, <2>4
<1>11. Carried(t)
  BY <1>5, <1>8, <1>9, <1>10 DEF Carried
<1>12. ASSUME NEW u \in Tab, u # t  PROVE Carried(u)
  BY <1>9, <1>12 DEF Carried
<1>13. QED
  BY <1>9, <1>11, <1>12

LEMMA AcceptFailsTabs ==
  ASSUME IInv, NEW x \in accepts, AcceptFails(x)
  PROVE  tabs' \in [Tab -> PageOf] /\ \A u \in Tab : Carried(u)
<1>1. tabs \in [Tab -> PageOf] /\ x.tab \in Tab /\ tabs[x.tab] \in PageOf
  BY DEF IInv, Shape, TabsShape, Acceptance
<1>2. tabs' = [tabs EXCEPT ![x.tab].done = tabs[x.tab].done]
  BY DEF AcceptFails, Failed
<1>3. [tabs[x.tab] EXCEPT !.done = tabs[x.tab].done] = tabs[x.tab]
  BY <1>1 DEF PageOf
<1>4. tabs' = tabs
  BY <1>1, <1>2, <1>3
<1>5. QED
  BY <1>4, Untouched DEF IInv

\* What the handlers of the activator do.
ActivatorMoves ==
  (\E m \in DOMAIN messages : Handle(m) \/ Activate(m) \/ UpdateReferral(m) \/ Acked(m)) \/ Crash

LEMMA TabsStep ==
  ASSUME IInv, Next
  PROVE  tabs' \in [Tab -> PageOf] /\ \A u \in Tab : Carried(u)
<1>1. ASSUME NEW t \in Tab, NEW a \in Address, Switch(t, a)
      PROVE  tabs' \in [Tab -> PageOf] /\ \A u \in Tab : Carried(u)
  BY <1>1, SwitchTabs
<1>2. ASSUME NEW t \in Tab, NEW link \in shared, Visit(t, link)
      PROVE  tabs' \in [Tab -> PageOf] /\ \A u \in Tab : Carried(u)
  BY <1>2, VisitTabs
<1>3. ASSUME NEW t \in Tab, Reload(t) \/ Leave(t) \/ Focus(t) \/ CloseModal(t) \/ Ask(t) \/ Offer(t)
      PROVE  tabs' \in [Tab -> PageOf] /\ \A u \in Tab : Carried(u)
  BY <1>3, ReloadTabs, LeaveTabs, FocusTabs, CloseModalTabs, AskTabs, OfferTabs
<1>4. ASSUME NEW c \in calls, InsertCode(c) \/ CodeFault(c)
      PROVE  tabs' \in [Tab -> PageOf] /\ \A u \in Tab : Carried(u)
  BY <1>4, InsertCodeTabs, CodeFaultTabs
<1>5. ASSUME NEW x \in accepts, AddReferral(x) \/ AcceptFails(x)
      PROVE  tabs' \in [Tab -> PageOf] /\ \A u \in Tab : Carried(u)
  BY <1>5, AddReferralTabs, AcceptFailsTabs
<1>6. CASE UNCHANGED tabs
  BY <1>6, Untouched DEF IInv
<1>7. ASSUME NEW t \in Tab, Copy(t) \/ Accept(t)  PROVE UNCHANGED tabs
  BY <1>7 DEF Copy, Accept
<1>8. ASSUME NEW x \in accepts, SignBuffer(x) \/ Decline(x)  PROVE UNCHANGED tabs
  BY <1>8 DEF SignBuffer, Decline
<1>9. NewEpoch => UNCHANGED tabs
  BY DEF NewEpoch
<1>10. ASSUME NEW a \in Address, NEW n \in Won, Win(a, n)  PROVE UNCHANGED tabs
  BY <1>10 DEF Win
<1>11. ActivatorMoves => UNCHANGED tabs
  BY DEF ActivatorMoves, Handle, Activate, UpdateReferral, Acked, Crash
<1>12. QED
  BY <1>1, <1>2, <1>3, <1>4, <1>5, <1>6, <1>7, <1>8, <1>9, <1>10, <1>11 DEF Next, User, ActivatorMoves

-----------------------------------------------------------------------------
(* The tables.                                                             *)

LEMMA HandledIs ==
  ASSUME IInv, NEW m \in DOMAIN messages
  PROVE  messages[m] \in Message /\ (m \in Handled <=> messages[m].at \in {"look", "update"})
<1>1. messages \in Seq(Message)
  BY DEF IInv, Shape, PaidShape
<1>2. QED
  BY <1>1 DEF Handled

LEMMA ReadingIs ==
  ASSUME NEW f \in Reading
  PROVE  DOMAIN f \in SUBSET Nat /\ \A i \in DOMAIN f : f[i] \in ReferralRow
<1>1. PICK P \in SUBSET Nat : f \in [P -> ReferralRow]
  BY DEF Reading
<1>2. QED
  BY <1>1

\* The row a handler is at was read from its place, and was short of what it takes.
LEMMA RowRead ==
  ASSUME IInv, NEW m \in Handled, DOMAIN messages[m].todo # {}
  PROVE  /\ messages[m] \in Message
         /\ Place(m) \in DOMAIN messages[m].todo /\ Place(m) \in DOMAIN refs /\ refs[Place(m)] \in ReferralRow
         /\ Referral(m) = messages[m].todo[Place(m)] /\ Referral(m) \in ReferralRow /\ ~Referral(m).active
         /\ Referral(m).progress < Required
         /\ Referral(m).referrer = refs[Place(m)].referrer /\ Referral(m).referee = refs[Place(m)].referee
         /\ Referral(m).epoch = refs[Place(m)].epoch
         /\ Referral(m).referee = messages[m].who /\ Referral(m).epoch = messages[m].epoch
<1>1. m \in DOMAIN messages /\ refs \in Seq(ReferralRow)
  BY DEF IInv, Shape, TablesShape, Handled
<1>2. messages[m] \in Message
  BY <1>1, HandledIs
<1>3. DOMAIN messages[m].todo \in SUBSET Nat /\ \A i \in DOMAIN messages[m].todo : messages[m].todo[i] \in ReferralRow
  BY <1>2, ReadingIs DEF Message
<1>4. PICK i \in DOMAIN messages[m].todo : \A j \in DOMAIN messages[m].todo : i <= j
  BY <1>3, LeastElement
<1>5. Place(m) \in DOMAIN messages[m].todo
  BY <1>4 DEF Place, Earliest
<1>6. Referral(m) = messages[m].todo[Place(m)]
  BY DEF Referral
<1>7. LET row == messages[m].todo[Place(m)] IN
      /\ Place(m) \in DOMAIN refs /\ ~row.active /\ row.progress < Required
      /\ row.referrer = refs[Place(m)].referrer /\ row.referee = refs[Place(m)].referee /\ row.epoch = refs[Place(m)].epoch
      /\ row.referee = messages[m].who /\ row.epoch = messages[m].epoch
  BY <1>5 DEF IInv, AsRead
<1>8. QED
  BY <1>1, <1>2, <1>3, <1>5, <1>6, <1>7

\* What is added to a row is no more than it is short of, nor than there is left.
LEMMA Contributed ==
  ASSUME IInv, NEW m \in Handled, DOMAIN messages[m].todo # {}
  PROVE  /\ Contribution(m) \in Nat /\ Contribution(m) <= messages[m].left
         /\ Referral(m).progress + Contribution(m) \in 0..Required
<1>1. messages[m].left \in Nat
  BY RowRead DEF Message
<1>2. Referral(m).progress \in 0..Required /\ Referral(m).progress < Required
  BY RowRead DEF ReferralRow
<1>3. Required \in Nat
  BY ReferralAssumption
<1>4. QED
  BY <1>1, <1>2, <1>3 DEF Contribution, Least

\* An update writes the row in the place that was read, and no other.
LEMMA UpdatedRow ==
  ASSUME IInv, NEW m \in DOMAIN messages, UpdateReferral(m)
  PROVE  LET p == Referral(m).progress + Contribution(m) IN
         /\ m \in Handled /\ messages[m].at = "update" /\ DOMAIN messages[m].todo # {}
         /\ refs' = [refs EXCEPT ![Place(m)] = [@ EXCEPT !.progress = p, !.active = p >= Required]]
<1> DEFINE p == Referral(m).progress + Contribution(m)
<1>1. messages[m].at = "update"
  BY DEF UpdateReferral
<1>1b. m \in Handled
  BY <1>1 DEF Handled
<1>2. DOMAIN messages[m].todo # {}
  BY <1>1, <1>1b DEF IInv, AsRead
<1>3. /\ Place(m) \in DOMAIN refs /\ refs[Place(m)] \in ReferralRow /\ ~Referral(m).active
      /\ Referral(m).referrer = refs[Place(m)].referrer /\ Referral(m).referee = refs[Place(m)].referee
      /\ messages[m].epoch = refs[Place(m)].epoch
  BY <1>1b, <1>2, RowRead
<1>4. refs' = [i \in DOMAIN refs |->
          IF <<refs[i].referrer, refs[i].referee, refs[i].epoch>>
             = <<Referral(m).referrer, Referral(m).referee, messages[m].epoch>>
          THEN [refs[i] EXCEPT !.progress = p, !.active = Referral(m).active \/ p >= Required] ELSE refs[i]]
  BY DEF UpdateReferral
<1>5. \A i \in DOMAIN refs :
        <<refs[i].referrer, refs[i].referee, refs[i].epoch>>
          = <<Referral(m).referrer, Referral(m).referee, messages[m].epoch>> <=> i = Place(m)
  BY <1>3 DEF IInv, Keyed, Pair
<1> HIDE DEF p
<1>6. [refs[Place(m)] EXCEPT !.progress = p, !.active = Referral(m).active \/ p >= Required]
      = [refs[Place(m)] EXCEPT !.progress = p, !.active = p >= Required]
  <2>1. (Referral(m).active \/ p >= Required) = (p >= Required)
    BY <1>3
  <2>2. QED
    BY <2>1, Zenon
<1>7. refs' = [refs EXCEPT ![Place(m)] = [@ EXCEPT !.progress = p, !.active = p >= Required]]
  BY <1>3, <1>4, <1>5, <1>6
<1>8. QED
  BY <1>1, <1>1b, <1>2, <1>7 DEF p

\* The row that is added is of two who had none, and the referee signed for it.
LEMMA AddedRow ==
  ASSUME IInv, NEW x \in accepts, AddReferral(x)
  PROVE  \/ refs' = refs
         \/ \E row \in ReferralRow :
              /\ refs' = Append(refs, row) /\ row.epoch = epoch /\ row.progress = 0 /\ ~row.active
              /\ \A i \in DOMAIN refs : Pair(i) # <<row.referrer, row.referee>>
              /\ \E s \in signed :
                   /\ s.by = row.referee /\ s.address = row.referee
                   /\ [code |-> s.code, address |-> row.referrer, epoch |-> row.epoch] \in codes
<1>1. x \in Acceptance /\ refs \in Seq(ReferralRow) /\ codes \in SUBSET CodeRow /\ epoch \in 1..MaxEpochs
  BY DEF IInv, Shape, TabsShape, TablesShape
<1>2. PICK by \in Referrers(x) :
        refs' = IF Between(by, x.address) = {}
                THEN Append(refs, [referrer |-> by, referee |-> x.address, epoch |-> epoch,
                                   progress |-> 0, active |-> FALSE]) ELSE refs
  BY DEF AddReferral
<1> DEFINE row == [referrer |-> by, referee |-> x.address, epoch |-> epoch, progress |-> 0, active |-> FALSE]
<1>3. PICK r \in codes : r.code = x.code /\ r.epoch = epoch /\ r.address = by /\ x.signer = x.address
  BY DEF Referrers, CodeByCode, Recovers
<1>4. by \in Address /\ x.address \in Address /\ r = [code |-> x.code, address |-> by, epoch |-> epoch]
  BY <1>1, <1>3 DEF CodeRow, Acceptance
<1>5. row \in ReferralRow
  BY <1>1, <1>4, ReferralAssumption DEF ReferralRow
<1>6. [by |-> x.signer, code |-> x.code, address |-> x.address] \in signed
  BY DEF AddReferral, IInv, Posted
<1>7. CASE Between(by, x.address) = {}
  <2>1. \A i \in DOMAIN refs : Pair(i) # <<by, x.address>>
    BY <1>7 DEF Between, Pair
  <2>2. refs' = Append(refs, row)
    BY <1>2, <1>7
  <2>3. \E s \in signed :
          /\ s.by = row.referee /\ s.address = row.referee
          /\ [code |-> s.code, address |-> row.referrer, epoch |-> row.epoch] \in codes
    BY <1>3, <1>4, <1>6
  <2>4. QED
    BY <1>5, <2>1, <2>2, <2>3
<1>8. CASE Between(by, x.address) # {}
  BY <1>2, <1>8
<1>9. QED
  BY <1>7, <1>8

\* The steps that change a table.
LEMMA TableSteps ==
  ASSUME Next
  PROVE  \/ UNCHANGED tables
         \/ \E c \in calls : InsertCode(c)
         \/ \E x \in accepts : AddReferral(x)
         \/ NewEpoch
         \/ \E m \in DOMAIN messages : UpdateReferral(m)
<1>1. ASSUME NEW t \in Tab, User(t) \/ Ask(t) \/ Offer(t)  PROVE UNCHANGED tables
  <2>1. ASSUME NEW a \in Address, Switch(t, a)  PROVE UNCHANGED tables
    BY <2>1 DEF Switch
  <2>2. ASSUME NEW link \in shared, Visit(t, link)  PROVE UNCHANGED tables
    BY <2>2 DEF Visit
  <2>3. Reload(t) \/ Leave(t) \/ Focus(t) \/ Copy(t) \/ CloseModal(t) \/ Accept(t) \/ Ask(t) \/ Offer(t) => UNCHANGED tables
    BY DEF Reload, Leave, Focus, Copy, CloseModal, Accept, Ask, Offer
  <2>4. QED
    BY <1>1, <2>1, <2>2, <2>3 DEF User
<1>2. ASSUME NEW c \in calls, CodeFault(c)  PROVE UNCHANGED tables
  BY <1>2 DEF CodeFault
<1>3. ASSUME NEW x \in accepts, SignBuffer(x) \/ Decline(x) \/ AcceptFails(x)  PROVE UNCHANGED tables
  BY <1>3 DEF SignBuffer, Decline, AcceptFails
<1>4. ASSUME NEW a \in Address, NEW n \in Won, Win(a, n)  PROVE UNCHANGED tables
  BY <1>4 DEF Win
<1>5. ASSUME NEW m \in DOMAIN messages, Handle(m) \/ Activate(m) \/ Acked(m)  PROVE UNCHANGED tables
  BY <1>5 DEF Handle, Activate, Acked
<1>5b. Crash => UNCHANGED tables
  BY DEF Crash
<1>6. QED
  BY <1>1, <1>2, <1>3, <1>4, <1>5, <1>5b DEF Next

\* Nothing that was signed is forgotten.
LEMMA SignedGrows ==
  ASSUME Next
  PROVE  signed \subseteq signed'
<1>1. ASSUME NEW t \in Tab, User(t) \/ Ask(t) \/ Offer(t)  PROVE signed' = signed
  <2>1. ASSUME NEW a \in Address, Switch(t, a)  PROVE signed' = signed
    BY <2>1 DEF Switch
  <2>2. ASSUME NEW link \in shared, Visit(t, link)  PROVE signed' = signed
    BY <2>2 DEF Visit
  <2>3. Reload(t) \/ Leave(t) \/ Focus(t) \/ Copy(t) \/ CloseModal(t) \/ Accept(t) \/ Ask(t) \/ Offer(t) => signed' = signed
    BY DEF Reload, Leave, Focus, Copy, CloseModal, Accept, Ask, Offer
  <2>4. QED
    BY <1>1, <2>1, <2>2, <2>3 DEF User
<1>2. ASSUME NEW c \in calls, InsertCode(c) \/ CodeFault(c)  PROVE signed' = signed
  BY <1>2 DEF InsertCode, CodeFault
<1>3. ASSUME NEW x \in accepts, SignBuffer(x)  PROVE signed \subseteq signed'
  BY <1>3 DEF SignBuffer
<1>4. ASSUME NEW x \in accepts, Decline(x) \/ AddReferral(x) \/ AcceptFails(x)  PROVE signed' = signed
  BY <1>4 DEF Decline, AddReferral, AcceptFails
<1>5. ASSUME NEW a \in Address, NEW n \in Won, Win(a, n)  PROVE signed' = signed
  BY <1>5 DEF Win
<1>6. NewEpoch \/ ActivatorMoves => signed' = signed
  BY DEF NewEpoch, ActivatorMoves, Handle, Activate, UpdateReferral, Acked, Crash
<1>7. QED
  BY <1>1, <1>2, <1>3, <1>4, <1>5, <1>6 DEF Next, ActivatorMoves

LEMMA TablesKept ==
  ASSUME IInv, UNCHANGED tables, signed \subseteq signed'
  PROVE  TablesShape' /\ Keyed' /\ Grown /\ Short' /\ SignedByReferee'
<1>1. codes' = codes /\ refs' = refs /\ epoch' = epoch
  BY DEF tables
<1>2. TablesShape' /\ Keyed' /\ Short'
  BY <1>1 DEF IInv, Shape, TablesShape, Keyed, Short, Pair
<1>3. Grown
  BY <1>1 DEF Grown
<1>4. SignedByReferee'
  BY <1>1 DEF IInv, SignedByReferee
<1>5. QED
  BY <1>2, <1>3, <1>4

LEMMA InsertCodeTables ==
  ASSUME IInv, NEW c \in calls, InsertCode(c)
  PROVE  TablesShape' /\ Keyed' /\ Grown /\ Short' /\ SignedByReferee'
<1>1. refs' = refs /\ epoch' = epoch /\ signed' = signed
  BY DEF InsertCode
<1>2. codes' = IF Fits(c.row) THEN codes \cup {c.row} ELSE codes
  BY DEF InsertCode
<1>3. c.row \in CodeRow /\ codes \in SUBSET CodeRow
  BY DEF IInv, Shape, TabsShape, TablesShape, Call
<1>4. codes \subseteq codes' /\ codes' \in SUBSET CodeRow
  BY <1>2, <1>3
<1>5. \A r, s \in codes' : r.code = s.code \/ r.address = s.address => r = s
  BY <1>2 DEF IInv, Keyed, Fits
<1>6. TablesShape' /\ Short'
  BY <1>1, <1>4 DEF IInv, Shape, TablesShape, Short
<1>7. \A i, j \in DOMAIN refs : Pair(i) = Pair(j) => i = j
  BY DEF IInv, Keyed
<1>8. Keyed'
  BY <1>1, <1>5, <1>7 DEF Keyed, Pair
<1>9. Grown
  BY <1>1, <1>4 DEF Grown
<1>10. SignedByReferee'
  BY <1>1, <1>4 DEF IInv, SignedByReferee
<1>11. QED
  BY <1>6, <1>8, <1>9, <1>10

LEMMA NewEpochTables ==
  ASSUME IInv, NewEpoch
  PROVE  TablesShape' /\ Keyed' /\ Grown /\ Short' /\ SignedByReferee'
<1>1. codes' = codes /\ refs' = refs /\ signed' = signed /\ epoch' = epoch + 1 /\ epoch < MaxEpochs
  BY DEF NewEpoch
<1>2. TablesShape'
  BY <1>1, ReferralAssumption DEF IInv, Shape, TablesShape
<1>3. Keyed' /\ Short'
  BY <1>1 DEF IInv, Keyed, Short, Pair
<1>4. Grown
  BY <1>1 DEF Grown
<1>5. SignedByReferee'
  BY <1>1 DEF IInv, SignedByReferee
<1>6. QED
  BY <1>2, <1>3, <1>4, <1>5

LEMMA AddReferralTables ==
  ASSUME IInv, NEW x \in accepts, AddReferral(x)
  PROVE  TablesShape' /\ Keyed' /\ Grown /\ Short' /\ SignedByReferee'
<1>1. codes' = codes /\ epoch' = epoch /\ signed' = signed
  BY DEF AddReferral
<1>2. CASE refs' = refs
  BY <1>1, <1>2, TablesKept DEF tables
<1>3. ASSUME NEW row \in ReferralRow, refs' = Append(refs, row), row.progress = 0, ~row.active,
             \A i \in DOMAIN refs : Pair(i) # <<row.referrer, row.referee>>,
             \E s \in signed :
               /\ s.by = row.referee /\ s.address = row.referee
               /\ [code |-> s.code, address |-> row.referrer, epoch |-> row.epoch] \in codes
      PROVE  TablesShape' /\ Keyed' /\ Grown /\ Short' /\ SignedByReferee'
  <2>1. refs \in Seq(ReferralRow)
    BY DEF IInv, Shape, TablesShape
  <2>2. /\ DOMAIN refs' = DOMAIN refs \cup {Len(refs) + 1} /\ refs'[Len(refs) + 1] = row
        /\ \A i \in DOMAIN refs : refs'[i] = refs[i] /\ i # Len(refs) + 1
    BY <1>3, <2>1
  <2>3. refs' \in Seq(ReferralRow)
    BY <1>3, <2>1
  <2>4. TablesShape'
    BY <1>1, <2>3 DEF IInv, Shape, TablesShape
  <2>5. Keyed'
    <3>1. \A i, j \in DOMAIN refs' :
            <<refs'[i].referrer, refs'[i].referee>> = <<refs'[j].referrer, refs'[j].referee>> => i = j
      BY <1>3, <2>2 DEF IInv, Keyed, Pair
    <3>2. QED
      BY <1>1, <3>1 DEF IInv, Keyed, Pair
  <2>6. Grown
    BY <1>1, <2>2 DEF Grown
  <2>7. Short'
    BY <1>3, <2>2, ReferralAssumption DEF IInv, Short
  <2>8. SignedByReferee'
    BY <1>1, <1>3, <2>2 DEF IInv, SignedByReferee
  <2>9. QED
    BY <2>4, <2>5, <2>6, <2>7, <2>8
<1>4. QED
  BY <1>2, <1>3, AddedRow

LEMMA UpdateReferralTables ==
  ASSUME IInv, NEW m \in DOMAIN messages, UpdateReferral(m)
  PROVE  TablesShape' /\ Keyed' /\ Grown /\ Short' /\ SignedByReferee'
<1> DEFINE p == Referral(m).progress + Contribution(m)
           b == p >= Required
           place == Place(m)
           row == [refs[place] EXCEPT !.progress = p, !.active = b]
<1>1. codes' = codes /\ epoch' = epoch /\ signed' = signed
  BY DEF UpdateReferral
<1>2. /\ m \in Handled /\ DOMAIN messages[m].todo # {}
      /\ refs' = [refs EXCEPT ![place] = row]
  BY UpdatedRow
<1>3. place \in DOMAIN refs /\ refs[place] \in ReferralRow
  BY <1>2, RowRead
<1>4. p \in 0..Required
  BY <1>2, Contributed
<1>b. b \in BOOLEAN /\ (~b => p < Required)
  BY <1>4, ReferralAssumption
<1> HIDE DEF p, b, place
<1>5. /\ row \in ReferralRow /\ row.referrer = refs[place].referrer /\ row.referee = refs[place].referee
      /\ row.epoch = refs[place].epoch /\ row.progress = p /\ row.active = b
  BY <1>3, <1>4, <1>b DEF ReferralRow
<1> HIDE DEF row
<1>6. refs \in Seq(ReferralRow)
  BY DEF IInv, Shape, TablesShape
<1>7. /\ DOMAIN refs' = DOMAIN refs /\ refs'[place] = row /\ refs' \in Seq(ReferralRow)
      /\ \A i \in DOMAIN refs : i # place => refs'[i] = refs[i]
  BY <1>2, <1>3, <1>5, <1>6
<1>8. \A i \in DOMAIN refs :
        /\ refs'[i].referrer = refs[i].referrer /\ refs'[i].referee = refs[i].referee
        /\ refs'[i].epoch = refs[i].epoch
  BY <1>5, <1>7
<1>9. TablesShape'
  BY <1>1, <1>7 DEF IInv, Shape, TablesShape
<1>10. Keyed'
  BY <1>1, <1>7, <1>8 DEF IInv, Keyed, Pair
<1>11. Grown
  BY <1>1, <1>7, <1>8 DEF Grown
<1>12. Short'
  <2>1. ~row.active => row.progress < Required
    BY <1>5, <1>b
  <2>2. QED
    BY <1>7, <2>1 DEF IInv, Short
<1>13. SignedByReferee'
  BY <1>1, <1>7, <1>8 DEF IInv, SignedByReferee
<1>14. QED
  BY <1>9, <1>10, <1>11, <1>12, <1>13

LEMMA TablesStep ==
  ASSUME IInv, Next
  PROVE  TablesShape' /\ Keyed' /\ Grown /\ Short' /\ SignedByReferee'
BY TableSteps, SignedGrows, TablesKept, InsertCodeTables, AddReferralTables, NewEpochTables, UpdateReferralTables

-----------------------------------------------------------------------------
(* What is under way, and what was signed and shared.                      *)

\* A posted acceptance stays one of a signature and of the code of its tab.
LEMMA PostedStays ==
  ASSUME IInv, \A u \in Tab : Carried(u), signed \subseteq signed',
         \A y \in accepts' : \E x \in accepts :
           /\ y.tab = x.tab /\ y.at = x.at /\ y.address = x.address /\ y.signer = x.signer /\ y.code = x.code
           /\ y.mounted => x.mounted
  PROVE  Posted'
<1> SUFFICES ASSUME NEW y \in accepts'
             PROVE  /\ OfItsTab(y, tabs'[y.tab].clicked)
                    /\ y.at = "post" => [by |-> y.signer, code |-> y.code, address |-> y.address] \in signed'
  BY DEF Posted
<1>1. PICK x \in accepts :
        /\ y.tab = x.tab /\ y.at = x.at /\ y.address = x.address /\ y.signer = x.signer /\ y.code = x.code
        /\ y.mounted => x.mounted
  OBVIOUS
<1>2. x.tab \in Tab
  BY DEF IInv, Shape, TabsShape, Acceptance
<1>3. OfItsTab(x, tabs[x.tab].clicked)
  BY DEF IInv, Posted
<1>4. y.mounted => tabs'[x.tab].clicked \in {tabs[x.tab].clicked, NoCode}
  BY <1>1, <1>2 DEF Carried
<1>5. x.at = "post" => [by |-> x.signer, code |-> x.code, address |-> x.address] \in signed
  BY DEF IInv, Posted
<1>6. OfItsTab(y, tabs'[y.tab].clicked)
  BY <1>1, <1>3, <1>4 DEF OfItsTab
<1>7. QED
  BY <1>1, <1>5, <1>6

Underway == calls \in SUBSET Call /\ accepts \in SUBSET Acceptance /\ signed \in SUBSET Signature /\ IsFiniteSet(signed)

LEMMA LoadUnderway ==
  ASSUME IInv, Next, NEW t \in Tab, NEW code, Load(t, code), signed' = signed
  PROVE  Underway' /\ Posted'
<1>1. /\ calls' = {[c EXCEPT !.live = @ /\ c.tab # t] : c \in calls}
      /\ accepts' = {[x EXCEPT !.mounted = @ /\ x.tab # t] : x \in {y \in accepts : y.tab # t \/ y.at # "sign"}}
      /\ signed' = signed
  BY DEF Load
<1>2. calls \in SUBSET Call /\ accepts \in SUBSET Acceptance /\ signed \in SUBSET Signature /\ IsFiniteSet(signed)
  BY DEF IInv, Shape, TabsShape, SignedShape
<1>3. \A c \in Call, b \in BOOLEAN : [c EXCEPT !.live = b] \in Call
  BY DEF Call
<1>4. \A c \in calls : [c EXCEPT !.live = @ /\ c.tab # t] \in Call
  <2>1. \A c \in calls : (c.live /\ c.tab # t) \in BOOLEAN
    OBVIOUS
  <2>2. QED
    BY <1>2, <1>3, <2>1
<1>5. \A x \in Acceptance, b \in BOOLEAN :
        /\ [x EXCEPT !.mounted = b] \in Acceptance /\ [x EXCEPT !.mounted = b].tab = x.tab
        /\ [x EXCEPT !.mounted = b].at = x.at /\ [x EXCEPT !.mounted = b].address = x.address
        /\ [x EXCEPT !.mounted = b].signer = x.signer /\ [x EXCEPT !.mounted = b].code = x.code
        /\ [x EXCEPT !.mounted = b].mounted = b
  BY DEF Acceptance
<1>6. \A y \in accepts' : \E x \in accepts, b \in BOOLEAN : y = [x EXCEPT !.mounted = b] /\ (b => x.mounted)
  BY <1>1
<1>7. calls' \in SUBSET Call
  BY <1>1, <1>4
<1>8. accepts' \in SUBSET Acceptance
  BY <1>2, <1>5, <1>6
<1>9. \A y \in accepts' : \E x \in accepts :
        /\ y.tab = x.tab /\ y.at = x.at /\ y.address = x.address /\ y.signer = x.signer /\ y.code = x.code
        /\ y.mounted => x.mounted
  <2>1. TAKE y \in accepts'
  <2>2. PICK x \in accepts, b \in BOOLEAN : y = [x EXCEPT !.mounted = b] /\ (b => x.mounted)
    BY <1>6
  <2>3. WITNESS x \in accepts
  <2>4. QED
    BY <1>2, <1>5, <2>2
<1>10. Posted'
  BY <1>1, <1>9, PostedStays, TabsStep
<1>11. QED
  BY <1>1, <1>2, <1>7, <1>8, <1>10 DEF Underway

LEMMA CloseModalUnderway ==
  ASSUME IInv, Next, NEW t \in Tab, CloseModal(t)
  PROVE  Underway' /\ Posted'
<1>1. calls' = calls /\ signed' = signed /\ accepts' = {[x EXCEPT !.mounted = @ /\ x.tab # t] : x \in accepts}
  BY DEF CloseModal
<1>2. calls \in SUBSET Call /\ accepts \in SUBSET Acceptance /\ signed \in SUBSET Signature /\ IsFiniteSet(signed)
  BY DEF IInv, Shape, TabsShape, SignedShape
<1>3. \A x \in Acceptance, b \in BOOLEAN :
        /\ [x EXCEPT !.mounted = b] \in Acceptance /\ [x EXCEPT !.mounted = b].tab = x.tab
        /\ [x EXCEPT !.mounted = b].at = x.at /\ [x EXCEPT !.mounted = b].address = x.address
        /\ [x EXCEPT !.mounted = b].signer = x.signer /\ [x EXCEPT !.mounted = b].code = x.code
        /\ [x EXCEPT !.mounted = b].mounted = b
  BY DEF Acceptance
<1>4. \A y \in accepts' : \E x \in accepts, b \in BOOLEAN : y = [x EXCEPT !.mounted = b] /\ (b => x.mounted)
  BY <1>1
<1>5. accepts' \in SUBSET Acceptance
  BY <1>2, <1>3, <1>4
<1>6. \A y \in accepts' : \E x \in accepts :
        /\ y.tab = x.tab /\ y.at = x.at /\ y.address = x.address /\ y.signer = x.signer /\ y.code = x.code
        /\ y.mounted => x.mounted
  <2>1. TAKE y \in accepts'
  <2>2. PICK x \in accepts, b \in BOOLEAN : y = [x EXCEPT !.mounted = b] /\ (b => x.mounted)
    BY <1>4
  <2>3. WITNESS x \in accepts
  <2>4. QED
    BY <1>2, <1>3, <2>2
<1>7. Posted'
  BY <1>1, <1>6, PostedStays, TabsStep
<1>8. QED
  BY <1>1, <1>2, <1>5, <1>7 DEF Underway

LEMMA AcceptUnderway ==
  ASSUME IInv, NEW t \in Tab, Accept(t)
  PROVE  Underway' /\ Posted'
<1> DEFINE x == [id |-> accepted, tab |-> t, at |-> "sign", address |-> tabs[t].acct, signer |-> Nobody,
                 code |-> tabs[t].clicked, mounted |-> TRUE]
<1>1. /\ calls' = calls /\ signed' = signed /\ tabs' = tabs /\ accepts' = accepts \cup {x}
      /\ tabs[t].acct # Nobody
  BY DEF Accept
<1>2. /\ calls \in SUBSET Call /\ accepts \in SUBSET Acceptance /\ signed \in SUBSET Signature /\ IsFiniteSet(signed)
      /\ tabs[t] \in PageOf /\ accepted \in Nat /\ accepted < MaxAccepts
  BY DEF IInv, Shape, TabsShape, SignedShape, Accept, CountsShape
<1>3. accepted \in Nat
  BY ReferralAssumption, <1>2
<1>4. x \in Acceptance
  BY <1>1, <1>2, <1>3 DEF Acceptance, PageOf, Account
<1>5. x.at = "sign" /\ OfItsTab(x, tabs[x.tab].clicked)
  BY DEF OfItsTab
<1> HIDE DEF x
<1>6. Posted'
  BY <1>1, <1>5 DEF Posted, IInv
<1>7. QED
  BY <1>1, <1>2, <1>4, <1>6 DEF Underway

LEMMA SignBufferUnderway ==
  ASSUME IInv, NEW x \in accepts, SignBuffer(x)
  PROVE  Underway' /\ Posted'
<1> DEFINE by == tabs[x.tab].acct
           s == [by |-> by, code |-> x.code, address |-> x.address]
           y == [x EXCEPT !.at = "post", !.signer = by]
<1>1. /\ calls' = calls /\ tabs' = tabs /\ accepts' = (accepts \ {x}) \cup {y} /\ signed' = signed \cup {s}
      /\ by # Nobody
  BY DEF SignBuffer
<1>2. /\ calls \in SUBSET Call /\ accepts \in SUBSET Acceptance /\ signed \in SUBSET Signature /\ IsFiniteSet(signed)
      /\ x \in Acceptance /\ tabs[x.tab] \in PageOf
  BY DEF IInv, Shape, TabsShape, SignedShape, Acceptance
<1>3. by \in Account /\ by \in Address
  BY <1>1, <1>2 DEF PageOf, Account
<1> HIDE DEF by
<1>4. /\ y \in Acceptance /\ y.tab = x.tab /\ y.code = x.code /\ y.signer = by /\ y.address = x.address
      /\ y.mounted = x.mounted /\ s \in Signature
  BY <1>2, <1>3 DEF Acceptance, Signature
<1>5. [by |-> y.signer, code |-> y.code, address |-> y.address] = s
  BY <1>4
<1>7. OfItsTab(y, tabs[y.tab].clicked)
  BY <1>4 DEF IInv, Posted, OfItsTab
<1> HIDE DEF y, s
<1>6. IsFiniteSet(signed \cup {s})
  BY <1>2, FS_AddElement
<1>8. Posted'
  BY <1>1, <1>4, <1>5, <1>7 DEF Posted, IInv
<1>9. QED
  BY <1>1, <1>2, <1>4, <1>6, <1>8 DEF Underway

LEMMA FewerUnderway ==
  ASSUME IInv, Next, accepts' \subseteq accepts, calls' \in SUBSET Call, signed' = signed
  PROVE  Underway' /\ Posted'
<1>1. Posted'
  BY PostedStays, TabsStep
<1>2. QED
  BY <1>1 DEF Underway, IInv, Shape, TabsShape, SignedShape

LEMMA AskUnderway ==
  ASSUME IInv, Next, NEW t \in Tab, Ask(t)
  PROVE  Underway' /\ Posted'
<1> DEFINE a == tabs[t].acct
<1>1. a \in Address /\ calls \in SUBSET Call /\ epoch \in 1..MaxEpochs
  BY DEF Ask, IInv, Shape, TabsShape, TablesShape, PageOf, Account
<1>2. accepts' = accepts /\ signed' = signed
  BY DEF Ask
<1>3. calls' \in SUBSET Call
  <2>1. CASE UNCHANGED calls
    BY <1>1, <2>1
  <2>2. ASSUME NEW g \in Generated(a),
               calls' = calls \cup {[live |-> TRUE, tab |-> t, row |-> [code |-> g, address |-> a, epoch |-> epoch]]}
        PROVE  calls' \in SUBSET Call
    <3>1. g \in Code
      BY <2>2 DEF Generated
    <3>2. [live |-> TRUE, tab |-> t, row |-> [code |-> g, address |-> a, epoch |-> epoch]] \in Call
      BY <1>1, <3>1 DEF Call, CodeRow
    <3>3. QED
      BY <1>1, <2>2, <3>2
  <2>3. QED
    BY <2>1, <2>2 DEF Ask
<1>4. QED
  BY <1>2, <1>3, FewerUnderway

LEMMA UnderwayStep ==
  ASSUME IInv, Next
  PROVE  Underway' /\ Posted'
<1>0. calls \in SUBSET Call
  BY DEF IInv, Shape, TabsShape
<1>1. ASSUME NEW t \in Tab, CloseModal(t) \/ Accept(t) \/ Ask(t)  PROVE Underway' /\ Posted'
  BY <1>1, CloseModalUnderway, AcceptUnderway, AskUnderway
<1>1b. ASSUME NEW t \in Tab, Reload(t)  PROVE Underway' /\ Posted'
  BY <1>1b, LoadUnderway DEF Reload
<1>2. ASSUME NEW x \in accepts, SignBuffer(x)  PROVE Underway' /\ Posted'
  BY <1>2, SignBufferUnderway
<1>3. ASSUME accepts' \subseteq accepts, calls' \subseteq calls, signed' = signed  PROVE Underway' /\ Posted'
  BY <1>0, <1>3, FewerUnderway
<1>4. ASSUME NEW t \in Tab, NEW a \in Address, Switch(t, a)  PROVE UNCHANGED <<accepts, calls, signed>>
  BY <1>4 DEF Switch
<1>5. ASSUME NEW t \in Tab, NEW link \in shared, Visit(t, link)  PROVE Underway' /\ Posted'
  BY <1>5, LoadUnderway DEF Visit
<1>6. ASSUME NEW t \in Tab, Leave(t) \/ Focus(t) \/ Copy(t) \/ Offer(t)  PROVE UNCHANGED <<accepts, calls, signed>>
  BY <1>6 DEF Leave, Focus, Copy, Offer
<1>7. ASSUME NEW c \in calls, InsertCode(c) \/ CodeFault(c)
      PROVE  accepts' = accepts /\ signed' = signed /\ calls' \subseteq calls
  BY <1>7 DEF InsertCode, CodeFault, Answer
<1>8. ASSUME NEW x \in accepts, Decline(x) \/ AddReferral(x) \/ AcceptFails(x)
      PROVE  accepts' \subseteq accepts /\ signed' = signed /\ calls' = calls
  BY <1>8 DEF Decline, AddReferral, AcceptFails
<1>9. ASSUME NEW a \in Address, NEW n \in Won, Win(a, n)  PROVE UNCHANGED <<accepts, calls, signed>>
  BY <1>9 DEF Win
<1>10. NewEpoch \/ ActivatorMoves => UNCHANGED <<accepts, calls, signed>>
  BY DEF NewEpoch, ActivatorMoves, Handle, Activate, UpdateReferral, Acked, Crash
<1>11. QED
  BY <1>1, <1>1b, <1>2, <1>3, <1>4, <1>5, <1>6, <1>7, <1>8, <1>9, <1>10 DEF Next, User, ActivatorMoves

SharedShape == shared \in SUBSET [code : Code, by : Address]

\* A link that is copied is the one of the account that copies it.
LEMMA CopyShared ==
  ASSUME IInv, NEW t \in Tab, Copy(t)
  PROVE  SharedShape' /\ LinkIsOwn'
<1> DEFINE a == tabs[t].acct
           link == [code |-> Link(t), by |-> a]
<1>1. codes' = codes /\ shared' = shared \cup ({link} \ {[code |-> NoCode, by |-> a]}) /\ Link(t) # NoData
  BY DEF Copy, tables
<1>2. tabs[t] \in PageOf /\ codes \in SUBSET CodeRow /\ shared \in SUBSET [code : Code, by : Address]
  BY DEF IInv, Shape, TabsShape, TablesShape, SignedShape
<1>3. a # Nobody /\ Link(t) = tabs[t].link[a]
  BY <1>1 DEF Link, DataOf
<1>4. a \in Address
  BY <1>2, <1>3 DEF PageOf, Account
<1>5. CASE Link(t) = NoCode
  <2>1. shared' = shared
    BY <1>1, <1>5
  <2>2. QED
    BY <1>1, <1>2, <2>1 DEF IInv, LinkIsOwn, SharedShape
<1>6. CASE Link(t) # NoCode
  <2>1. PICK r \in codes : r.code = Link(t) /\ r.address = a
    BY <1>1, <1>3, <1>4, <1>6 DEF IInv, Cached
  <2>2. Link(t) \in Code
    BY <1>2, <2>1 DEF CodeRow
  <2>3. link \in [code : Code, by : Address] /\ link.code = Link(t) /\ link.by = a
    BY <1>4, <2>2
  <2>4. shared' \subseteq shared \cup {link}
    BY <1>1
  <2> HIDE DEF link, a
  <2>5. QED
    BY <1>1, <1>2, <2>1, <2>3, <2>4 DEF IInv, LinkIsOwn, SharedShape
<1>7. QED
  BY <1>5, <1>6

LEMMA SharedStep ==
  ASSUME IInv, Next
  PROVE  SharedShape' /\ LinkIsOwn'
<1>1. ASSUME NEW t \in Tab, Copy(t)  PROVE SharedShape' /\ LinkIsOwn'
  BY <1>1, CopyShared
<1>2. ASSUME shared' = shared  PROVE SharedShape' /\ LinkIsOwn'
  <2>1. codes \subseteq codes'
    BY TablesStep DEF Grown
  <2>2. QED
    BY <1>2, <2>1 DEF IInv, Shape, SignedShape, LinkIsOwn, SharedShape
<1>3. ASSUME NEW t \in Tab, NEW a \in Address, Switch(t, a)  PROVE shared' = shared
  BY <1>3 DEF Switch
<1>4. ASSUME NEW t \in Tab, NEW link \in shared, Visit(t, link)  PROVE shared' = shared
  BY <1>4 DEF Visit
<1>5. ASSUME NEW t \in Tab, Reload(t) \/ Leave(t) \/ Focus(t) \/ CloseModal(t) \/ Accept(t) \/ Ask(t) \/ Offer(t)
      PROVE  shared' = shared
  BY <1>5 DEF Reload, Leave, Focus, CloseModal, Accept, Ask, Offer
<1>6. ASSUME NEW c \in calls, InsertCode(c) \/ CodeFault(c)  PROVE shared' = shared
  BY <1>6 DEF InsertCode, CodeFault
<1>7. ASSUME NEW x \in accepts, SignBuffer(x) \/ Decline(x) \/ AddReferral(x) \/ AcceptFails(x)  PROVE shared' = shared
  BY <1>7 DEF SignBuffer, Decline, AddReferral, AcceptFails
<1>8. ASSUME NEW a \in Address, NEW n \in Won, Win(a, n)  PROVE shared' = shared
  BY <1>8 DEF Win
<1>9. NewEpoch \/ ActivatorMoves => shared' = shared
  BY DEF NewEpoch, ActivatorMoves, Handle, Activate, UpdateReferral, Acked, Crash
<1>10. QED
  BY <1>1, <1>2, <1>3, <1>4, <1>5, <1>6, <1>7, <1>8, <1>9 DEF Next, User, ActivatorMoves

\* What the tabs show stays true.
LEMMA ShownStep ==
  ASSUME IInv, Next
  PROVE  Cached' /\ AcceptedMeansReferred'
<1>1. \A t \in Tab : Carried(t)
  BY TabsStep
<1>2. Grown
  BY TablesStep
<1>3. ASSUME NEW t \in Tab, NEW a \in Address
      PROVE  \/ tabs'[t].link[a] \in {NoData, NoCode}
             \/ \E r \in codes' : r.code = tabs'[t].link[a] /\ r.address = a
  <2>1. \/ tabs[t].link[a] \in {NoData, NoCode}
        \/ \E r \in codes : r.code = tabs[t].link[a] /\ r.address = a
    BY DEF IInv, Cached
  <2>2. \/ tabs'[t].link[a] \in {tabs[t].link[a], NoCode}
        \/ \E r \in codes' : r.code = tabs'[t].link[a] /\ r.address = a
    BY <1>1 DEF Carried
  <2>3. codes \subseteq codes'
    BY <1>2 DEF Grown
  <2>4. QED
    BY <2>1, <2>2, <2>3
<1>4. ASSUME NEW t \in Tab, tabs'[t].done # Nobody
      PROVE  \E i \in DOMAIN refs' : refs'[i].referee = tabs'[t].done
               /\ \E r \in codes' : tabs'[t].clicked \in {r.code, NoCode} /\ r.address = refs'[i].referrer
  <2>1. codes \subseteq codes' /\ codes \in SUBSET CodeRow
    BY <1>2 DEF Grown, IInv, Shape, TablesShape
  <2>2. CASE tabs'[t].done = tabs[t].done
    <3>1. PICK i \in DOMAIN refs, r \in codes :
            refs[i].referee = tabs[t].done /\ tabs[t].clicked \in {r.code, NoCode} /\ r.address = refs[i].referrer
      BY <1>4, <2>2 DEF IInv, AcceptedMeansReferred
    <3>3. tabs'[t].clicked \in {r.code, NoCode}
      BY <1>1, <1>4, <3>1 DEF Carried
    <3>4. i \in DOMAIN refs' /\ refs'[i].referrer = refs[i].referrer /\ refs'[i].referee = refs[i].referee
      BY <1>2 DEF Grown
    <3>5. QED
      BY <2>1, <2>2, <3>1, <3>3, <3>4
  <2>3. CASE tabs'[t].done # tabs[t].done
    BY <1>1, <1>4, <2>1, <2>3 DEF Carried
  <2>4. QED
    BY <2>2, <2>3
<1>5. QED
  BY <1>3, <1>4 DEF Cached, AcceptedMeansReferred

-----------------------------------------------------------------------------
(* The activator.                                                          *)

LEMMA PaymentsFinite ==
  ASSUME paid \in Seq(Address \X Address), NEW k
  PROVE  IsFiniteSet(PaymentsOf(k)) /\ Cardinality(PaymentsOf(k)) \in Nat
<1>1. DOMAIN paid = 1..Len(paid) /\ Len(paid) \in Nat
  OBVIOUS
<1>2. IsFiniteSet(DOMAIN paid)
  BY <1>1, FS_Interval
<1>3. IsFiniteSet(PaymentsOf(k))
  BY <1>2, FS_Subset DEF PaymentsOf
<1>4. QED
  BY <1>3, FS_CardinalityType

LEMMA BiddersFinite ==
  ASSUME messages \in Seq(Message), NEW k
  PROVE  IsFiniteSet(Bidders(k)) /\ Cardinality(Bidders(k)) \in Nat
<1>1. DOMAIN messages = 1..Len(messages) /\ Len(messages) \in Nat
  OBVIOUS
<1>2. IsFiniteSet(DOMAIN messages)
  BY <1>1, FS_Interval
<1>3. IsFiniteSet(Bidders(k))
  BY <1>2, FS_Subset DEF Bidders
<1>4. QED
  BY <1>3, FS_CardinalityType

\* The account of a referral, with what of it there is before and after a step.
Balance(k) == Cardinality(PaymentsOf(k)) + Cardinality(Bidders(k)) <= disturbed[k[2]] + (IF Earned(k) THEN 1 ELSE 0)

LEMMA Numbers ==
  ASSUME IInv, NEW k \in Address \X Address
  PROVE  /\ Cardinality(PaymentsOf(k)) \in Nat /\ Cardinality(Bidders(k)) \in Nat
         /\ disturbed[k[2]] \in Nat /\ Balance(k) /\ Earned(k) \in BOOLEAN
         /\ Active(k) \/ Granted(k) => PaymentsOf(k) # {}
<1>1. messages \in Seq(Message) /\ paid \in Seq(Address \X Address) /\ disturbed \in [Address -> Nat]
  BY DEF IInv, Shape, PaidShape
<1>2. disturbed[k[2]] \in Nat
  BY <1>1
<1>3. Balance(k) /\ (Active(k) \/ Granted(k) => PaymentsOf(k) # {})
  BY DEF IInv, Paid, Balance
<1>4. QED
  BY <1>1, <1>2, <1>3, PaymentsFinite, BiddersFinite DEF Earned

\* If one message is in another state, the others bid, have granted and forgo what they did.
LEMMA OneMoves ==
  ASSUME messages \in Seq(Message), NEW m \in DOMAIN messages, NEW y \in Message, NEW k,
         messages' = [messages EXCEPT ![m] = y]
  PROVE  /\ messages' \in Seq(Message) /\ DOMAIN messages' = DOMAIN messages /\ messages'[m] = y
         /\ \A n \in DOMAIN messages : n # m => messages'[n] = messages[n]
         /\ Bidders(k)' = (Bidders(k) \ {m}) \cup (IF Bids(y, k) THEN {m} ELSE {})
         /\ Granted(k)' <=> Grants(y, k) \/ \E n \in DOMAIN messages : n # m /\ Grants(messages[n], k)
         /\ Forgone(k)' <=> Forgoes(y, k) \/ \E n \in DOMAIN messages : n # m /\ Forgoes(messages[n], k)
<1>1. /\ messages' \in Seq(Message) /\ DOMAIN messages' = DOMAIN messages /\ messages'[m] = y
      /\ \A n \in DOMAIN messages : n # m => messages'[n] = messages[n]
  OBVIOUS
<1>2. Bidders(k)' = {n \in DOMAIN messages' : Bids(messages'[n], k)}
  BY DEF Bidders, Bids, Key, Reached, Earliest
<1>3. Bidders(k)' = (Bidders(k) \ {m}) \cup (IF Bids(y, k) THEN {m} ELSE {})
  BY <1>1, <1>2 DEF Bidders
<1>4. Granted(k)' <=> \E n \in DOMAIN messages' : Grants(messages'[n], k)
  BY DEF Granted, Grants, Key, Reached, Earliest, Completes, Least
<1>5. Forgone(k)' <=> \E n \in DOMAIN messages' : Forgoes(messages'[n], k)
  BY DEF Forgone, Forgoes, Key, Reached, Earliest, Completes, Least
<1>6. QED
  BY <1>1, <1>3, <1>4, <1>5

\* How many bidders there are then.
LEMMA BiddersCount ==
  ASSUME messages \in Seq(Message), NEW m \in DOMAIN messages, NEW k, NEW b \in BOOLEAN,
         Bidders(k)' = (Bidders(k) \ {m}) \cup (IF b THEN {m} ELSE {})
  PROVE  Cardinality(Bidders(k)') = Cardinality(Bidders(k))
           + (IF b THEN 1 ELSE 0) - (IF Bids(messages[m], k) THEN 1 ELSE 0)
<1>1. IsFiniteSet(Bidders(k)) /\ Cardinality(Bidders(k)) \in Nat
  BY BiddersFinite
<1>2. m \in Bidders(k) <=> Bids(messages[m], k)
  BY DEF Bidders
<1> DEFINE B == Bidders(k)
<1> HIDE DEF B
<1>3. IsFiniteSet(B \ {m}) /\ Cardinality(B \ {m}) = IF m \in B THEN Cardinality(B) - 1 ELSE Cardinality(B)
  BY <1>1, FS_RemoveElement DEF B
<1>4. Cardinality(B \ {m}) \in Nat /\ Cardinality(B) \in Nat
  BY <1>1, <1>3, FS_CardinalityType DEF B
<1>5. CASE b
  <2>1. Bidders(k)' = (B \ {m}) \cup {m}
    BY <1>5 DEF B
  <2>2. Cardinality((B \ {m}) \cup {m}) = Cardinality(B \ {m}) + 1
    BY <1>3, FS_AddElement
  <2>3. QED
    BY <1>2, <1>3, <1>4, <1>5, <2>1, <2>2 DEF B
<1>6. CASE ~b
  <2>1. Bidders(k)' = B \ {m}
    BY <1>6 DEF B
  <2>2. QED
    BY <1>2, <1>3, <1>4, <1>6, <2>1 DEF B
<1>7. QED
  BY <1>5, <1>6

\* No message that is not handled has anything to do with a referral.
LEMMA Unhandled ==
  ASSUME NEW x, x.at \notin {"look", "update"}, NEW k
  PROVE  ~Bids(x, k) /\ ~Grants(x, k) /\ ~Forgoes(x, k)
BY DEF Bids, Grants, Forgoes

\* One that looks for the next row has neither granted nor forgone one.
LEMMA Looking ==
  ASSUME NEW x, x.at = "look", NEW k
  PROVE  /\ ~Grants(x, k) /\ ~Forgoes(x, k)
         /\ Bids(x, k) <=> \E i \in DOMAIN x.todo : Key(x, i) = k
BY DEF Bids, Grants, Forgoes

\* Only the messages of the referee have to do with their referrals.
LEMMA OfReferee ==
  ASSUME IInv, NEW m \in DOMAIN messages, NEW k,
         Bids(messages[m], k) \/ Grants(messages[m], k) \/ Forgoes(messages[m], k)
  PROVE  m \in HandledOf(k[2])
<1>1. m \in Handled
  BY DEF Handled, Bids, Grants, Forgoes
<1>2. ASSUME NEW i \in DOMAIN messages[m].todo, Key(messages[m], i) = k
      PROVE  m \in HandledOf(k[2])
  BY <1>1, <1>2 DEF IInv, AsRead, HandledOf, Key
<1>3. CASE Bids(messages[m], k)
  BY <1>2, <1>3 DEF Bids
<1>4. CASE Grants(messages[m], k) \/ Forgoes(messages[m], k)
  <2>1. messages[m].at = "update" /\ Key(messages[m], Reached(messages[m])) = k
    BY <1>4 DEF Grants, Forgoes
  <2>2. DOMAIN messages[m].todo # {}
    BY <1>1, <2>1 DEF IInv, AsRead
  <2>3. Reached(messages[m]) \in DOMAIN messages[m].todo
    BY <1>1, <2>2, RowRead DEF Reached, Place
  <2>4. QED
    BY <1>2, <2>1, <2>3
<1>5. QED
  BY <1>3, <1>4

\* If the tables, the rewards and the accounts stay and no handler has anything to do with what it had
\* not, the accounts are balanced.
LEMMA StillBalanced ==
  ASSUME IInv, NEW k \in Address \X Address,
         PaymentsOf(k)' = PaymentsOf(k), Active(k)' <=> Active(k), disturbed'[k[2]] = disturbed[k[2]],
         Bidders(k)' = Bidders(k), Granted(k)' <=> Granted(k), Forgone(k)' <=> Forgone(k)
  PROVE  Balance(k)' /\ (Active(k)' \/ Granted(k)' => PaymentsOf(k)' # {})
<1>1. Earned(k)' <=> Earned(k)
  BY DEF Earned
<1>2. QED
  BY <1>1, Numbers DEF Balance

Balanced == \A k \in Address \X Address : Balance(k)' /\ (Active(k)' \/ Granted(k)' => PaymentsOf(k)' # {})

LEMMA BalancedPaid == Balanced => Paid'
BY DEF Balanced, Balance, Paid

Activated == AsRead' /\ Paid' /\ PaidShape'

LEMMA ActivatorRests ==
  ASSUME IInv, UNCHANGED <<refs, activator>>
  PROVE  Activated
<1>1. messages' = messages /\ paid' = paid /\ disturbed' = disturbed /\ refs' = refs
  BY DEF activator
<1>2. AsRead' /\ PaidShape'
  BY <1>1 DEF IInv, AsRead, Shape, PaidShape, Handled
<1>3. ASSUME NEW k \in Address \X Address
      PROVE  Balance(k)' /\ (Active(k)' \/ Granted(k)' => PaymentsOf(k)' # {})
  <2>1. PaymentsOf(k)' = PaymentsOf(k) /\ (Active(k)' <=> Active(k)) /\ disturbed'[k[2]] = disturbed[k[2]]
    BY <1>1 DEF PaymentsOf, Active, Pair
  <2>2. Bidders(k)' = Bidders(k)
    BY <1>1 DEF Bidders, Bids, Key, Reached, Earliest
  <2>3. (Granted(k)' <=> Granted(k)) /\ (Forgone(k)' <=> Forgone(k))
    BY <1>1 DEF Granted, Forgone, Grants, Forgoes, Completes, Key, Reached, Earliest, Least
  <2>4. QED
    BY <2>1, <2>2, <2>3, StillBalanced
<1>4. Paid'
  BY <1>3, BalancedPaid DEF Balanced
<1>5. QED
  BY <1>2, <1>4 DEF Activated

LEMMA AddReferralActivator ==
  ASSUME IInv, NEW x \in accepts, AddReferral(x)
  PROVE  Activated
<1>1. messages' = messages /\ paid' = paid /\ disturbed' = disturbed
  BY DEF AddReferral, activator
<1>2. CASE refs' = refs
  BY <1>1, <1>2, ActivatorRests DEF activator
<1>3. ASSUME NEW row \in ReferralRow, refs' = Append(refs, row), ~row.active
      PROVE  Activated
  <2>1. refs \in Seq(ReferralRow)
    BY DEF IInv, Shape, TablesShape
  <2>2. /\ DOMAIN refs' = DOMAIN refs \cup {Len(refs) + 1} /\ refs'[Len(refs) + 1] = row
        /\ \A i \in DOMAIN refs : refs'[i] = refs[i]
    BY <1>3, <2>1
  <2>3. AsRead' /\ PaidShape'
    BY <1>1, <2>2 DEF IInv, AsRead, Shape, PaidShape, Handled
  <2>4. ASSUME NEW k \in Address \X Address
        PROVE  Balance(k)' /\ (Active(k)' \/ Granted(k)' => PaymentsOf(k)' # {})
    <3>1. Active(k)' <=> Active(k)
      BY <1>3, <2>2 DEF Active, Pair
    <3>2. PaymentsOf(k)' = PaymentsOf(k) /\ disturbed'[k[2]] = disturbed[k[2]]
      BY <1>1 DEF PaymentsOf
    <3>3. Bidders(k)' = Bidders(k)
      BY <1>1 DEF Bidders, Bids, Key, Reached, Earliest
    <3>4. (Granted(k)' <=> Granted(k)) /\ (Forgone(k)' <=> Forgone(k))
      BY <1>1 DEF Granted, Forgone, Grants, Forgoes, Completes, Key, Reached, Earliest, Least
    <3>5. QED
      BY <3>1, <3>2, <3>3, <3>4, StillBalanced
  <2>5. Paid'
    BY <2>4, BalancedPaid DEF Balanced
  <2>6. QED
    BY <2>3, <2>5 DEF Activated
<1>4. QED
  BY <1>2, <1>3, AddedRow

LEMMA NoRowsRead == NoRows \in Reading /\ DOMAIN NoRows = {}
<1>1. DOMAIN NoRows = {} /\ NoRows \in [{} -> ReferralRow]
  BY DEF NoRows
<1>2. {} \in SUBSET Nat
  OBVIOUS
<1>3. QED
  BY <1>1, <1>2 DEF Reading

LEMMA WinActivator ==
  ASSUME IInv, NEW a \in Address, NEW n \in Won, Win(a, n)
  PROVE  Activated
<1> DEFINE new == Len(messages) + 1
           x == [at |-> "queued", who |-> a, epoch |-> epoch, won |-> n, left |-> n, todo |-> NoRows]
<1>1. messages' = Append(messages, x) /\ paid' = paid /\ disturbed' = disturbed /\ refs' = refs
  BY DEF Win, tables
<1>2. messages \in Seq(Message) /\ epoch \in 1..MaxEpochs /\ n \in Nat
  BY ReferralAssumption DEF IInv, Shape, TablesShape, PaidShape
<1>3. x \in Message /\ x.at = "queued"
  BY <1>2, NoRowsRead DEF Message
<1> HIDE DEF x
<1>4. /\ messages' \in Seq(Message) /\ DOMAIN messages' = DOMAIN messages \cup {new} /\ messages'[new] = x
      /\ new \notin DOMAIN messages /\ \A m \in DOMAIN messages : messages'[m] = messages[m]
  BY <1>1, <1>2, <1>3
<1> HIDE DEF new
<1>5. Handled' = Handled
  BY <1>3, <1>4 DEF Handled
<1>6. AsRead'
  <2>1. \A m \in Handled : m \in DOMAIN messages
    BY DEF Handled
  <2>2. QED
    BY <1>1, <1>4, <1>5, <2>1 DEF IInv, AsRead
<1>7. PaidShape'
  BY <1>1, <1>4 DEF IInv, Shape, PaidShape
<1>8. ASSUME NEW k \in Address \X Address
      PROVE  Balance(k)' /\ (Active(k)' \/ Granted(k)' => PaymentsOf(k)' # {})
  <2>1. ~Bids(x, k) /\ ~Grants(x, k) /\ ~Forgoes(x, k)
    BY <1>3, Unhandled
  <2>2. Bidders(k)' = {m \in DOMAIN messages' : Bids(messages'[m], k)}
    BY DEF Bidders, Bids, Key, Reached, Earliest
  <2>3. Bidders(k)' = Bidders(k)
    BY <1>4, <2>1, <2>2 DEF Bidders
  <2>4. Granted(k)' <=> \E m \in DOMAIN messages' : Grants(messages'[m], k)
    BY DEF Granted, Grants, Key, Reached, Earliest, Completes, Least
  <2>5. Forgone(k)' <=> \E m \in DOMAIN messages' : Forgoes(messages'[m], k)
    BY DEF Forgone, Forgoes, Key, Reached, Earliest, Completes, Least
  <2>6. (Granted(k)' <=> Granted(k)) /\ (Forgone(k)' <=> Forgone(k))
    BY <1>4, <2>1, <2>4, <2>5 DEF Granted, Forgone
  <2>7. PaymentsOf(k)' = PaymentsOf(k) /\ (Active(k)' <=> Active(k)) /\ disturbed'[k[2]] = disturbed[k[2]]
    BY <1>1 DEF PaymentsOf, Active, Pair
  <2>8. QED
    BY <2>3, <2>6, <2>7, StillBalanced
<1>9. Paid'
  BY <1>8, BalancedPaid DEF Balanced
<1>10. QED
  BY <1>6, <1>7, <1>9 DEF Activated

\* The rows are read where they are in the table, and those that are read are of one referee and epoch.
LEMMA RowsRead ==
  ASSUME refs \in Seq(ReferralRow), NEW a, NEW e, NEW n
  PROVE  LET todo == EarliestUnclaimed(a, e, n) IN
         /\ todo \in Reading
         /\ \A i \in DOMAIN todo :
              /\ i \in DOMAIN refs /\ todo[i] = refs[i] /\ ~refs[i].active
              /\ refs[i].referee = a /\ refs[i].epoch = e
<1> DEFINE all == Unclaimed(a, e)
           P == {j \in all : Cardinality({k \in all : k < j}) < n \div Required + 2}
<1>1. EarliestUnclaimed(a, e, n) = [i \in P |-> refs[i]]
  BY DEF EarliestUnclaimed
<1>2. \A i \in all : i \in DOMAIN refs /\ ~refs[i].active /\ refs[i].referee = a /\ refs[i].epoch = e
  BY DEF Unclaimed, Referred
<1>3. P \subseteq all
  OBVIOUS
<1> HIDE DEF P, all
<1>4. P \in SUBSET Nat /\ \A i \in P : refs[i] \in ReferralRow
  BY <1>2, <1>3
<1>5. [i \in P |-> refs[i]] \in Reading
  BY <1>4 DEF Reading
<1>6. QED
  BY <1>1, <1>2, <1>3, <1>5

\* Who takes a message bids for the referrals that it reads: nobody else did, and nothing of an earlier
\* attempt is left, or it is counted as a disturbance.
LEMMA HandleActivator ==
  ASSUME IInv, NEW m \in DOMAIN messages, Handle(m)
  PROVE  Activated
<1> DEFINE x == messages[m]
           rows == EarliestUnclaimed(x.who, x.epoch, x.won)
           y == [x EXCEPT !.at = "look", !.todo = rows]
           quiet == HandledOf(x.who) = {}
<1>1. /\ x.at = "queued" /\ messages' = [messages EXCEPT ![m] = y]
      /\ disturbed' = IF quiet THEN disturbed ELSE [disturbed EXCEPT ![x.who] = @ + 1]
      /\ refs' = refs /\ paid' = paid
  BY DEF Handle, tables
<1>2. /\ messages \in Seq(Message) /\ refs \in Seq(ReferralRow) /\ x \in Message
      /\ disturbed \in [Address -> Nat] /\ paid \in Seq(Address \X Address)
  BY DEF IInv, Shape, PaidShape, TablesShape
<1>3. /\ rows \in Reading
      /\ \A i \in DOMAIN rows :
           /\ i \in DOMAIN refs /\ rows[i] = refs[i] /\ ~refs[i].active
           /\ refs[i].referee = x.who /\ refs[i].epoch = x.epoch
  BY <1>2, RowsRead
<1>4. x.who \in Address
  BY <1>2 DEF Message
<1> HIDE DEF rows, quiet
<1>5. y \in Message /\ y.at = "look" /\ y.who = x.who /\ y.epoch = x.epoch /\ y.todo = rows
  BY <1>2, <1>3 DEF Message
<1> HIDE DEF y
<1>6. /\ messages' \in Seq(Message) /\ DOMAIN messages' = DOMAIN messages /\ messages'[m] = y
      /\ \A n \in DOMAIN messages : n # m => messages'[n] = messages[n]
  BY <1>1, <1>2, <1>5
<1>7. AsRead'
  <2>1. \A n \in Handled' : n \in DOMAIN messages /\ (n = m \/ n \in Handled)
    BY <1>6 DEF Handled
  <2>2. \A i \in DOMAIN rows : rows[i].progress < Required
    BY <1>3 DEF IInv, Short
  <2>3. QED
    BY <1>1, <1>3, <1>5, <1>6, <2>1, <2>2 DEF IInv, AsRead
<1>8. disturbed' \in [Address -> Nat]
  BY <1>1, <1>2, <1>4
<1>9. PaidShape'
  BY <1>1, <1>2, <1>6, <1>8 DEF PaidShape
<1>10. ASSUME NEW k \in Address \X Address
       PROVE  Balance(k)' /\ (Active(k)' \/ Granted(k)' => PaymentsOf(k)' # {})
  <2>1. ~Bids(x, k) /\ ~Grants(x, k) /\ ~Forgoes(x, k)
    BY <1>1, Unhandled
  <2>2. /\ ~Grants(y, k) /\ ~Forgoes(y, k)
        /\ Bids(y, k) <=> \E i \in DOMAIN rows : Key(y, i) = k
    BY <1>5, Looking
  <2>3. /\ Bidders(k)' = (Bidders(k) \ {m}) \cup (IF Bids(y, k) THEN {m} ELSE {})
        /\ Granted(k)' <=> Grants(y, k) \/ \E n \in DOMAIN messages : n # m /\ Grants(messages[n], k)
        /\ Forgone(k)' <=> Forgoes(y, k) \/ \E n \in DOMAIN messages : n # m /\ Forgoes(messages[n], k)
    BY <1>1, <1>2, <1>5, OneMoves
  <2>4. (Granted(k)' <=> Granted(k)) /\ (Forgone(k)' <=> Forgone(k))
    BY <2>1, <2>2, <2>3 DEF Granted, Forgone
  <2>5. PaymentsOf(k)' = PaymentsOf(k) /\ (Active(k)' <=> Active(k))
    BY <1>1 DEF PaymentsOf, Active, Pair
  <2>6. /\ Cardinality(PaymentsOf(k)) \in Nat /\ Cardinality(Bidders(k)) \in Nat /\ disturbed[k[2]] \in Nat
        /\ Balance(k) /\ (Active(k) \/ Granted(k) => PaymentsOf(k) # {})
    BY Numbers
  <2>7. Bids(y, k) \in BOOLEAN
    BY DEF Bids
  <2>8. Cardinality(Bidders(k)') = Cardinality(Bidders(k)) + (IF Bids(y, k) THEN 1 ELSE 0)
    <3>1. Cardinality(Bidders(k)') = Cardinality(Bidders(k))
            + (IF Bids(y, k) THEN 1 ELSE 0) - (IF Bids(x, k) THEN 1 ELSE 0)
      BY <1>2, <2>3, <2>7, BiddersCount
    <3>2. QED
      BY <2>1, <2>6, <3>1
  <2>9. CASE ~Bids(y, k)
    <3>1. Bidders(k)' = Bidders(k)
      BY <2>1, <2>3, <2>9 DEF Bidders
    <3>2. disturbed'[k[2]] \in Nat /\ disturbed[k[2]] <= disturbed'[k[2]]
      BY <1>1, <1>2, <1>4
    <3>3. Earned(k)' <=> Earned(k)
      BY <2>4, <2>5, <3>1 DEF Earned
    <3>4. QED
      BY <2>4, <2>5, <2>6, <3>1, <3>2, <3>3 DEF Balance
  <2>10. CASE Bids(y, k)
    <3>1. PICK i \in DOMAIN rows : Key(y, i) = k
      BY <2>2, <2>10
    <3>2. /\ i \in DOMAIN refs /\ ~refs[i].active /\ Pair(i) = k /\ k[2] = x.who
      BY <1>3, <1>5, <3>1 DEF Key, Pair
    <3>3. ~Active(k)
      BY <3>2 DEF IInv, Keyed, Active
    <3>4. Bidders(k)' # {}
      BY <2>3, <2>10
    <3>5. Earned(k) => Earned(k)'
      BY <2>4, <2>5, <3>4 DEF Earned
    <3>6. CASE quiet
      <4>1. \A n \in DOMAIN messages : ~Bids(messages[n], k) /\ ~Grants(messages[n], k) /\ ~Forgoes(messages[n], k)
        BY <3>2, <3>6, OfReferee DEF quiet
      <4>2. Bidders(k) = {} /\ ~Granted(k) /\ ~Forgone(k)
        BY <4>1 DEF Bidders, Granted, Forgone
      <4>3. ~Earned(k) /\ Earned(k)'
        BY <2>4, <3>3, <3>4, <4>2 DEF Earned
      <4>4. disturbed' = disturbed
        BY <1>1, <3>6
      <4>5. QED
        BY <2>4, <2>5, <2>6, <2>8, <2>10, <4>3, <4>4 DEF Balance
    <3>7. CASE ~quiet
      <4>1. disturbed'[k[2]] = disturbed[k[2]] + 1
        BY <1>1, <1>2, <1>4, <3>2, <3>7
      <4>2. QED
        BY <2>4, <2>5, <2>6, <2>8, <2>10, <3>5, <4>1 DEF Balance
    <3>8. QED
      BY <3>6, <3>7
  <2>11. QED
    BY <2>9, <2>10
<1>11. Paid'
  BY <1>10, BalancedPaid DEF Balanced
<1>12. QED
  BY <1>7, <1>9, <1>11 DEF Activated

\* The row that the handler of a message is at, as it read it.
LEMMA AtRow ==
  ASSUME IInv, NEW m \in Handled, DOMAIN messages[m].todo # {}
  PROVE  /\ Reached(messages[m]) = Place(m) /\ Place(m) \in DOMAIN messages[m].todo
         /\ Key(messages[m], Place(m)) = <<Referral(m).referrer, messages[m].who>>
         /\ Key(messages[m], Place(m)) = Pair(Place(m)) /\ Place(m) \in DOMAIN refs
         /\ Completes(messages[m]) <=> Referral(m).progress + Contribution(m) >= Required
         /\ \A i \in DOMAIN messages[m].todo : Key(messages[m], i) = Key(messages[m], Place(m)) => i = Place(m)
<1>1. Reached(messages[m]) = Place(m) /\ Referral(m) = messages[m].todo[Place(m)]
  BY DEF Reached, Place, Referral
<1>2. /\ Place(m) \in DOMAIN messages[m].todo /\ Place(m) \in DOMAIN refs
      /\ Referral(m).referrer = refs[Place(m)].referrer /\ Referral(m).referee = refs[Place(m)].referee
      /\ Referral(m).referee = messages[m].who
  BY RowRead
<1>3. /\ Key(messages[m], Place(m)) = <<Referral(m).referrer, messages[m].who>>
      /\ Key(messages[m], Place(m)) = Pair(Place(m))
  BY <1>1, <1>2 DEF Key, Pair
<1>4. Completes(messages[m]) <=> Referral(m).progress + Contribution(m) >= Required
  BY <1>1 DEF Completes, Contribution
<1>5. \A i \in DOMAIN messages[m].todo : i \in DOMAIN refs /\ Key(messages[m], i) = Pair(i)
  BY DEF IInv, AsRead, Key, Pair
<1>6. \A i \in DOMAIN messages[m].todo : Key(messages[m], i) = Key(messages[m], Place(m)) => i = Place(m)
  BY <1>2, <1>3, <1>5 DEF IInv, Keyed
<1>7. QED
  BY <1>1, <1>2, <1>3, <1>4, <1>6

\* What is appended to the rewards is one more of its pair, and none of another.
LEMMA OnePaid ==
  ASSUME paid \in Seq(Address \X Address), NEW p \in Address \X Address, paid' = Append(paid, p)
  PROVE  /\ paid' \in Seq(Address \X Address)
         /\ Cardinality(PaymentsOf(p)') = Cardinality(PaymentsOf(p)) + 1 /\ PaymentsOf(p)' # {}
         /\ \A k : k # p => PaymentsOf(k)' = PaymentsOf(k)
<1> DEFINE new == Len(paid) + 1
<1>1. /\ paid' \in Seq(Address \X Address) /\ DOMAIN paid' = DOMAIN paid \cup {new} /\ paid'[new] = p
      /\ new \notin DOMAIN paid /\ \A j \in DOMAIN paid : paid'[j] = paid[j]
  OBVIOUS
<1> HIDE DEF new
<1>2. \A k : k # p => PaymentsOf(k)' = PaymentsOf(k)
  BY <1>1 DEF PaymentsOf
<1>3. PaymentsOf(p)' = PaymentsOf(p) \cup {new} /\ new \notin PaymentsOf(p)
  BY <1>1 DEF PaymentsOf
<1>4. IsFiniteSet(PaymentsOf(p))
  BY PaymentsFinite
<1>5. Cardinality(PaymentsOf(p) \cup {new}) = Cardinality(PaymentsOf(p)) + 1
  BY <1>3, <1>4, FS_AddElement
<1>6. QED
  BY <1>1, <1>2, <1>3, <1>5

\* What was read, and the place of each row, stay while the handler of one message goes on.
LEMMA StillRead ==
  ASSUME IInv, NEW m \in Handled, NEW y, Grown, DOMAIN messages' = DOMAIN messages, messages'[m] = y,
         \A n \in DOMAIN messages : n # m => messages'[n] = messages[n],
         y.who = messages[m].who, y.epoch = messages[m].epoch,
         DOMAIN y.todo \subseteq DOMAIN messages[m].todo, \A i \in DOMAIN y.todo : y.todo[i] = messages[m].todo[i],
         y.at = "update" => DOMAIN y.todo # {}
  PROVE  AsRead'
<1>1. m \in DOMAIN messages /\ \A n \in Handled' : n \in DOMAIN messages /\ (n = m \/ n \in Handled)
  BY DEF Handled
<1>2. ASSUME NEW n \in Handled', NEW i \in DOMAIN messages'[n].todo
      PROVE  LET row == messages'[n].todo[i] IN
             /\ i \in DOMAIN refs' /\ ~row.active /\ row.progress < Required
             /\ row.referrer = refs'[i].referrer /\ row.referee = refs'[i].referee /\ row.epoch = refs'[i].epoch
             /\ row.referee = messages'[n].who /\ row.epoch = messages'[n].epoch
  <2>1. /\ n \in Handled /\ i \in DOMAIN messages[n].todo /\ messages'[n].todo[i] = messages[n].todo[i]
        /\ messages'[n].who = messages[n].who /\ messages'[n].epoch = messages[n].epoch
    BY <1>1, <1>2
  <2>2. LET row == messages[n].todo[i] IN
        /\ i \in DOMAIN refs /\ ~row.active /\ row.progress < Required
        /\ row.referrer = refs[i].referrer /\ row.referee = refs[i].referee /\ row.epoch = refs[i].epoch
        /\ row.referee = messages[n].who /\ row.epoch = messages[n].epoch
    BY <2>1 DEF IInv, AsRead
  <2>3. /\ i \in DOMAIN refs' /\ refs'[i].referrer = refs[i].referrer
        /\ refs'[i].referee = refs[i].referee /\ refs'[i].epoch = refs[i].epoch
    BY <2>2 DEF Grown
  <2>4. QED
    BY <2>1, <2>2, <2>3
<1>3. ASSUME NEW n \in Handled', messages'[n].at = "update" PROVE DOMAIN messages'[n].todo # {}
  <2>1. CASE n = m
    BY <1>3, <2>1
  <2>2. CASE n # m
    <3>1. n \in Handled /\ messages'[n] = messages[n]
      BY <1>1, <2>2
    <3>2. QED
      BY <1>3, <3>1 DEF IInv, AsRead
  <2>3. QED
    BY <2>1, <2>2
<1>4. QED
  BY <1>2, <1>3 DEF AsRead

\* Who publishes a reward no longer bids for it, and has granted it; who adds to a row too little
\* no longer bids for it either.
LEMMA ActivateActivator ==
  ASSUME IInv, NEW m \in DOMAIN messages, Activate(m)
  PROVE  Activated
<1> DEFINE x == messages[m]
           y == [x EXCEPT !.at = "update"]
           key == Key(x, Place(m))
<1>1. /\ x.at = "look" /\ Rest(m) # {} /\ messages' = [messages EXCEPT ![m] = y]
      /\ paid' = IF Referral(m).progress + Contribution(m) >= Required
                 THEN Append(paid, <<Referral(m).referrer, x.who>>) ELSE paid
      /\ disturbed' = disturbed /\ refs' = refs /\ codes' = codes /\ signed' = signed
  BY DEF Activate, tables
<1>2. m \in Handled /\ DOMAIN x.todo # {}
  BY <1>1 DEF Handled, Rest
<1>3. /\ messages \in Seq(Message) /\ x \in Message
      /\ disturbed \in [Address -> Nat] /\ paid \in Seq(Address \X Address)
  BY DEF IInv, Shape, PaidShape
<1>4. y \in Message /\ y.at = "update" /\ y.who = x.who /\ y.epoch = x.epoch /\ y.todo = x.todo /\ y.left = x.left
  BY <1>3 DEF Message
<1>5. /\ Reached(x) = Place(m) /\ Place(m) \in DOMAIN x.todo /\ key = <<Referral(m).referrer, x.who>>
      /\ Completes(x) <=> Referral(m).progress + Contribution(m) >= Required
      /\ \A i \in DOMAIN x.todo : Key(x, i) = key => i = Place(m)
  BY <1>2, AtRow
<1>6. key \in Address \X Address
  <2>1. Referral(m).referrer \in Address /\ x.who \in Address
    BY <1>2, <1>3, RowRead DEF ReferralRow, Message
  <2>2. QED
    BY <1>5, <2>1
<1>7. paid' = IF Completes(x) THEN Append(paid, key) ELSE paid
  BY <1>1, <1>5
<1>8. Reached(y) = Reached(x) /\ (Completes(y) <=> Completes(x)) /\ \A i : Key(y, i) = Key(x, i)
  BY <1>4 DEF Reached, Completes, Key
<1> HIDE DEF y, key
<1>9. ASSUME NEW k
      PROVE  /\ Bids(y, k) <=> Bids(x, k) /\ k # key
             /\ Grants(y, k) <=> Completes(x) /\ k = key
             /\ Forgoes(y, k) <=> ~Completes(x) /\ k = key
             /\ k = key => Bids(x, k)
  BY <1>1, <1>4, <1>5, <1>8 DEF Bids, Grants, Forgoes, key
<1>10. \A k : ~Grants(x, k) /\ ~Forgoes(x, k)
  BY <1>1, Looking
<1>11. /\ messages' \in Seq(Message) /\ DOMAIN messages' = DOMAIN messages /\ messages'[m] = y
       /\ \A n \in DOMAIN messages : n # m => messages'[n] = messages[n]
  BY <1>1, <1>3, <1>4
<1>12. AsRead'
  <2>1. Grown
    BY <1>1 DEF Grown
  <2>2. QED
    BY <1>2, <1>4, <1>11, <2>1, StillRead
<1>13. PaidShape'
  <2>1. paid' \in Seq(Address \X Address)
    BY <1>3, <1>6, <1>7, OnePaid
  <2>2. QED
    BY <1>1, <1>3, <1>11, <2>1 DEF PaidShape
<1>14. ASSUME NEW k \in Address \X Address
       PROVE  Balance(k)' /\ (Active(k)' \/ Granted(k)' => PaymentsOf(k)' # {})
  <2>1. /\ Bidders(k)' = (Bidders(k) \ {m}) \cup (IF Bids(y, k) THEN {m} ELSE {})
        /\ Granted(k)' <=> Grants(y, k) \/ \E n \in DOMAIN messages : n # m /\ Grants(messages[n], k)
        /\ Forgone(k)' <=> Forgoes(y, k) \/ \E n \in DOMAIN messages : n # m /\ Forgoes(messages[n], k)
    BY <1>1, <1>3, <1>4, OneMoves
  <2>2. /\ Granted(k)' <=> Granted(k) \/ (Completes(x) /\ k = key)
        /\ Forgone(k)' <=> Forgone(k) \/ (~Completes(x) /\ k = key)
    BY <1>9, <1>10, <2>1 DEF Granted, Forgone
  <2>3. (Active(k)' <=> Active(k)) /\ disturbed'[k[2]] = disturbed[k[2]]
    BY <1>1 DEF Active, Pair
  <2>4. m \in Bidders(k) <=> Bids(x, k)
    BY DEF Bidders
  <2>5. CASE k # key
    <3>1. PaymentsOf(k)' = PaymentsOf(k)
      <4>1. CASE Completes(x)
        BY <1>3, <1>6, <1>7, <2>5, <4>1, OnePaid
      <4>2. CASE ~Completes(x)
        BY <1>7, <4>2 DEF PaymentsOf
      <4>3. QED
        BY <4>1, <4>2
    <3>2. Bidders(k)' = Bidders(k)
      BY <1>9, <2>1, <2>4, <2>5
    <3>3. QED
      BY <2>2, <2>3, <2>5, <3>1, <3>2, StillBalanced
  <2>6. CASE k = key
    <3>1. Bids(x, k) /\ ~Bids(y, k)
      BY <1>9, <2>6
    <3>2. Bidders(k)' = Bidders(k) \ {m} /\ Bidders(k) # {}
      BY <2>1, <2>4, <3>1
    <3>3. Cardinality(Bidders(k)') = Cardinality(Bidders(k)) - 1
      <4>1. Cardinality(Bidders(k)') = Cardinality(Bidders(k)) + (IF FALSE THEN 1 ELSE 0) - (IF Bids(x, k) THEN 1 ELSE 0)
        BY <1>3, <3>2, BiddersCount
      <4>2. QED
        BY <3>1, <4>1, Numbers
    <3>4. /\ Cardinality(PaymentsOf(k)) \in Nat /\ Cardinality(Bidders(k)) \in Nat /\ disturbed[k[2]] \in Nat
          /\ Balance(k) /\ (Active(k) \/ Granted(k) => PaymentsOf(k) # {})
      BY Numbers
    <3>5. CASE Completes(x)
      <4>1. Cardinality(PaymentsOf(k)') = Cardinality(PaymentsOf(k)) + 1 /\ PaymentsOf(k)' # {}
        BY <1>3, <1>6, <1>7, <2>6, <3>5, OnePaid
      <4>2. Earned(k) <=> Earned(k)'
        BY <2>2, <2>3, <2>6, <3>2, <3>5 DEF Earned
      <4>3. QED
        BY <2>3, <3>3, <3>4, <4>1, <4>2 DEF Balance
    <3>6. CASE ~Completes(x)
      <4>1. PaymentsOf(k)' = PaymentsOf(k)
        BY <1>7, <3>6 DEF PaymentsOf
      <4>2. ~Earned(k)'
        BY <2>2, <2>6, <3>6 DEF Earned
      <4>3. Granted(k)' => Granted(k)
        BY <2>2, <3>6
      <4>4. QED
        BY <2>3, <3>3, <3>4, <4>1, <4>2, <4>3 DEF Balance
    <3>7. QED
      BY <3>5, <3>6
  <2>7. QED
    BY <2>5, <2>6
<1>15. Paid'
  BY <1>14, BalancedPaid DEF Balanced
<1>16. QED
  BY <1>12, <1>13, <1>15 DEF Activated

\* The row is marked by who granted its reward, and unmarked by who read it before that.
LEMMA UpdateReferralActivator ==
  ASSUME IInv, NEW m \in DOMAIN messages, UpdateReferral(m), Grown
  PROVE  Activated
<1> DEFINE x == messages[m]
           rest == Others(m)
           y == [x EXCEPT !.at = "look", !.left = @ - Contribution(m), !.todo = Others(m)]
           key == Key(x, Place(m))
           p == Referral(m).progress + Contribution(m)
<1>0. /\ messages' = [messages EXCEPT ![m].at = "look", ![m].left = @ - Contribution(m), ![m].todo = Others(m)]
      /\ paid' = paid /\ disturbed' = disturbed
  BY Zenon DEF UpdateReferral
<1>1. messages' = [messages EXCEPT ![m] = y] /\ paid' = paid /\ disturbed' = disturbed
  <2>1. messages \in Seq(Message) /\ messages[m] \in Message
    BY DEF IInv, Shape, PaidShape
  <2>2. QED
    BY <1>0, <2>1 DEF Message
<1>2. /\ m \in Handled /\ x.at = "update" /\ DOMAIN x.todo # {}
      /\ refs' = [refs EXCEPT ![Place(m)] = [@ EXCEPT !.progress = p, !.active = p >= Required]]
  BY UpdatedRow
<1>3. /\ messages \in Seq(Message) /\ x \in Message /\ refs \in Seq(ReferralRow)
      /\ disturbed \in [Address -> Nat] /\ paid \in Seq(Address \X Address)
  BY DEF IInv, Shape, PaidShape, TablesShape
<1>4. /\ Reached(x) = Place(m) /\ Place(m) \in DOMAIN x.todo /\ key = Pair(Place(m)) /\ Place(m) \in DOMAIN refs
      /\ Completes(x) <=> p >= Required
  BY <1>2, AtRow
<1>5. rest = [i \in DOMAIN x.todo \ {Place(m)} |-> x.todo[i]] /\ rest \in Reading
  <2>1. rest = [i \in DOMAIN x.todo \ {Place(m)} |-> x.todo[i]]
    BY DEF Others, Restrict
  <2>2. x.todo \in Reading
    BY <1>3 DEF Message
  <2>3. DOMAIN x.todo \in SUBSET Nat /\ \A i \in DOMAIN x.todo : x.todo[i] \in ReferralRow
    BY <2>2, ReadingIs
  <2> HIDE DEF rest
  <2>4. rest \in [DOMAIN x.todo \ {Place(m)} -> ReferralRow]
    BY <2>1, <2>3
  <2>5. DOMAIN x.todo \ {Place(m)} \in SUBSET Nat
    BY <2>3
  <2>6. QED
    BY <2>1, <2>4, <2>5 DEF Reading
<1>6. x.left - Contribution(m) \in Nat
  <2>1. Contribution(m) \in Nat /\ Contribution(m) <= x.left
    BY <1>2, Contributed
  <2>2. x.left \in Nat
    BY <1>3 DEF Message
  <2>3. QED
    BY <2>1, <2>2
<1> HIDE DEF rest
<1>7. y \in Message /\ y.at = "look" /\ y.who = x.who /\ y.epoch = x.epoch /\ y.todo = rest
  BY <1>3, <1>5, <1>6 DEF Message, rest
<1> HIDE DEF y, key, p
<1>8. ASSUME NEW k
      PROVE  /\ Bids(y, k) <=> Bids(x, k)
             /\ ~Grants(y, k) /\ ~Forgoes(y, k)
             /\ Grants(x, k) <=> Completes(x) /\ k = key
             /\ Forgoes(x, k) <=> ~Completes(x) /\ k = key
  <2>1. \A i \in DOMAIN rest : Key(y, i) = Key(x, i)
    BY <1>5, <1>7 DEF Key
  <2>2. QED
    BY <1>2, <1>4, <1>5, <1>7, <2>1 DEF Bids, Grants, Forgoes, key
<1>9. /\ messages' \in Seq(Message) /\ DOMAIN messages' = DOMAIN messages /\ messages'[m] = y
      /\ \A n \in DOMAIN messages : n # m => messages'[n] = messages[n]
  BY <1>1, <1>3, <1>7
<1>10. AsRead'
  BY <1>2, <1>5, <1>7, <1>9, StillRead
<1>11. PaidShape'
  BY <1>1, <1>3, <1>9 DEF PaidShape
<1>12. /\ DOMAIN refs' = DOMAIN refs /\ \A i \in DOMAIN refs : i # Place(m) => refs'[i] = refs[i]
       /\ refs'[Place(m)].active <=> Completes(x)
  <2>1. refs'[Place(m)] = [refs[Place(m)] EXCEPT !.progress = p, !.active = p >= Required]
    BY <1>2, <1>3, <1>4
  <2>2. refs'[Place(m)].active = (p >= Required)
    BY <1>3, <1>4, <2>1 DEF ReferralRow
  <2>3. DOMAIN refs' = DOMAIN refs /\ \A i \in DOMAIN refs : i # Place(m) => refs'[i] = refs[i]
    BY <1>2, <1>3
  <2>4. QED
    BY <1>4, <2>2, <2>3 DEF p
<1>13. \A i \in DOMAIN refs : Pair(i)' = Pair(i)
  BY DEF Grown, Pair
<1>14. ASSUME NEW k \in Address \X Address
       PROVE  Balance(k)' /\ (Active(k)' \/ Granted(k)' => PaymentsOf(k)' # {})
  <2>1. /\ Bidders(k)' = (Bidders(k) \ {m}) \cup (IF Bids(y, k) THEN {m} ELSE {})
        /\ Granted(k)' <=> Grants(y, k) \/ \E n \in DOMAIN messages : n # m /\ Grants(messages[n], k)
        /\ Forgone(k)' <=> Forgoes(y, k) \/ \E n \in DOMAIN messages : n # m /\ Forgoes(messages[n], k)
    BY <1>1, <1>3, <1>7, OneMoves
  <2>2. Bidders(k)' = Bidders(k)
    <3>1. m \in Bidders(k) <=> Bids(x, k)
      BY DEF Bidders
    <3>2. QED
      BY <1>8, <2>1, <3>1
  <2>3. /\ Granted(k)' => Granted(k)
        /\ ~(Completes(x) /\ k = key) => (Granted(k)' <=> Granted(k))
        /\ ~(~Completes(x) /\ k = key) => (Forgone(k)' <=> Forgone(k))
        /\ Completes(x) /\ k = key => Granted(k)
        /\ ~Completes(x) /\ k = key => Forgone(k)
    BY <1>8, <2>1 DEF Granted, Forgone
  <2>4. PaymentsOf(k)' = PaymentsOf(k) /\ disturbed'[k[2]] = disturbed[k[2]]
    BY <1>1 DEF PaymentsOf
  <2>5. CASE k # key
    <3>1. Active(k)' <=> Active(k)
      BY <1>4, <1>12, <1>13, <2>5 DEF Active
    <3>2. QED
      BY <2>2, <2>3, <2>4, <2>5, <3>1, StillBalanced
  <2>6. CASE k = key
    <3>1. Active(k)' <=> Completes(x)
      <4>1. \A i \in DOMAIN refs : Pair(i) = k <=> i = Place(m)
        BY <1>4, <2>6 DEF IInv, Keyed
      <4>2. QED
        BY <1>4, <1>12, <1>13, <4>1 DEF Active
    <3>2. /\ Cardinality(PaymentsOf(k)) \in Nat /\ Cardinality(Bidders(k)) \in Nat /\ disturbed[k[2]] \in Nat
          /\ Balance(k) /\ (Active(k) \/ Granted(k) => PaymentsOf(k) # {})
      BY Numbers
    <3>3. CASE Completes(x)
      <4>1. Earned(k) <=> Earned(k)'
        BY <2>3, <2>6, <3>1, <3>3 DEF Earned
      <4>2. QED
        BY <2>2, <2>3, <2>4, <2>6, <3>2, <3>3, <4>1 DEF Balance
    <3>4. CASE ~Completes(x)
      <4>1. ~Earned(k)
        BY <2>3, <2>6, <3>4 DEF Earned
      <4>2. Earned(k)' \in BOOLEAN
        BY DEF Earned
      <4>3. QED
        BY <2>2, <2>3, <2>4, <3>1, <3>2, <3>4, <4>1, <4>2 DEF Balance
    <3>5. QED
      BY <3>3, <3>4
  <2>7. QED
    BY <2>5, <2>6
<1>15. Paid'
  BY <1>14, BalancedPaid DEF Balanced
<1>16. QED
  BY <1>10, <1>11, <1>15 DEF Activated

\* Who is done bids for nothing any more.
LEMMA AckedActivator ==
  ASSUME IInv, NEW m \in DOMAIN messages, Acked(m)
  PROVE  Activated
<1> DEFINE x == messages[m]
           y == [x EXCEPT !.at = "acked", !.left = 0, !.todo = NoRows]
<1>1. /\ x.at = "look" /\ messages' = [messages EXCEPT ![m] = y] /\ paid' = paid /\ disturbed' = disturbed
      /\ refs' = refs /\ codes' = codes /\ signed' = signed
  BY DEF Acked, tables
<1>2. m \in Handled
  BY <1>1 DEF Handled
<1>3. /\ messages \in Seq(Message) /\ x \in Message
      /\ disturbed \in [Address -> Nat] /\ paid \in Seq(Address \X Address)
  BY DEF IInv, Shape, PaidShape
<1>4. y \in Message /\ y.at = "acked" /\ y.who = x.who /\ y.epoch = x.epoch /\ y.todo = NoRows
  BY <1>3, NoRowsRead DEF Message
<1> HIDE DEF y
<1>5. /\ messages' \in Seq(Message) /\ DOMAIN messages' = DOMAIN messages /\ messages'[m] = y
      /\ \A n \in DOMAIN messages : n # m => messages'[n] = messages[n]
  BY <1>1, <1>3, <1>4
<1>6. AsRead'
  <2>1. Grown
    BY <1>1 DEF Grown
  <2>2. QED
    BY <1>2, <1>4, <1>5, <2>1, NoRowsRead, StillRead
<1>7. PaidShape'
  BY <1>1, <1>3, <1>5 DEF PaidShape
<1>8. ASSUME NEW k \in Address \X Address
      PROVE  Balance(k)' /\ (Active(k)' \/ Granted(k)' => PaymentsOf(k)' # {})
  <2>1. /\ Bidders(k)' = (Bidders(k) \ {m}) \cup (IF Bids(y, k) THEN {m} ELSE {})
        /\ Granted(k)' <=> Grants(y, k) \/ \E n \in DOMAIN messages : n # m /\ Grants(messages[n], k)
        /\ Forgone(k)' <=> Forgoes(y, k) \/ \E n \in DOMAIN messages : n # m /\ Forgoes(messages[n], k)
    BY <1>1, <1>3, <1>4, OneMoves
  <2>2. ~Bids(y, k) /\ ~Grants(y, k) /\ ~Forgoes(y, k) /\ ~Grants(x, k) /\ ~Forgoes(x, k)
    BY <1>1, <1>4, Unhandled, Looking
  <2>3. (Granted(k)' <=> Granted(k)) /\ (Forgone(k)' <=> Forgone(k))
    BY <2>1, <2>2 DEF Granted, Forgone
  <2>4. /\ PaymentsOf(k)' = PaymentsOf(k) /\ (Active(k)' <=> Active(k)) /\ disturbed'[k[2]] = disturbed[k[2]]
    BY <1>1 DEF PaymentsOf, Active, Pair
  <2>5. Bidders(k)' = Bidders(k) \ {m} /\ (m \in Bidders(k) <=> Bids(x, k))
    BY <2>1, <2>2 DEF Bidders
  <2>6. CASE ~Bids(x, k)
    <3>1. Bidders(k)' = Bidders(k)
      BY <2>5, <2>6
    <3>2. QED
      BY <2>3, <2>4, <3>1, StillBalanced
  <2>7. CASE Bids(x, k)
    <3>1. /\ Cardinality(PaymentsOf(k)) \in Nat /\ Cardinality(Bidders(k)) \in Nat /\ disturbed[k[2]] \in Nat
          /\ Balance(k) /\ (Active(k) \/ Granted(k) => PaymentsOf(k) # {})
      BY Numbers
    <3>2. Cardinality(Bidders(k)') = Cardinality(Bidders(k)) - 1
      <4>1. Cardinality(Bidders(k)') = Cardinality(Bidders(k)) + (IF FALSE THEN 1 ELSE 0) - (IF Bids(x, k) THEN 1 ELSE 0)
        BY <1>3, <2>5, BiddersCount
      <4>2. QED
        BY <2>7, <3>1, <4>1
    <3>3. Earned(k) \in BOOLEAN /\ Earned(k)' \in BOOLEAN
      BY DEF Earned
    <3>4. QED
      BY <2>3, <2>4, <3>1, <3>2, <3>3 DEF Balance
  <2>8. QED
    BY <2>6, <2>7
<1>9. Paid'
  BY <1>8, BalancedPaid DEF Balanced
<1>10. QED
  BY <1>6, <1>7, <1>9 DEF Activated

\* A crash makes every attempt that had begun a disturbance: what it granted and forgot counts as that.
LEMMA CrashActivator ==
  ASSUME IInv, Crash
  PROVE  Activated
<1> DEFINE back(m) == [messages[m] EXCEPT !.at = "queued", !.left = messages[m].won, !.todo = NoRows]
<1>1. /\ messages' = [m \in DOMAIN messages |-> IF m \in Handled THEN back(m) ELSE messages[m]]
      /\ disturbed' = [a \in Address |-> IF HandledOf(a) = {} THEN disturbed[a] ELSE disturbed[a] + 1]
      /\ refs' = refs /\ paid' = paid
  BY DEF Crash, tables
<1>2. /\ messages \in Seq(Message) /\ disturbed \in [Address -> Nat] /\ paid \in Seq(Address \X Address)
  BY DEF IInv, Shape, PaidShape
<1>3. ASSUME NEW m \in DOMAIN messages
      PROVE  back(m) \in Message /\ back(m).at = "queued"
  <2>1. messages[m] \in Message /\ NoRows \in Reading
    BY <1>2, NoRowsRead
  <2>2. messages[m].won \in Nat
    BY <2>1 DEF Message
  <2>3. QED
    BY <2>1, <2>2 DEF Message
<1> HIDE DEF back
<1>4. \A m \in DOMAIN messages : messages'[m] \in Message /\ messages'[m].at \notin {"look", "update"}
  BY <1>1, <1>2, <1>3 DEF Handled
<1>5. messages' \in Seq(Message) /\ DOMAIN messages' = DOMAIN messages
  <2>1. DOMAIN messages = 1..Len(messages) /\ Len(messages) \in Nat
    BY <1>2
  <2>2. messages' \in [1..Len(messages) -> Message]
    BY <1>1, <1>4, <2>1
  <2>3. QED
    BY <1>1, <2>1, <2>2
<1>6. Handled' = {}
  BY <1>4, <1>5 DEF Handled
<1>7. AsRead'
  BY <1>6 DEF AsRead
<1>8. disturbed' \in [Address -> Nat]
  BY <1>1, <1>2
<1>9. PaidShape'
  BY <1>1, <1>2, <1>5, <1>8 DEF PaidShape
<1>10. ASSUME NEW k \in Address \X Address
       PROVE  Balance(k)' /\ (Active(k)' \/ Granted(k)' => PaymentsOf(k)' # {})
  <2>1. Bidders(k)' = {m \in DOMAIN messages' : Bids(messages'[m], k)}
    BY DEF Bidders, Bids, Key, Reached, Earliest
  <2>2. /\ Granted(k)' <=> \E m \in DOMAIN messages' : Grants(messages'[m], k)
        /\ Forgone(k)' <=> \E m \in DOMAIN messages' : Forgoes(messages'[m], k)
    BY DEF Granted, Grants, Forgone, Forgoes, Key, Reached, Earliest, Completes, Least
  <2>3. Bidders(k)' = {} /\ ~Granted(k)' /\ ~Forgone(k)'
    BY <1>4, <1>5, <2>1, <2>2, Unhandled
  <2>4. PaymentsOf(k)' = PaymentsOf(k) /\ (Active(k)' <=> Active(k))
    BY <1>1 DEF PaymentsOf, Active, Pair
  <2>5. /\ Cardinality(PaymentsOf(k)) \in Nat /\ Cardinality(Bidders(k)) \in Nat /\ disturbed[k[2]] \in Nat
        /\ Balance(k) /\ (Active(k) \/ Granted(k) => PaymentsOf(k) # {})
    BY Numbers
  <2>6. CASE HandledOf(k[2]) = {}
    <3>1. \A m \in DOMAIN messages : ~Bids(messages[m], k) /\ ~Grants(messages[m], k) /\ ~Forgoes(messages[m], k)
      BY <2>6, OfReferee
    <3>2. Bidders(k) = {} /\ ~Granted(k) /\ ~Forgone(k)
      BY <3>1 DEF Bidders, Granted, Forgone
    <3>3. disturbed'[k[2]] = disturbed[k[2]]
      BY <1>1, <2>6
    <3>4. QED
      BY <2>3, <2>4, <3>2, <3>3, StillBalanced
  <2>7. CASE HandledOf(k[2]) # {}
    <3>1. disturbed'[k[2]] = disturbed[k[2]] + 1
      BY <1>1, <2>7
    <3>2. Cardinality(Bidders(k)') = 0
      BY <2>3, FS_EmptySet
    <3>3. Earned(k) \in BOOLEAN /\ Earned(k)' \in BOOLEAN
      BY DEF Earned
    <3>4. QED
      BY <2>3, <2>4, <2>5, <3>1, <3>2, <3>3 DEF Balance
  <2>8. QED
    BY <2>6, <2>7
<1>11. Paid'
  BY <1>10, BalancedPaid DEF Balanced
<1>12. QED
  BY <1>7, <1>9, <1>11 DEF Activated

LEMMA ActivatorStep ==
  ASSUME IInv, Next
  PROVE  Activated
<1>1. ASSUME NEW x \in accepts, AddReferral(x)  PROVE Activated
  BY <1>1, AddReferralActivator
<1>2. ASSUME NEW a \in Address, NEW n \in Won, Win(a, n)  PROVE Activated
  BY <1>2, WinActivator
<1>3. ASSUME NEW m \in DOMAIN messages, Handle(m) \/ Activate(m) \/ Acked(m)  PROVE Activated
  BY <1>3, HandleActivator, ActivateActivator, AckedActivator
<1>4. ASSUME NEW m \in DOMAIN messages, UpdateReferral(m)  PROVE Activated
  <2>1. Grown
    BY <1>4, UpdateReferralTables
  <2>2. QED
    BY <1>4, <2>1, UpdateReferralActivator
<1>5. Crash => Activated
  BY CrashActivator
<1>6. ASSUME UNCHANGED <<refs, activator>>  PROVE Activated
  BY <1>6, ActivatorRests
<1>7. ASSUME NEW t \in Tab, NEW a \in Address, Switch(t, a)  PROVE UNCHANGED <<refs, activator>>
  BY <1>7 DEF Switch, tables
<1>8. ASSUME NEW t \in Tab, NEW link \in shared, Visit(t, link)  PROVE UNCHANGED <<refs, activator>>
  BY <1>8 DEF Visit, tables
<1>9. ASSUME NEW t \in Tab, Reload(t) \/ Leave(t) \/ Focus(t) \/ Copy(t) \/ CloseModal(t) \/ Accept(t) \/ Ask(t) \/ Offer(t)
      PROVE  UNCHANGED <<refs, activator>>
  BY <1>9 DEF Reload, Leave, Focus, Copy, CloseModal, Accept, Ask, Offer, tables
<1>10. ASSUME NEW c \in calls, InsertCode(c) \/ CodeFault(c)  PROVE UNCHANGED <<refs, activator>>
  BY <1>10 DEF InsertCode, CodeFault, tables
<1>11. ASSUME NEW x \in accepts, SignBuffer(x) \/ Decline(x) \/ AcceptFails(x)  PROVE UNCHANGED <<refs, activator>>
  BY <1>11 DEF SignBuffer, Decline, AcceptFails, tables
<1>12. NewEpoch => UNCHANGED <<refs, activator>>
  BY DEF NewEpoch
<1>13. QED
  BY <1>1, <1>2, <1>3, <1>4, <1>5, <1>6, <1>7, <1>8, <1>9, <1>10, <1>11, <1>12 DEF Next, User

LEMMA CountsStep ==
  ASSUME IInv, Next
  PROVE  CountsShape'
<1>1. switches \in Nat /\ faults \in Nat /\ accepted \in Nat
  BY DEF IInv, Shape, CountsShape
<1>2. ASSUME NEW t \in Tab, NEW a \in Address, Switch(t, a)
      PROVE  switches' = switches + 1 /\ faults' = faults /\ accepted' = accepted
  BY <1>2 DEF Switch
<1>3. ASSUME NEW t \in Tab, NEW link \in shared, Visit(t, link)  PROVE UNCHANGED counts
  BY <1>3 DEF Visit
<1>4. ASSUME NEW t \in Tab, Reload(t) \/ Leave(t) \/ Accept(t) \/ Ask(t)
      PROVE  /\ switches' \in {switches, switches + 1} /\ faults' \in {faults, faults + 1}
             /\ accepted' \in {accepted, accepted + 1}
  BY <1>4 DEF Reload, Leave, Accept, Ask
<1>5. ASSUME NEW t \in Tab, Focus(t) \/ Copy(t) \/ CloseModal(t) \/ Offer(t)  PROVE UNCHANGED counts
  BY <1>5 DEF Focus, Copy, CloseModal, Offer
<1>6. ASSUME NEW c \in calls, InsertCode(c) \/ CodeFault(c)
      PROVE  switches' = switches /\ faults' \in {faults, faults + 1} /\ accepted' = accepted
  BY <1>6 DEF InsertCode, CodeFault, counts
<1>7. ASSUME NEW x \in accepts, SignBuffer(x) \/ Decline(x) \/ AddReferral(x)  PROVE UNCHANGED counts
  BY <1>7 DEF SignBuffer, Decline, AddReferral
<1>8. ASSUME NEW x \in accepts, AcceptFails(x)
      PROVE  switches' = switches /\ faults' \in {faults, faults + 1} /\ accepted' = accepted
  BY <1>8 DEF AcceptFails
<1>9. ASSUME NEW a \in Address, NEW n \in Won, Win(a, n)  PROVE UNCHANGED counts
  BY <1>9 DEF Win
<1>9b. ActivatorMoves => UNCHANGED counts \/ Crash
  BY DEF ActivatorMoves, Handle, Activate, UpdateReferral, Acked
<1>10. Crash => switches' = switches /\ faults' = faults + 1 /\ accepted' = accepted
  BY DEF Crash
<1>11. NewEpoch => UNCHANGED counts
  BY DEF NewEpoch
<1>12. ASSUME /\ switches' \in {switches, switches + 1} /\ faults' \in {faults, faults + 1}
              /\ accepted' \in {accepted, accepted + 1}
       PROVE  CountsShape'
  BY <1>1, <1>12 DEF CountsShape
<1>13. QED
  BY <1>2, <1>3, <1>4, <1>5, <1>6, <1>7, <1>8, <1>9, <1>9b, <1>10, <1>11, <1>12 DEF Next, User, counts, ActivatorMoves

LEMMA StepIInv == IInv /\ [Next]_vars => IInv'
<1> SUFFICES ASSUME IInv, [Next]_vars  PROVE IInv'
  OBVIOUS
<1>1. CASE Next
  <2>1. TablesShape' /\ Keyed' /\ Short' /\ SignedByReferee'
    BY <1>1, TablesStep
  <2>2. tabs' \in [Tab -> PageOf] /\ Underway' /\ Posted'
    BY <1>1, TabsStep, UnderwayStep
  <2>3. SharedShape' /\ LinkIsOwn' /\ Cached' /\ AcceptedMeansReferred'
    BY <1>1, SharedStep, ShownStep
  <2>4. AsRead' /\ Paid' /\ PaidShape'
    BY <1>1, ActivatorStep DEF Activated
  <2>5. CountsShape'
    BY <1>1, CountsStep
  <2>6. TabsShape' /\ SignedShape'
    BY <2>2, <2>3 DEF TabsShape, SignedShape, Underway, SharedShape
  <2>7. QED
    BY <2>1, <2>2, <2>3, <2>4, <2>5, <2>6 DEF IInv, Shape
<1>2. CASE UNCHANGED vars
  <2>1. /\ UNCHANGED <<codes, refs, epoch, tabs, calls, accepts, signed, shared>>
        /\ UNCHANGED <<switches, faults, accepted, messages, paid, disturbed>>
    BY <1>2 DEF vars
  <2>2. Shape'
    BY <2>1 DEF IInv, Shape, TablesShape, TabsShape, SignedShape, PaidShape, CountsShape
  <2>3. Keyed' /\ Cached' /\ Posted' /\ Short'
    BY <2>1 DEF IInv, Keyed, Cached, Posted, OfItsTab, Short, Pair
  <2>4. AsRead' /\ Paid'
    BY <2>1, ActivatorRests DEF Activated, activator
  <2>5. SignedByReferee' /\ LinkIsOwn' /\ AcceptedMeansReferred'
    BY <2>1 DEF IInv, SignedByReferee, LinkIsOwn, AcceptedMeansReferred
  <2>6. QED
    BY <2>2, <2>3, <2>4, <2>5 DEF IInv
<1>3. QED
  BY <1>1, <1>2

LEMMA InitIInv == Init => IInv
<1> SUFFICES ASSUME Init  PROVE IInv
  OBVIOUS
<1>1. /\ codes = {} /\ refs = <<>> /\ epoch = 1 /\ calls = {} /\ accepts = {}
      /\ switches = 0 /\ faults = 0 /\ accepted = 0 /\ signed = {} /\ shared = {}
      /\ messages = <<>> /\ paid = <<>> /\ disturbed = [a \in Address |-> 0]
      /\ tabs \in [Tab -> {[Fresh EXCEPT !.acct = a] : a \in Address}]
  BY DEF Init
<1>2. ASSUME NEW a \in Address
      PROVE  /\ [Fresh EXCEPT !.acct = a] \in PageOf /\ [Fresh EXCEPT !.acct = a].done = Nobody
             /\ \A b \in Address : [Fresh EXCEPT !.acct = a].link[b] = NoData
  BY DEF Fresh, PageOf, Account, MaybeCode
<1>3. /\ tabs \in [Tab -> PageOf] /\ \A t \in Tab : tabs[t].done = Nobody
      /\ \A t \in Tab, b \in Address : tabs[t].link[b] = NoData
  <2>1. \A t \in Tab : \E a \in Address : tabs[t] = [Fresh EXCEPT !.acct = a]
    BY <1>1
  <2>2. \A t \in Tab : tabs[t] \in PageOf /\ tabs[t].done = Nobody /\ \A b \in Address : tabs[t].link[b] = NoData
    <3>1. TAKE t \in Tab
    <3>2. PICK a \in Address : tabs[t] = [Fresh EXCEPT !.acct = a]
      BY <2>1
    <3>3. QED
      BY <1>2, <3>2
  <2>3. QED
    BY <1>1, <2>2
<1>4. TablesShape /\ CountsShape
  BY <1>1, ReferralAssumption DEF TablesShape, CountsShape
<1>5. TabsShape /\ SignedShape /\ PaidShape
  BY <1>1, <1>3, FS_EmptySet DEF TabsShape, SignedShape, PaidShape
<1>6. Keyed /\ Cached /\ Posted /\ Short
  BY <1>1, <1>3 DEF Keyed, Cached, Posted, Short
<1>7. SignedByReferee /\ LinkIsOwn /\ AcceptedMeansReferred
  BY <1>1, <1>3 DEF SignedByReferee, LinkIsOwn, AcceptedMeansReferred
<1>8. DOMAIN messages = {} /\ DOMAIN refs = {} /\ DOMAIN paid = {}
  BY <1>1
<1>9. AsRead
  BY <1>8 DEF AsRead, Handled
<1>10. Paid
  <2>1. ASSUME NEW k \in Address \X Address
        PROVE  /\ Active(k) \/ Granted(k) => PaymentsOf(k) # {}
               /\ Cardinality(PaymentsOf(k)) + Cardinality(Bidders(k)) <= disturbed[k[2]] + (IF Earned(k) THEN 1 ELSE 0)
    <3>1. PaymentsOf(k) = {} /\ Bidders(k) = {} /\ ~Active(k) /\ ~Granted(k)
      BY <1>8 DEF PaymentsOf, Bidders, Active, Granted
    <3>2. Cardinality({}) = 0
      BY FS_EmptySet
    <3>3. disturbed[k[2]] = 0 /\ Earned(k) \in BOOLEAN
      BY <1>1 DEF Earned
    <3>4. QED
      BY <3>1, <3>2, <3>3
  <2>2. QED
    BY <2>1 DEF Paid
<1>11. QED
  BY <1>4, <1>5, <1>6, <1>7, <1>9, <1>10 DEF IInv, Shape

LEMMA SpecIInv == Spec => []IInv
<1>1. Init => IInv
  BY InitIInv
<1>2. IInv /\ [Next]_vars => IInv'
  BY StepIInv
<1>3. QED
  BY <1>1, <1>2, PTL DEF Spec

-----------------------------------------------------------------------------
(* What follows.                                                           *)

\* If every thing that is counted has one of its own among others that are finitely many, there
\* are no more of them.
LEMMA NoMore ==
  ASSUME NEW S, NEW T, IsFiniteSet(T), NEW f \in [S -> T],
         \A x, y \in S : f[x] = f[y] => x = y
  PROVE  IsFiniteSet(S) /\ Cardinality(S) <= Cardinality(T)
<1>1. f \in Injection(S, T)
  BY DEF Injection, IsInjective
<1>2. QED
  BY <1>1, FS_Injection

LEMMA TypeFollows == IInv => TypeOK
<1> SUFFICES ASSUME IInv  PROVE TypeOK
  OBVIOUS
<1>1. codes \in SUBSET CodeRow /\ refs \in Seq(ReferralRow) /\ epoch \in 1..MaxEpochs
  BY DEF IInv, Shape, TablesShape
<1>2. tabs \in [Tab -> PageOf] /\ shared \in SUBSET [code : Code, by : Address]
  BY DEF IInv, Shape, TabsShape, SignedShape
<1>3. codes \subseteq [code : Code, address : Address, epoch : 1..MaxEpochs]
  BY <1>1 DEF CodeRow
<1>4. ASSUME NEW i \in DOMAIN refs
      PROVE  {refs[i].referrer, refs[i].referee} \subseteq Address /\ refs[i].progress \in 0..Required
  <2>1. refs[i] \in ReferralRow
    BY <1>1
  <2>2. QED
    BY <2>1 DEF ReferralRow
<1>5. ASSUME NEW t \in Tab
      PROVE  {tabs[t].acct, tabs[t].done} \subseteq Address \cup {Nobody} /\ tabs[t].clicked \in Code \cup {NoCode}
  <2>1. tabs[t] \in PageOf
    BY <1>2
  <2>2. QED
    BY <2>1 DEF PageOf, Account, MaybeCode
<1>6. QED
  BY <1>1, <1>2, <1>3, <1>4, <1>5 DEF TypeOK

LEMMA RewardsFollow == IInv => RewardedOnce
<1> SUFFICES ASSUME IInv, NEW k \in Range(paid)
             PROVE  Cardinality({i \in DOMAIN paid : paid[i] = k}) <= 1 + disturbed[k[2]]
  BY DEF RewardedOnce
<1>1. paid \in Seq(Address \X Address)
  BY DEF IInv, Shape, PaidShape
<1>2. k \in Address \X Address
  BY <1>1 DEF Range
<1>3. /\ Cardinality(PaymentsOf(k)) \in Nat /\ Cardinality(Bidders(k)) \in Nat
      /\ disturbed[k[2]] \in Nat /\ Balance(k) /\ Earned(k) \in BOOLEAN
  BY <1>2, Numbers
<1>4. Cardinality(PaymentsOf(k)) <= 1 + disturbed[k[2]]
  BY <1>3 DEF Balance
<1>5. QED
  BY <1>4 DEF PaymentsOf

\* The rows of an account that are active, as the side of the pair that it is on, have rewards of their own.
LEMMA ActiveRowsPaid ==
  ASSUME IInv, NEW a, NEW side \in {1, 2}
  PROVE  LET active == {i \in DOMAIN refs : refs[i].epoch = epoch /\ Pair(i)[side] = a /\ refs[i].active}
             own == {j \in DOMAIN paid : paid[j][side] = a}
         IN  IsFiniteSet(active) /\ Cardinality(active) <= Cardinality(own)
<1> DEFINE active == {i \in DOMAIN refs : refs[i].epoch = epoch /\ Pair(i)[side] = a /\ refs[i].active}
           own == {j \in DOMAIN paid : paid[j][side] = a}
           f == [i \in active |-> CHOOSE j \in DOMAIN paid : paid[j] = Pair(i)]
<1>1. paid \in Seq(Address \X Address) /\ refs \in Seq(ReferralRow)
  BY DEF IInv, Shape, PaidShape, TablesShape
<1>2. IsFiniteSet(own)
  <2>1. IsFiniteSet(DOMAIN paid)
    BY <1>1, FS_Interval
  <2>2. QED
    BY <2>1, FS_Subset
<1>3. ASSUME NEW i \in active
      PROVE  f[i] \in DOMAIN paid /\ paid[f[i]] = Pair(i)
  <2>1. i \in DOMAIN refs /\ refs[i] \in ReferralRow /\ refs[i].active
    BY <1>1
  <2>2. Pair(i) \in Address \X Address
    BY <2>1 DEF Pair, ReferralRow
  <2>3. Active(Pair(i))
    BY <2>1 DEF Active
  <2>4. PaymentsOf(Pair(i)) # {}
    BY <2>2, <2>3 DEF IInv, Paid
  <2>5. \E j \in DOMAIN paid : paid[j] = Pair(i)
    BY <2>4 DEF PaymentsOf
  <2>6. QED
    BY <2>5
<1>4. \A i, j \in DOMAIN refs : Pair(i) = Pair(j) => i = j
  BY DEF IInv, Keyed
<1>5. \A i \in active : i \in DOMAIN refs /\ Pair(i)[side] = a
  OBVIOUS
<1>6. f \in [active -> own]
  <2>1. \A i \in active : f[i] \in own
    BY <1>3, <1>5
  <2>2. QED
    BY <2>1
<1> HIDE DEF f
<1>7. \A i, j \in active : f[i] = f[j] => i = j
  BY <1>3, <1>4, <1>5
<1> HIDE DEF active, own
<1>8. QED
  BY <1>2, <1>6, <1>7, NoMore DEF active, own

\* The rows that name a referee have signatures of their own, for no code is of two referrers.
LEMMA RowsSigned ==
  ASSUME IInv, NEW a
  PROVE  LET rows == {i \in DOMAIN refs : refs[i].epoch = epoch /\ refs[i].referee = a}
             own == {s \in signed : s.by = a}
         IN  IsFiniteSet(rows) /\ Cardinality(rows) <= Cardinality(own)
<1> DEFINE rows == {i \in DOMAIN refs : refs[i].epoch = epoch /\ refs[i].referee = a}
           own == {s \in signed : s.by = a}
           Signs(i, s) == s.by = refs[i].referee
             /\ [code |-> s.code, address |-> refs[i].referrer, epoch |-> refs[i].epoch] \in codes
           f == [i \in rows |-> CHOOSE s \in signed : Signs(i, s)]
<1>1. IsFiniteSet(own)
  <2>1. IsFiniteSet(signed)
    BY DEF IInv, Shape, SignedShape
  <2>2. QED
    BY <2>1, FS_Subset
<1>2. ASSUME NEW i \in rows  PROVE f[i] \in signed /\ Signs(i, f[i])
  <2>1. \E s \in signed : Signs(i, s)
    BY DEF IInv, SignedByReferee
  <2>2. QED
    BY <2>1
<1>3. f \in [rows -> own]
  <2>1. \A i \in rows : f[i] \in own
    BY <1>2
  <2>2. QED
    BY <2>1
<1>4. \A i, j \in rows : f[i] = f[j] => i = j
  <2> SUFFICES ASSUME NEW i \in rows, NEW j \in rows, f[i] = f[j]  PROVE i = j
    OBVIOUS
  <2> DEFINE r == [code |-> f[i].code, address |-> refs[i].referrer, epoch |-> refs[i].epoch]
             q == [code |-> f[j].code, address |-> refs[j].referrer, epoch |-> refs[j].epoch]
  <2>1. r \in codes /\ q \in codes /\ r.code = q.code
    BY <1>2
  <2>2. r = q
    BY <2>1 DEF IInv, Keyed
  <2>3. refs[i].referrer = refs[j].referrer
    BY <2>2
  <2>4. Pair(i) = Pair(j)
    BY <2>3 DEF Pair
  <2>5. QED
    BY <2>4 DEF IInv, Keyed
<1> HIDE DEF f, rows, own
<1>5. QED
  BY <1>1, <1>3, <1>4, NoMore DEF rows, own

LEMMA CountsFollow == IInv => CountsArePaid
<1> SUFFICES ASSUME IInv, NEW a \in Address
             PROVE  LET shown == ReferralDetails(a) IN
                    /\ shown.active <= Cardinality({i \in DOMAIN paid : paid[i][1] = a})
                    /\ shown.claimed <= Cardinality({i \in DOMAIN paid : paid[i][2] = a})
                    /\ shown.clicked <= Cardinality({s \in signed : s.by = a})
                    /\ shown.progress < Required
  BY DEF CountsArePaid
<1> DEFINE referring == {i \in DOMAIN refs : refs[i].epoch = epoch /\ (refs[i].referrer = a /\ refs[i].active)}
           claimed == {i \in DOMAIN refs : refs[i].epoch = epoch /\ (refs[i].referee = a /\ refs[i].active)}
           unclaimed == {i \in DOMAIN refs : refs[i].epoch = epoch /\ (refs[i].referee = a /\ ~refs[i].active)}
           rows == {i \in DOMAIN refs : refs[i].epoch = epoch /\ refs[i].referee = a}
           progress == IF InactiveOf(a) = {} THEN 0 ELSE refs[Earliest(InactiveOf(a))].progress
<1>1. /\ ClaimedByReferrer(a) = Cardinality(referring) /\ ClaimedByReferee(a) = Cardinality(claimed)
      /\ UnclaimedByReferee(a) = Cardinality(unclaimed)
  BY DEF ClaimedByReferrer, ClaimedByReferee, UnclaimedByReferee, CountOf
<1>2. Cardinality(referring) <= Cardinality({i \in DOMAIN paid : paid[i][1] = a})
  <2>1. referring = {i \in DOMAIN refs : refs[i].epoch = epoch /\ Pair(i)[1] = a /\ refs[i].active}
    BY DEF Pair
  <2>2. QED
    BY <2>1, ActiveRowsPaid
<1>3. Cardinality(claimed) <= Cardinality({i \in DOMAIN paid : paid[i][2] = a})
  <2>1. claimed = {i \in DOMAIN refs : refs[i].epoch = epoch /\ Pair(i)[2] = a /\ refs[i].active}
    BY DEF Pair
  <2>2. QED
    BY <2>1, ActiveRowsPaid
<1>4. Cardinality(claimed) + Cardinality(unclaimed) <= Cardinality({s \in signed : s.by = a})
  <2>1. IsFiniteSet(rows) /\ Cardinality(rows) <= Cardinality({s \in signed : s.by = a})
    BY RowsSigned
  <2>2. claimed \subseteq rows /\ unclaimed = rows \ claimed /\ rows \cap claimed = claimed
    OBVIOUS
  <2> HIDE DEF claimed, unclaimed, rows
  <2>3. Cardinality(unclaimed) = Cardinality(rows) - Cardinality(claimed)
    <3>1. Cardinality(rows \ claimed) = Cardinality(rows) - Cardinality(rows \cap claimed)
      BY <2>1, FS_Difference
    <3>2. QED
      BY <2>2, <3>1
  <2>4. Cardinality(rows) \in Nat /\ Cardinality(claimed) \in Nat
    <3>1. IsFiniteSet(claimed)
      BY <2>1, <2>2, FS_Subset
    <3>2. QED
      BY <2>1, <3>1, FS_CardinalityType
  <2>5. Cardinality(claimed) + Cardinality(unclaimed) = Cardinality(rows)
    BY <2>3, <2>4
  <2>6. QED
    BY <2>1, <2>5
<1>5. progress < Required
  <2>1. CASE InactiveOf(a) = {}
    BY <2>1, ReferralAssumption
  <2>2. CASE InactiveOf(a) # {}
    <3>1. refs \in Seq(ReferralRow)
      BY DEF IInv, Shape, TablesShape
    <3>2. InactiveOf(a) \in SUBSET Nat
      BY <3>1 DEF InactiveOf
    <3>3. \E i \in InactiveOf(a) : \A j \in InactiveOf(a) : i <= j
      BY <2>2, <3>2, LeastElement
    <3>4. Earliest(InactiveOf(a)) \in InactiveOf(a)
      BY <3>3 DEF Earliest
    <3>5. refs[Earliest(InactiveOf(a))].progress < Required
      BY <3>4 DEF InactiveOf, IInv, Short
    <3>6. QED
      BY <2>2, <3>5
  <2>3. QED
    BY <2>1, <2>2
<1>6. ReferralDetails(a) = [active |-> ClaimedByReferrer(a), clicked |-> ClaimedByReferee(a) + UnclaimedByReferee(a),
                            claimed |-> ClaimedByReferee(a), progress |-> progress]
  BY DEF ReferralDetails, LinksClicked
<1> HIDE DEF referring, claimed, unclaimed, progress
<1>7. QED
  BY <1>1, <1>2, <1>3, <1>4, <1>5, <1>6

-----------------------------------------------------------------------------
\* Nobody is referred who did not sign that they accept the code of the one who refers them, of that
\* epoch (addReferral.tsx:43-101, AcceptReferralModal/index.tsx:45-64).
THEOREM NeverReferredUnsigned == Spec => []SignedByReferee
<1>1. IInv => SignedByReferee
  BY DEF IInv
<1>2. QED
  BY <1>1, SpecIInv, PTL

\* The link that a user copies and shares has a code that is theirs (referralCode.tsx:100-168,
\* query/referrals.tsx:25-151, ReferralModal/index.tsx:38-102).
THEOREM LinksLeadHome == Spec => []LinkIsOwn
<1>1. IInv => LinkIsOwn
  BY DEF IInv
<1>2. QED
  BY <1>1, SpecIInv, PTL

\* A referral is rewarded once, and at most once more for each message of the referee's that is taken
\* while another of theirs is handled, and for each crash in between: whatever the number of handlers
\* and of messages, and in whatever order they read, publish and write
\* (microservice-lootbox-referral-activator/main.go:72-117, queue.go:133).
THEOREM RewardsAreSingle == Spec => []RewardedOnce
BY RewardsFollow, SpecIInv, PTL

\* What a user is told they referred, claimed and clicked is covered by rewards and signatures
\* (useReferralCount.ts:3-158, ReferralModal/index.tsx:313-393, airdrop/common.tsx:195-364).
THEOREM CountsAreCovered == Spec => []CountsArePaid
BY CountsFollow, SpecIInv, PTL

\* The whole of what the runs check of referrals: besides the above, that ACCEPTED! is shown to an
\* account only with its referral by the owner of the code (AcceptReferralModal/index.tsx:36-138).
THEOREM ReferralsAlwaysDue == Spec => []ReferralsAreDue
<1>1. IInv => ReferralsAreDue
  BY TypeFollows, RewardsFollow, CountsFollow DEF ReferralsAreDue, IInv
<1>2. QED
  BY <1>1, SpecIInv, PTL

-----------------------------------------------------------------------------
(* The dialog that locks liquidity (StakeNow).  An attempt was tested when  *)
(* it began, against balances that are those of the chain until a deposit   *)
(* is mined; and while it meets no other, what it has been approved for is  *)
(* allowed until it is over.                                                *)

Deposited == [fluid : Nat, base : Nat, symbol : Stake!Base]
Entries == SUBSET {"fluid", "base"}
FormShape == [fluid : Nat, base : Nat, symbol : Stake!Base, entered : Entries,
              known : [fluid : Nat, base : Nat], read : Nat]
Attempted == [step : {"test", "approve", "deposit", "mining", "failed"}, input : Deposited,
              wants : SUBSET Stake!Token, own : BOOLEAN, read : Nat, met : BOOLEAN]
Funds == [Stake!Token -> Nat]

Settled(run) == run.step \in {"test", "deposit", "mining"} => run.wants = {}
Backed(run, funds) ==
  run.step \in {"approve", "deposit", "mining"} =>
    \A t \in Stake!Token \ run.wants : Stake!Amounts(run.input)[t] <= funds[t]

\* It was within what there was, and is until a deposit is mined.
Meant(run, count, funds) ==
  /\ run.input.fluid >= Minimum /\ run.read <= count
  /\ count = run.read => Stake!Covered(run.input, funds)

DialogShape ==
  /\ form \in FormShape /\ ratio \in Nat
  /\ offered \in Funds /\ held \in Funds /\ allowed \in Funds
  /\ read \in Nat /\ mined \in Nat
RunsShape ==
  /\ runs \in [Stake!Slides -> Attempted \cup {Stake!Idle, Stake!Over}]
  /\ \A i \in Stake!Slides : Stake!Active(runs[i]) => Settled(runs[i])
Alone ==
  \A i, j \in Stake!Slides : Stake!Active(runs[i]) /\ Stake!Active(runs[j]) /\ i # j => runs[i].met
Backing ==
  \A i \in Stake!Slides : Stake!Active(runs[i]) /\ ~runs[i].met => Backed(runs[i], allowed)

\* What the page and the dialog know is of their time.
Known ==
  /\ form.read <= read /\ read <= mined
  /\ read = mined => \A t \in Stake!Token : offered[t] <= held[t]
  /\ form.read = mined => form.known.fluid <= held["fUSDC"] /\ form.known.base <= held[form.symbol]
Meaning == \A i \in Stake!Slides : Stake!Active(runs[i]) => Meant(runs[i], mined, held)

StakeInv == DialogShape /\ RunsShape /\ Alone /\ Backing /\ Known /\ Meaning /\ ~short

\* What StakeInv says of them is of these alone.
stakeKept == <<form, ratio, offered, held, allowed, read, mined, short, runs>>

LEMMA StakeRests == StakeInv /\ UNCHANGED stakeKept => StakeInv'
BY DEF StakeInv, stakeKept, DialogShape, RunsShape, Alone, Backing, Known, Meaning,
       Stake!Active, Settled, Backed, Meant, Stake!Covered

\* An attempt that is under way is one that was tested.
LEMMA ActiveIsAttempted ==
  ASSUME StakeInv, NEW i \in Stake!Slides
  PROVE  /\ Stake!Active(runs[i]) <=> runs[i] \in Attempted
         /\ runs[i].step \in {"test", "approve", "deposit", "mining", "failed"} => runs[i] \in Attempted
<1>1. \A run \in Attempted : run.step \notin {"idle", "over"}
  BY DEF Attempted
<1>2. Stake!Idle.step = "idle" /\ Stake!Over.step = "over"
  BY DEF Stake!Idle, Stake!Over
<1>3. runs[i] \in Attempted \/ runs[i] \in {Stake!Idle, Stake!Over}
  BY DEF StakeInv, RunsShape
<1>4. ASSUME runs[i] \in {Stake!Idle, Stake!Over}
      PROVE  ~Stake!Active(runs[i]) /\ runs[i].step \in {"idle", "over"} /\ runs[i] \notin Attempted
  BY <1>1, <1>2, <1>4 DEF Stake!Active
<1>5. ASSUME runs[i] \in Attempted PROVE Stake!Active(runs[i])
  BY <1>1, <1>2, <1>5 DEF Stake!Active
<1> QED BY <1>3, <1>4, <1>5

LEMMA AttemptChanged ==
  ASSUME NEW run \in Attempted, NEW s \in {"test", "approve", "deposit", "mining", "failed"},
         NEW w \in SUBSET Stake!Token
  PROVE  /\ [run EXCEPT !.step = s, !.wants = w] \in Attempted
         /\ [run EXCEPT !.step = s, !.wants = w].step = s
         /\ [run EXCEPT !.step = s, !.wants = w].wants = w
         /\ [run EXCEPT !.step = s, !.wants = w].input = run.input
         /\ [run EXCEPT !.step = s, !.wants = w].read = run.read
         /\ [run EXCEPT !.step = s, !.wants = w].met = run.met
BY DEF Attempted

LEMMA AmountsAreNatural ==
  ASSUME NEW input \in Deposited
  PROVE  Stake!Amounts(input) \in Funds
BY DEF Deposited, Stake!Amounts, Funds

\* One attempt moves on, and the allowances may change with it.
LEMMA OneRunMoves ==
  ASSUME StakeInv, NEW i \in Stake!Slides, Stake!Active(runs[i]),
         NEW run \in Attempted \cup {Stake!Idle, Stake!Over},
         runs' = [runs EXCEPT ![i] = run],
         Stake!Active(run) => /\ Settled(run) /\ run.met = runs[i].met
                              /\ run.read = runs[i].read /\ run.input = runs[i].input,
         Stake!Active(run) /\ ~run.met => Backed(run, allowed')
  PROVE  RunsShape' /\ Alone' /\ Backing' /\ (UNCHANGED <<held, mined>> => Meaning')
<1>1. runs' \in [Stake!Slides -> Attempted \cup {Stake!Idle, Stake!Over}]
  BY DEF StakeInv, RunsShape
<1>2. runs'[i] = run /\ \A j \in Stake!Slides \ {i} : runs'[j] = runs[j]
  BY DEF StakeInv, RunsShape
<1>3. RunsShape'
  BY <1>1, <1>2 DEF StakeInv, RunsShape, Settled, Stake!Active
<1>4. Alone'
  BY <1>2 DEF StakeInv, Alone, Stake!Active
<1>5. Backing'
  <2>1. SUFFICES ASSUME NEW j \in Stake!Slides, Stake!Active(runs'[j]), ~runs'[j].met
                 PROVE  Backed(runs'[j], allowed')
    BY DEF Backing, Stake!Active, Backed
  <2>2. j = i
    BY <1>2, <2>1 DEF StakeInv, Alone
  <2> QED BY <1>2, <2>1, <2>2
<1>6. UNCHANGED <<held, mined>> => Meaning'
  BY <1>2 DEF StakeInv, Meaning, Meant, Stake!Active, Stake!Covered
<1> QED BY <1>3, <1>4, <1>5, <1>6

LEMMA StakeBegins == Stake!StakeAssumption /\ Stake!Init => StakeInv
<1> SUFFICES ASSUME Stake!StakeAssumption, Stake!Init PROVE StakeInv
  OBVIOUS
<1>1. DialogShape
  BY DEF Stake!StakeAssumption, Stake!Init, Stake!Fresh, DialogShape, FormShape, Entries, Funds, Stake!Base, Stake!Token
<1>2. RunsShape /\ Alone /\ Backing /\ Meaning
  BY DEF Stake!Init, RunsShape, Alone, Backing, Meaning, Stake!Active
<1>3. Known
  BY DEF Stake!StakeAssumption, Stake!Init, Stake!Fresh, Known, Stake!Base, Stake!Token
<1> QED BY <1>1, <1>2, <1>3 DEF StakeInv, Stake!Init

\* A dialog that begins knows what the page knows.
LEMMA FreshIsKnown ==
  ASSUME StakeInv, form' = Stake!Fresh("USDC"), UNCHANGED <<offered, held, read, mined>>
  PROVE  form' \in FormShape /\ Known'
<1>1. form' \in FormShape
  BY DEF StakeInv, DialogShape, Stake!Fresh, FormShape, Entries, Funds, Stake!Base, Stake!Token
<1>2. /\ form'.read = read /\ form'.known.fluid = offered["fUSDC"] /\ form'.known.base = offered["USDC"]
      /\ form'.symbol = "USDC"
  BY DEF Stake!Fresh
<1>3. read \in Nat /\ mined \in Nat /\ {"fUSDC", "USDC"} \subseteq Stake!Token
  BY DEF StakeInv, DialogShape, Stake!Token, Stake!Base
<1>4. Known'
  BY <1>2, <1>3 DEF StakeInv, Known
<1> QED BY <1>1, <1>4

LEMMA OpenKeeps == StakeInv /\ Stake!Open => StakeInv'
<1> SUFFICES ASSUME StakeInv, Stake!Open PROVE StakeInv'
  OBVIOUS
<1>1. form' = Stake!Fresh("USDC") /\ ratio' \in Nat
  BY DEF Stake!Open
<1>2. UNCHANGED <<offered, held, allowed, read, mined, short, runs>>
  BY DEF Stake!Open, Stake!page, Stake!chain, Stake!history
<1>3. form' \in FormShape /\ Known'
  BY <1>1, <1>2, FreshIsKnown
<1> QED BY <1>1, <1>2, <1>3 DEF StakeInv, DialogShape, RunsShape, Alone, Backing, Meaning,
                                Stake!Active, Settled, Backed, Meant, Stake!Covered

\* What is closed lets its attempts go on: only who may say what becomes of them is another.
LEMMA CloseKeeps == StakeInv /\ Stake!Close => StakeInv'
<1> SUFFICES ASSUME StakeInv, Stake!Close PROVE StakeInv'
  OBVIOUS
<1> DEFINE Left(run) == IF ~Stake!Active(run) THEN run ELSE [run EXCEPT !.own = FALSE]
<1>1. form' = Stake!Fresh("USDC") /\ ratio' \in Nat
  BY DEF Stake!Close
<1>2. UNCHANGED <<offered, held, allowed, read, mined, short>>
  BY DEF Stake!Close, Stake!page, Stake!chain, Stake!history
<1>3. runs' = [i \in Stake!Slides |-> Left(runs[i])]
  BY DEF Stake!Close
<1>4. \A run \in Attempted : [run EXCEPT !.own = FALSE] \in Attempted
                             /\ [run EXCEPT !.own = FALSE].step = run.step
                             /\ [run EXCEPT !.own = FALSE].wants = run.wants
                             /\ [run EXCEPT !.own = FALSE].input = run.input
                             /\ [run EXCEPT !.own = FALSE].read = run.read
                             /\ [run EXCEPT !.own = FALSE].met = run.met
  BY DEF Attempted
<1>5. ASSUME NEW i \in Stake!Slides
      PROVE  /\ runs'[i] \in Attempted \cup {Stake!Idle, Stake!Over}
             /\ Stake!Active(runs'[i]) => /\ Stake!Active(runs[i]) /\ runs'[i].step = runs[i].step
                                          /\ runs'[i].wants = runs[i].wants
                                          /\ runs'[i].input = runs[i].input
                                          /\ runs'[i].read = runs[i].read
                                          /\ runs'[i].met = runs[i].met
  BY <1>3, <1>4, ActiveIsAttempted DEF StakeInv, RunsShape
<1>6. RunsShape'
  BY <1>3, <1>5 DEF StakeInv, RunsShape, Settled, Stake!Active
<1>7. Alone'
  BY <1>2, <1>5 DEF StakeInv, Alone, Stake!Active
<1>8. Backing'
  <2>1. SUFFICES ASSUME NEW i \in Stake!Slides, Stake!Active(runs'[i]), ~runs'[i].met
                 PROVE  Backed(runs'[i], allowed')
    BY DEF Backing, Stake!Active, Backed
  <2>2. Backed(runs[i], allowed)
    BY <1>5, <2>1 DEF StakeInv, Backing
  <2> QED BY <1>2, <1>5, <2>1, <2>2 DEF Backed
<1>9. Meaning'
  BY <1>2, <1>5 DEF StakeInv, Meaning, Meant, Stake!Active, Stake!Covered
<1>10. form' \in FormShape /\ Known'
  BY <1>1, <1>2, FreshIsKnown
<1> QED BY <1>1, <1>2, <1>6, <1>7, <1>8, <1>9, <1>10 DEF StakeInv, DialogShape

LEMMA BalancesKeep == StakeInv /\ Stake!BalancesArrive => StakeInv'
<1> SUFFICES ASSUME StakeInv, Stake!BalancesArrive PROVE StakeInv'
  OBVIOUS
<1>1. UNCHANGED <<form, ratio, held, allowed, mined, short, runs>> /\ offered' = held /\ read' = mined
  BY DEF Stake!BalancesArrive, Stake!inputs, Stake!chain, Stake!history
<1>2. form.read \in Nat /\ read \in Nat /\ mined \in Nat /\ held \in Funds
  BY DEF StakeInv, DialogShape, FormShape
<1>3. Known'
  BY <1>1, <1>2 DEF StakeInv, Known, Funds
<1> QED BY <1>1, <1>2, <1>3 DEF StakeInv, DialogShape, RunsShape, Alone, Backing, Meaning,
                                Stake!Active, Settled, Backed, Meant, Stake!Covered

LEMMA RatioKeeps ==
  ASSUME Stake!StakeAssumption, StakeInv, NEW r \in Ratio, Stake!RatioArrives(r) PROVE StakeInv'
<1>1. UNCHANGED <<form, offered, held, allowed, read, mined, short, runs>> /\ ratio' \in Nat
  BY DEF Stake!StakeAssumption, Stake!RatioArrives, Stake!page, Stake!chain, Stake!history
<1> QED BY <1>1 DEF StakeInv, DialogShape, RunsShape, Alone, Backing, Known, Meaning,
                    Stake!Active, Settled, Backed, Meant, Stake!Covered

\* What is entered is known of as before, but for the balance of another base token.
LEMMA EnterKeeps ==
  ASSUME StakeInv, NEW input \in FormShape, Stake!Enter(input),
         input.read = form.read, input.known.fluid = form.known.fluid,
         \/ input.known.base = form.known.base /\ input.symbol = form.symbol
         \/ input.known.base = offered[input.symbol]
  PROVE  StakeInv'
<1>1. UNCHANGED <<ratio, offered, held, allowed, read, mined, short, runs>> /\ form' = input
  BY DEF Stake!Enter, Stake!page, Stake!chain, Stake!history
<1>2. form.read \in Nat /\ read \in Nat /\ mined \in Nat /\ input.symbol \in Stake!Token
  BY DEF StakeInv, DialogShape, FormShape, Stake!Token
<1>3. Known'
  BY <1>1, <1>2 DEF StakeInv, Known
<1> QED BY <1>1, <1>3 DEF StakeInv, DialogShape, RunsShape, Alone, Backing, Meaning,
                          Stake!Active, Settled, Backed, Meant, Stake!Covered

\* Whatever is typed or chosen, the amounts of the inputs are natural numbers.
LEMMA InputsKeep == Stake!StakeAssumption /\ StakeInv /\ Stake!InputStep => StakeInv'
<1> SUFFICES ASSUME Stake!StakeAssumption, StakeInv, Stake!InputStep PROVE StakeInv'
  OBVIOUS
<1>1. form \in FormShape /\ ratio \in Nat /\ offered \in Funds
  BY DEF StakeInv, DialogShape
<1>2. \A n, r \in Nat : n * r \in Nat /\ (r # 0 => n \div r \in Nat)
  OBVIOUS
<1>3. CASE \E n \in Typed : Stake!TypeFluid(n)
  <2>1. PICK n \in Typed : Stake!TypeFluid(n)
    BY <1>3
  <2>2. n \in Nat /\ n * ratio \in Nat
    BY <1>1, <1>2 DEF Stake!StakeAssumption
  <2> DEFINE input == [form EXCEPT !.fluid = n, !.base = IF ratio = 0 THEN @ ELSE n * ratio,
                                   !.entered = IF ratio = 0 THEN @ \cup {"fluid"} ELSE {"fluid", "base"}]
  <2>3. input \in FormShape /\ input.read = form.read /\ input.known = form.known /\ input.symbol = form.symbol
    BY <1>1, <2>2 DEF FormShape, Entries
  <2>4. Stake!Enter(input)
    BY <2>1 DEF Stake!TypeFluid
  <2> HIDE DEF input
  <2> QED BY <2>3, <2>4, EnterKeeps
<1>4. CASE \E n \in Typed : Stake!TypeBase(n)
  <2>1. PICK n \in Typed : Stake!TypeBase(n)
    BY <1>4
  <2>2. n \in Nat /\ (ratio # 0 => n \div ratio \in Nat)
    BY <1>1, <1>2 DEF Stake!StakeAssumption
  <2> DEFINE input == [form EXCEPT !.base = n, !.fluid = IF ratio = 0 THEN @ ELSE n \div ratio,
                                   !.entered = IF ratio = 0 THEN @ \cup {"base"} ELSE {"fluid", "base"}]
  <2>3. input \in FormShape /\ input.read = form.read /\ input.known = form.known /\ input.symbol = form.symbol
    BY <1>1, <2>2 DEF FormShape, Entries
  <2>4. Stake!Enter(input)
    BY <2>1 DEF Stake!TypeBase
  <2> HIDE DEF input
  <2> QED BY <2>3, <2>4, EnterKeeps
<1>5. CASE Stake!TypeMax
  <2> DEFINE matching == form.known.fluid * ratio
             all == [form EXCEPT !.fluid = form.known.fluid, !.base = matching, !.entered = {"fluid", "base"}]
             some == [form EXCEPT !.base = form.known.base, !.fluid = form.known.base \div ratio,
                                  !.entered = {"fluid", "base"}]
             input == IF form.known.base >= matching THEN all ELSE some
  <2>1. form.known.fluid \in Nat /\ form.known.base \in Nat
    BY <1>1 DEF FormShape
  <2>2. matching \in Nat /\ (ratio = 0 => matching = 0)
    BY <1>1, <1>2, <2>1
  <2>3. ~(form.known.base >= matching) => form.known.base \div ratio \in Nat
    BY <1>1, <1>2, <2>1, <2>2
  <2>4. input \in FormShape /\ input.read = form.read /\ input.known = form.known /\ input.symbol = form.symbol
    <3> HIDE DEF matching
    <3> QED BY <1>1, <2>1, <2>2, <2>3 DEF FormShape, Entries
  <2>5. Stake!Enter(input)
    BY <1>5 DEF Stake!TypeMax
  <2> HIDE DEF input
  <2> QED BY <2>4, <2>5, EnterKeeps
<1>6. CASE \E b \in Stake!Base : Stake!ChooseBase(b)
  <2>1. PICK b \in Stake!Base : Stake!ChooseBase(b)
    BY <1>6
  <2> DEFINE input == [form EXCEPT !.symbol = b, !.base = 0, !.entered = @ \ {"base"}, !.known.base = offered[b]]
  <2>2. offered[b] \in Nat
    BY <1>1 DEF Funds, Stake!Token
  <2>3. /\ input \in FormShape /\ input.read = form.read /\ input.symbol = b
        /\ input.known.fluid = form.known.fluid /\ input.known.base = offered[b]
    BY <1>1, <2>2 DEF FormShape, Entries
  <2>4. Stake!Enter(input)
    BY <2>1 DEF Stake!ChooseBase
  <2> HIDE DEF input
  <2> QED BY <2>3, <2>4, EnterKeeps
<1>6b. CASE \E side \in {"fluid", "base"} : Stake!Erase(side)
  <2>1. PICK side \in {"fluid", "base"} : Stake!Erase(side)
    BY <1>6b
  <2> DEFINE input == [form EXCEPT !.fluid = IF side = "fluid" THEN 0 ELSE @, !.base = IF side = "base" THEN 0 ELSE @,
                                   !.entered = @ \ {side}]
  <2>2. input \in FormShape /\ input.read = form.read /\ input.known = form.known /\ input.symbol = form.symbol
    BY <1>1 DEF FormShape, Entries
  <2>3. Stake!Enter(input)
    BY <2>1 DEF Stake!Erase
  <2> HIDE DEF input
  <2> QED BY <2>2, <2>3, EnterKeeps
<1>7. CASE \E yes \in BOOLEAN : Stake!TestAnswers(yes)
  <2>1. UNCHANGED stakeKept
    BY <1>7 DEF Stake!TestAnswers, stakeKept, Stake!inputs, Stake!page, Stake!chain, Stake!history
  <2> QED BY <2>1, StakeRests
<1> QED BY <1>3, <1>4, <1>5, <1>6, <1>6b, <1>7 DEF Stake!InputStep

\* What was tested is covered by what is known.
LEMMA TestedIsMeant ==
  ASSUME StakeInv, Stake!WithinMeans(form)
  PROVE  /\ Stake!Attempt \in Attempted /\ Stake!Attempt.step = "test" /\ Stake!Attempt.wants = {}
         /\ Stake!Attempt.met = Stake!Others /\ Meant(Stake!Attempt, mined, held)
<1> DEFINE input == [fluid |-> form.fluid, base |-> form.base, symbol |-> form.symbol]
<1>1. /\ form \in FormShape /\ read \in Nat /\ mined \in Nat /\ held \in Funds
      /\ form.fluid \in Nat /\ form.base \in Nat /\ form.symbol \in Stake!Base
      /\ form.known.fluid \in Nat /\ form.known.base \in Nat /\ form.read \in Nat
  BY DEF StakeInv, DialogShape, FormShape
<1>2. input \in Deposited
  BY <1>1 DEF Deposited
<1>3. Stake!Others \in BOOLEAN
  BY DEF Stake!Others
<1>4. /\ Stake!Attempt \in Attempted /\ Stake!Attempt.step = "test" /\ Stake!Attempt.wants = {}
      /\ Stake!Attempt.met = Stake!Others /\ Stake!Attempt.input = input /\ Stake!Attempt.read = form.read
  BY <1>1, <1>2, <1>3 DEF Stake!Attempt, Attempted
<1>5. form.fluid >= Minimum /\ form.fluid <= form.known.fluid /\ form.base <= form.known.base
  <2>1. form.fluid >= Minimum /\ Stake!Insufficient(form) = {}
    BY DEF Stake!WithinMeans
  <2>2. ~(form["fluid"] > form.known["fluid"]) /\ ~(form["base"] > form.known["base"])
    BY <2>1 DEF Stake!Insufficient
  <2>3. QED
    BY <1>1, <2>1, <2>2
<1>6. form.read <= mined
  BY <1>1 DEF StakeInv, Known
<1>7. ASSUME mined = form.read, NEW t \in Stake!Token
      PROVE  Stake!Amounts(input)[t] <= held[t]
  <2>1. form.known.fluid <= held["fUSDC"] /\ form.known.base <= held[form.symbol]
    BY <1>7 DEF StakeInv, Known
  <2>2. held[t] \in Nat /\ held["fUSDC"] \in Nat /\ held[form.symbol] \in Nat
    BY <1>1 DEF Funds, Stake!Token
  <2>3. Stake!Amounts(input)[t] = IF t = "fUSDC" THEN form.fluid ELSE IF t = form.symbol THEN form.base ELSE 0
    BY DEF Stake!Amounts
  <2> QED BY <1>1, <1>5, <2>1, <2>2, <2>3
<1> HIDE DEF input
<1>8. Meant(Stake!Attempt, mined, held)
  <2>1. input.fluid >= Minimum
    BY <1>5 DEF input
  <2> QED BY <1>4, <1>6, <1>7, <2>1 DEF Meant, Stake!Covered
<1> QED BY <1>4, <1>8

\* An attempt begins with the test of what is entered, with nothing asked for.
LEMMA SlideKeeps ==
  ASSUME StakeInv, NEW i \in Stake!Slides, Stake!Slide(i) PROVE StakeInv'
<1>1. UNCHANGED <<form, ratio, offered, held, allowed, read, mined, short>>
  BY DEF Stake!Slide, Stake!inputs, Stake!page, Stake!chain, Stake!history
<1>2. CASE ~Stake!WithinMeans(form)
  <2>1. UNCHANGED stakeKept
    BY <1>1, <1>2 DEF Stake!Slide, stakeKept
  <2> QED BY <2>1, StakeRests
<1>3. CASE Stake!WithinMeans(form)
  <2> DEFINE new == Stake!Attempt
             Meets(run) == IF Stake!Active(run) THEN [run EXCEPT !.met = TRUE] ELSE run
  <2>1. runs' = [j \in Stake!Slides |-> IF j = i THEN new ELSE Meets(runs[j])]
    BY <1>3 DEF Stake!Slide, Stake!Begins
  <2>2. /\ new \in Attempted /\ new.step = "test" /\ new.wants = {}
        /\ new.met = Stake!Others /\ Meant(new, mined, held)
    BY <1>3, TestedIsMeant
  <2>3. \A run \in Attempted : [run EXCEPT !.met = TRUE] \in Attempted
                              /\ [run EXCEPT !.met = TRUE].step = run.step
                              /\ [run EXCEPT !.met = TRUE].wants = run.wants
                              /\ [run EXCEPT !.met = TRUE].input = run.input
                              /\ [run EXCEPT !.met = TRUE].read = run.read
                              /\ [run EXCEPT !.met = TRUE].met = TRUE
    BY DEF Attempted
  <2>4. ASSUME NEW j \in Stake!Slides, j # i
        PROVE  /\ runs'[j] \in Attempted \cup {Stake!Idle, Stake!Over}
               /\ Stake!Active(runs'[j]) => /\ Stake!Active(runs[j]) /\ runs'[j].step = runs[j].step
                                            /\ runs'[j].wants = runs[j].wants
                                            /\ runs'[j].input = runs[j].input
                                            /\ runs'[j].read = runs[j].read
                                            /\ runs'[j].met = TRUE
    <3>1. runs'[j] = Meets(runs[j])
      BY <2>1, <2>4
    <3>2. CASE Stake!Active(runs[j])
      BY <2>3, <3>1, <3>2, ActiveIsAttempted
    <3>3. CASE ~Stake!Active(runs[j])
      BY <3>1, <3>3 DEF StakeInv, RunsShape
    <3> QED BY <3>2, <3>3
  <2>5. runs'[i] = new
    BY <2>1
  <2> HIDE DEF new
  <2>6. RunsShape'
    BY <2>1, <2>2, <2>4, <2>5 DEF StakeInv, RunsShape, Settled, Stake!Active
  <2>7. Alone'
    <3>1. SUFFICES ASSUME NEW j \in Stake!Slides, NEW k \in Stake!Slides, j # k,
                          Stake!Active(runs'[j]), Stake!Active(runs'[k])
                   PROVE  runs'[j].met
      BY DEF Alone, Stake!Active
    <3>2. CASE j = i
      BY <2>2, <2>4, <2>5, <3>1, <3>2 DEF Stake!Others
    <3>3. CASE j # i
      BY <2>4, <3>1, <3>3
    <3> QED BY <3>2, <3>3
  <2>8. Backing'
    BY <1>1, <2>2, <2>4, <2>5 DEF Backing, Backed, Stake!Active
  <2>9. Meaning'
    <3>1. SUFFICES ASSUME NEW j \in Stake!Slides, Stake!Active(runs'[j]) PROVE Meant(runs'[j], mined, held)
      BY <1>1 DEF Meaning, Meant, Stake!Active, Stake!Covered
    <3>2. CASE j = i
      BY <2>2, <2>5, <3>2
    <3>3. CASE j # i
      BY <2>4, <3>1, <3>3 DEF StakeInv, Meaning, Meant
    <3> QED BY <3>2, <3>3
  <2> QED BY <1>1, <2>6, <2>7, <2>8, <2>9 DEF StakeInv, DialogShape, Known
<1> QED BY <1>2, <1>3

LEMMA PromptingKeeps ==
  ASSUME StakeInv, NEW i \in Stake!Slides, Stake!Prompting(i) PROVE StakeInv'
<1> DEFINE wants == Stake!Unapproved(runs[i].input)
           next == IF wants = {} THEN "deposit" ELSE "approve"
           run == [runs[i] EXCEPT !.step = next, !.wants = wants]
<1>1. runs[i] \in Attempted /\ Stake!Active(runs[i])
  BY ActiveIsAttempted DEF Stake!Prompting
<1>2. runs' = [runs EXCEPT ![i] = run]
  BY DEF Stake!Prompting, Stake!Becomes
<1>3. UNCHANGED <<form, ratio, offered, held, allowed, read, mined, short>>
  BY DEF Stake!Prompting, Stake!inputs, Stake!page, Stake!chain, Stake!history
<1>4. runs[i].input \in Deposited
  BY <1>1 DEF Attempted
<1>5. wants \in SUBSET Stake!Token /\ \A t \in Stake!Token \ wants : Stake!Amounts(runs[i].input)[t] = 0
  BY <1>4, AmountsAreNatural DEF Stake!Unapproved, Stake!AllowanceSeen, Stake!Symbols, Stake!Token, Stake!Base, Funds
<1> HIDE DEF wants
<1>6. next \in {"deposit", "approve"} /\ (next = "deposit" => wants = {})
  OBVIOUS
<1> HIDE DEF next
<1>7. /\ run \in Attempted /\ run.step = next /\ run.wants = wants /\ run.input = runs[i].input
      /\ run.met = runs[i].met /\ run.read = runs[i].read
  BY <1>1, <1>5, <1>6 DEF Attempted
<1> HIDE DEF run
<1>8. Settled(run)
  BY <1>6, <1>7 DEF Settled
<1>9. Backed(run, allowed')
  BY <1>3, <1>5, <1>7 DEF Backed, StakeInv, DialogShape, Funds
<1>10. RunsShape' /\ Alone' /\ Backing' /\ Meaning'
  BY <1>1, <1>2, <1>3, <1>7, <1>8, <1>9, OneRunMoves
<1> QED BY <1>3, <1>10 DEF StakeInv, DialogShape, Known

\* An attempt ends, whatever became of it, and leaves the chain as it is.
LEMMA OverKeeps ==
  ASSUME StakeInv, NEW i \in Stake!Slides, Stake!Active(runs[i]),
         runs' = [runs EXCEPT ![i] = Stake!Over],
         UNCHANGED <<form, ratio, offered, held, allowed, read, mined, short>>
  PROVE  StakeInv'
<1>1. ~Stake!Active(Stake!Over)
  BY DEF Stake!Active
<1>2. RunsShape' /\ Alone' /\ Backing' /\ Meaning'
  BY <1>1, OneRunMoves
<1> QED BY <1>2 DEF StakeInv, DialogShape, Known

\* It waits for the prompts that are still open, and what it was approved for does not matter any more.
LEMMA FailedKeeps ==
  ASSUME StakeInv, NEW i \in Stake!Slides, Stake!Active(runs[i]),
         NEW run \in Attempted, run.step = "failed",
         run.met = runs[i].met, run.read = runs[i].read, run.input = runs[i].input,
         runs' = [runs EXCEPT ![i] = run],
         UNCHANGED <<form, ratio, offered, held, allowed, read, mined, short>>
  PROVE  StakeInv'
<1>1. Settled(run) /\ Backed(run, allowed')
  BY DEF Settled, Backed
<1>2. RunsShape' /\ Alone' /\ Backing' /\ Meaning'
  BY <1>1, OneRunMoves
<1> QED BY <1>2 DEF StakeInv, DialogShape, Known

LEMMA InVainKeeps ==
  ASSUME StakeInv, NEW i \in Stake!Slides, Stake!TestedInVain(i) \/ Stake!RefuseDeposit(i) PROVE StakeInv'
<1>1. Stake!Active(runs[i])
  BY ActiveIsAttempted DEF Stake!TestedInVain, Stake!RefuseDeposit
<1>2. /\ runs' = [runs EXCEPT ![i] = Stake!Over]
      /\ UNCHANGED <<form, ratio, offered, held, allowed, read, mined, short>>
  BY DEF Stake!TestedInVain, Stake!RefuseDeposit, Stake!Becomes, Stake!inputs, Stake!page, Stake!chain, Stake!history
<1> QED BY <1>1, <1>2, OverKeeps

\* Approval of one token: the others are as they were, and nothing else is under way.
LEMMA ApproveKeeps ==
  ASSUME StakeInv, NEW i \in Stake!Slides, NEW t \in Stake!Token, Stake!Approve(i, t) PROVE StakeInv'
<1> DEFINE wants == runs[i].wants \ {t}
           run == Stake!After(runs[i], wants)
           amounts == Stake!Amounts(runs[i].input)
<1>1. runs[i] \in Attempted /\ Stake!Active(runs[i]) /\ runs[i].step \in {"approve", "failed"}
  BY ActiveIsAttempted DEF Stake!Approve
<1>2. runs' = [runs EXCEPT ![i] = run] /\ allowed' = [allowed EXCEPT ![t] = amounts[t]]
  BY DEF Stake!Approve, Stake!Becomes
<1>3. UNCHANGED <<form, ratio, offered, held, read, mined, short>>
  BY DEF Stake!Approve, Stake!inputs, Stake!page, Stake!history
<1>4. wants \in SUBSET Stake!Token /\ amounts \in Funds
  BY <1>1, AmountsAreNatural DEF Attempted
<1>5. allowed \in Funds
  BY DEF StakeInv, DialogShape
<1>6. allowed' \in Funds /\ allowed'[t] = amounts[t] /\ \A u \in Stake!Token \ {t} : allowed'[u] = allowed[u]
  BY <1>2, <1>4, <1>5 DEF Funds
<1>7. \/ wants = {} /\ runs[i].step = "failed" /\ run = Stake!Over
      \/ wants = {} /\ runs[i].step = "approve" /\ run = [runs[i] EXCEPT !.step = "deposit", !.wants = wants]
      \/ wants # {} /\ run = [runs[i] EXCEPT !.step = @, !.wants = wants]
  BY <1>1 DEF Stake!After, Attempted
<1> HIDE DEF run, amounts
<1>8. \/ run = Stake!Over
      \/ /\ run \in Attempted /\ run.wants = wants /\ run.input = runs[i].input
         /\ run.met = runs[i].met /\ run.read = runs[i].read
         /\ run.step \in {"approve", "deposit", "failed"}
         /\ run.step = "deposit" => wants = {}
         /\ run.step \in {"approve", "deposit"} => runs[i].step = "approve"
  <2> HIDE DEF wants
  <2>1. CASE run = Stake!Over
    BY <2>1
  <2>2. CASE wants = {} /\ runs[i].step = "approve" /\ run = [runs[i] EXCEPT !.step = "deposit", !.wants = wants]
    <3> DEFINE deposit == [runs[i] EXCEPT !.step = "deposit", !.wants = wants]
    <3>1. /\ deposit \in Attempted /\ deposit.step = "deposit" /\ deposit.wants = wants /\ deposit.input = runs[i].input
          /\ deposit.met = runs[i].met /\ deposit.read = runs[i].read
      BY <1>1, <1>4, AttemptChanged, ZenonT(30)
    <3>2. run = deposit
      BY <2>2
    <3> HIDE DEF deposit
    <3> QED BY <2>2, <3>1, <3>2
  <2>3. CASE wants # {} /\ run = [runs[i] EXCEPT !.step = @, !.wants = wants]
    <3> DEFINE waits == [runs[i] EXCEPT !.step = @, !.wants = wants]
    <3>1. /\ waits \in Attempted /\ waits.step = runs[i].step /\ waits.wants = wants /\ waits.input = runs[i].input
          /\ waits.met = runs[i].met /\ waits.read = runs[i].read
      BY <1>1, <1>4 DEF Attempted
    <3>2. run = waits
      BY <2>3
    <3> HIDE DEF waits
    <3> QED BY <1>1, <2>3, <3>1, <3>2
  <2> QED BY <1>7, <2>1, <2>2, <2>3
<1>9. Stake!Active(run) /\ ~run.met => Backed(run, allowed')
  <2>1. SUFFICES ASSUME Stake!Active(run), ~run.met, run.step \in {"approve", "deposit"},
                        NEW u \in Stake!Token \ run.wants
                 PROVE  Stake!Amounts(run.input)[u] <= allowed'[u]
    BY <1>8 DEF Backed, Stake!Active
  <2>2. run.wants = wants /\ run.input = runs[i].input /\ runs[i].step = "approve" /\ ~runs[i].met
    BY <1>8, <2>1 DEF Stake!Active
  <2>3. CASE u = t
    BY <1>4, <1>6, <2>2, <2>3 DEF Funds, amounts
  <2>4. CASE u # t
    <3>1. u \in Stake!Token \ runs[i].wants
      BY <2>2, <2>4
    <3>2. Backed(runs[i], allowed)
      BY <1>1, <2>2 DEF StakeInv, Backing
    <3> QED BY <1>6, <2>2, <2>4, <3>1, <3>2 DEF Backed
  <2> QED BY <2>3, <2>4
<1>10. Stake!Active(run) => Settled(run)
  BY <1>8 DEF Settled, Stake!Active
<1>11. RunsShape' /\ Alone' /\ Backing' /\ Meaning'
  <2> HIDE DEF wants
  <2>1. run \in Attempted \cup {Stake!Idle, Stake!Over}
    BY <1>8
  <2>2. Stake!Active(run) => /\ Settled(run) /\ run.met = runs[i].met
                             /\ run.read = runs[i].read /\ run.input = runs[i].input
    BY <1>8, <1>10 DEF Stake!Active
  <2>3. RunsShape' /\ Alone' /\ Backing' /\ (UNCHANGED <<held, mined>> => Meaning')
    BY <1>1, <1>2, <1>9, <2>1, <2>2, OneRunMoves
  <2> QED BY <1>3, <2>3
<1> QED BY <1>3, <1>6, <1>11 DEF StakeInv, DialogShape, Known

LEMMA RefuseKeeps ==
  ASSUME StakeInv, NEW i \in Stake!Slides, NEW t \in Stake!Token, Stake!RefuseApproval(i, t) PROVE StakeInv'
<1> DEFINE wants == runs[i].wants \ {t}
           failed == [runs[i] EXCEPT !.step = "failed", !.wants = wants]
<1>1. runs[i] \in Attempted /\ Stake!Active(runs[i])
  BY ActiveIsAttempted DEF Stake!RefuseApproval
<1>2. runs' = [runs EXCEPT ![i] = IF wants = {} THEN Stake!Over ELSE failed]
  BY DEF Stake!RefuseApproval, Stake!Becomes
<1>3. UNCHANGED <<form, ratio, offered, held, allowed, read, mined, short>>
  BY DEF Stake!RefuseApproval, Stake!inputs, Stake!page, Stake!chain, Stake!history
<1>4. wants \in SUBSET Stake!Token
  BY <1>1 DEF Attempted
<1>5. /\ failed \in Attempted /\ failed.step = "failed"
      /\ failed.met = runs[i].met /\ failed.read = runs[i].read /\ failed.input = runs[i].input
  <2> HIDE DEF wants
  <2> QED BY <1>1, <1>4 DEF Attempted
<1> HIDE DEF wants, failed
<1>6. CASE wants = {}
  BY <1>1, <1>2, <1>3, <1>6, OverKeeps
<1>7. CASE wants # {}
  BY <1>1, <1>2, <1>3, <1>5, <1>7, FailedKeeps
<1> QED BY <1>6, <1>7

LEMMA SwallowKeeps ==
  ASSUME StakeInv, NEW i \in Stake!Slides, Stake!Swallow(i) PROVE StakeInv'
<1> DEFINE failed == [runs[i] EXCEPT !.step = "failed", !.wants = @]
<1>1. runs[i] \in Attempted /\ Stake!Active(runs[i])
  BY ActiveIsAttempted DEF Stake!Swallow
<1>2. runs' = [runs EXCEPT ![i] = IF runs[i].wants = {} THEN Stake!Over ELSE failed]
  BY <1>1 DEF Stake!Swallow, Stake!Becomes, Attempted
<1>3. UNCHANGED <<form, ratio, offered, held, allowed, read, mined, short>>
  BY DEF Stake!Swallow, Stake!inputs, Stake!chain
<1>4. /\ failed \in Attempted /\ failed.step = "failed"
      /\ failed.met = runs[i].met /\ failed.read = runs[i].read /\ failed.input = runs[i].input
  BY <1>1 DEF Attempted
<1> HIDE DEF failed
<1>5. CASE runs[i].wants = {}
  BY <1>1, <1>2, <1>3, <1>5, OverKeeps
<1>6. CASE runs[i].wants # {}
  BY <1>1, <1>2, <1>3, <1>4, <1>6, FailedKeeps
<1> QED BY <1>5, <1>6

\* The deposit is sent when nothing is wanted any more, for what was approved.
LEMMA SendKeeps ==
  ASSUME StakeInv, NEW i \in Stake!Slides, Stake!SendDeposit(i) PROVE StakeInv'
<1> DEFINE run == [runs[i] EXCEPT !.step = "mining", !.wants = @]
<1>1. runs[i] \in Attempted /\ Stake!Active(runs[i]) /\ runs[i].step = "deposit"
  BY ActiveIsAttempted DEF Stake!SendDeposit
<1>2. runs' = [runs EXCEPT ![i] = run]
  BY <1>1 DEF Stake!SendDeposit, Stake!Becomes, Attempted
<1>3. UNCHANGED <<form, ratio, offered, held, allowed, read, mined, short>>
  BY DEF Stake!SendDeposit, Stake!inputs, Stake!page, Stake!chain, Stake!history
<1>4. /\ run \in Attempted /\ run.step = "mining" /\ run.wants = runs[i].wants /\ run.input = runs[i].input
      /\ run.met = runs[i].met /\ run.read = runs[i].read
  BY <1>1 DEF Attempted
<1> HIDE DEF run
<1>5. Settled(run)
  BY <1>1, <1>4 DEF StakeInv, RunsShape, Settled
<1>6. ~run.met => Backed(run, allowed')
  <2>1. ASSUME ~run.met PROVE Backed(runs[i], allowed)
    BY <1>1, <1>4, <2>1 DEF StakeInv, Backing
  <2> QED BY <1>1, <1>3, <1>4, <2>1 DEF Backed
<1>7. RunsShape' /\ Alone' /\ Backing' /\ Meaning'
  BY <1>1, <1>2, <1>3, <1>4, <1>5, <1>6, OneRunMoves
<1> QED BY <1>3, <1>7 DEF StakeInv, DialogShape, Known

\* A deposit that is mined was approved, and takes no more than there is.
LEMMA MineKeeps ==
  ASSUME StakeInv, NEW i \in Stake!Slides, Stake!Mine(i) PROVE StakeInv'
<1> DEFINE input == runs[i].input
           amounts == Stake!Amounts(input)
           taken(funds) == [t \in Stake!Token |-> funds[t] - amounts[t]]
<1>1. runs[i] \in Attempted /\ Stake!Active(runs[i]) /\ runs[i].step = "mining"
  BY ActiveIsAttempted DEF Stake!Mine
<1>2. runs' = [runs EXCEPT ![i] = Stake!Over]
  BY DEF Stake!Mine, Stake!Becomes
<1>3. UNCHANGED <<form, ratio, offered, read>>
  BY DEF Stake!Mine, Stake!inputs
<1>4. short' = (short \/ (~Stake!Covered(input, allowed) /\ ~runs[i].met))
  BY DEF Stake!Mine
<1>5. amounts \in Funds
  BY <1>1, AmountsAreNatural DEF Attempted
<1>6. ASSUME NEW funds \in Funds, Stake!Covered(input, funds) PROVE taken(funds) \in Funds
  <2>1. \A t \in Stake!Token : amounts[t] <= funds[t]
    BY <1>6 DEF Stake!Covered
  <2>2. \A t \in Stake!Token : amounts[t] \in Nat /\ funds[t] \in Nat
    BY <1>5 DEF Funds
  <2> HIDE DEF amounts
  <2>3. \A t \in Stake!Token : funds[t] - amounts[t] \in Nat
    BY <2>1, <2>2
  <2> QED BY <2>3 DEF Funds
<1>7. held \in Funds /\ allowed \in Funds
  BY DEF StakeInv, DialogShape
<1>8. ~runs[i].met => Stake!Covered(input, allowed)
  <2>1. SUFFICES ASSUME ~runs[i].met PROVE Stake!Covered(input, allowed)
    OBVIOUS
  <2>2. Backed(runs[i], allowed) /\ runs[i].wants = {}
    BY <1>1, <2>1 DEF StakeInv, Backing, RunsShape, Settled
  <2> QED BY <1>1, <2>2 DEF Backed, Stake!Covered
<1>9. ~short'
  BY <1>4, <1>8 DEF StakeInv
<1>10. ~Stake!Active(Stake!Over)
  BY DEF Stake!Active
<1>11. RunsShape' /\ Alone' /\ Backing' /\ (UNCHANGED <<held, mined>> => Meaning')
  BY <1>1, <1>2, <1>10, OneRunMoves
<1>12. mined \in Nat /\ read \in Nat /\ form.read \in Nat
  BY DEF StakeInv, DialogShape, FormShape
<1>13. CASE Stake!Covered(input, held) /\ Stake!Covered(input, allowed)
  <2>1. held' = taken(held) /\ allowed' = taken(allowed) /\ mined' = mined + 1
    BY <1>13 DEF Stake!Mine
  <2>2. held' \in Funds /\ allowed' \in Funds
    BY <1>6, <1>7, <1>13, <2>1
  <2> HIDE DEF input, amounts, taken
  <2>3. Known'
    BY <1>3, <1>12, <2>1 DEF StakeInv, Known
  <2>4. Meaning'
    <3>1. SUFFICES ASSUME NEW j \in Stake!Slides, Stake!Active(runs'[j]) PROVE Meant(runs'[j], mined', held')
      BY DEF Meaning, Stake!Active, Meant, Stake!Covered
    <3>2. runs'[j] = runs[j] /\ Stake!Active(runs[j])
      BY <1>2, <1>10, <3>1 DEF StakeInv, RunsShape, Stake!Active
    <3>3. runs[j].input.fluid >= Minimum /\ runs[j].read <= mined /\ runs[j].read \in Nat
      BY <3>2, ActiveIsAttempted DEF StakeInv, Meaning, Meant, Attempted
    <3> QED BY <1>12, <2>1, <3>2, <3>3 DEF Meant
  <2> QED BY <1>3, <1>9, <1>11, <1>12, <2>1, <2>2, <2>3, <2>4 DEF StakeInv, DialogShape
<1>14. CASE ~(Stake!Covered(input, held) /\ Stake!Covered(input, allowed))
  <2>1. UNCHANGED <<held, allowed, mined>>
    BY <1>14 DEF Stake!Mine, Stake!chain
  <2> HIDE DEF input, amounts, taken
  <2> QED BY <1>3, <1>9, <1>11, <2>1 DEF StakeInv, DialogShape, Known
<1> QED BY <1>13, <1>14

LEMMA StakeMoves == Stake!StakeAssumption /\ StakeInv /\ Stake!Next => StakeInv'
<1> SUFFICES ASSUME Stake!StakeAssumption, StakeInv, Stake!Next PROVE StakeInv'
  OBVIOUS
<1>1. CASE Stake!Open \/ Stake!Close \/ Stake!BalancesArrive \/ Stake!InputStep
  BY <1>1, OpenKeeps, CloseKeeps, BalancesKeep, InputsKeep
<1>2. CASE Stake!Again
  <2>1. UNCHANGED stakeKept
    BY <1>2 DEF Stake!Again, stakeKept, Stake!inputs, Stake!page, Stake!chain, Stake!history
  <2> QED BY <2>1, StakeRests
<1>3. CASE \E r \in Ratio : Stake!RatioArrives(r)
  BY <1>3, RatioKeeps
<1>4. CASE \E i \in Stake!Slides : Stake!Slide(i)
  BY <1>4, SlideKeeps
<1>5. CASE \E i \in Stake!Slides : Stake!RunStep(i)
  BY <1>5, PromptingKeeps, InVainKeeps, ApproveKeeps, RefuseKeeps, SendKeeps, SwallowKeeps, MineKeeps
     DEF Stake!RunStep
<1> QED BY <1>1, <1>2, <1>3, <1>4, <1>5 DEF Stake!Next

LEMMA StakeInvIsEnough == StakeInv => StakesWithinMeans
<1> SUFFICES ASSUME StakeInv PROVE StakesWithinMeans
  OBVIOUS
<1>1. ASSUME NEW i \in Stake!Slides, Stake!Active(runs[i])
      PROVE  /\ runs[i].input.fluid >= Minimum
             /\ mined > runs[i].read \/ Stake!Covered(runs[i].input, held)
  <2>1. Meant(runs[i], mined, held)
    BY <1>1 DEF StakeInv, Meaning
  <2>2. runs[i].read \in Nat /\ mined \in Nat
    BY <1>1, ActiveIsAttempted DEF StakeInv, DialogShape, Attempted
  <2> QED BY <2>1, <2>2 DEF Meant
<1> QED BY <1>1 DEF StakesWithinMeans, Stake!AskedWithinMeans, Stake!ShortOnlyByOverlap, StakeInv

-----------------------------------------------------------------------------
(* The dialogs of the page (AirdropPage).  The timer of the tutorial runs   *)
(* in the first visit only, and the flag of that is stored when it starts;  *)
(* who saw the intro to its end has the flag of that, in the page and in    *)
(* the browser.                                                             *)

PageShape ==
  /\ local \in [intro : BOOLEAN, numbers : BOOLEAN]
  /\ stored \in [visited : BOOLEAN, introSeen : BOOLEAN, numbers : BOOLEAN]
  /\ timer \in BOOLEAN /\ finished \in BOOLEAN /\ autos \in Nat
TutorialOnce ==
  /\ ~stored.visited \/ timer => autos = 0
  /\ ~stored.visited => ~timer
  /\ autos <= 1
IntroOnce == finished => stored.introSeen /\ ~local.intro /\ intro # "playing"

PageInv == PageShape /\ TutorialOnce /\ IntroOnce

LEMMA IntroIsContent == \A m : Page!Intro(m, FALSE) # "playing"
BY DEF Page!Intro, Page!None

\* A dialog turns into another: the intro plays on, or if it has not been seen.
LEMMA TurnsKeep ==
  ASSUME PageInv, UNCHANGED <<local, stored, timer, autos, finished>>,
         \E m : intro' \in {intro, Page!Intro(m, local.intro)}
  PROVE  PageInv'
<1>1. finished => intro' # "playing"
  <2>1. SUFFICES ASSUME finished PROVE intro' # "playing"
    OBVIOUS
  <2>2. local.intro = FALSE /\ intro # "playing"
    BY <2>1 DEF PageInv, PageShape, IntroOnce
  <2> QED BY <2>2, IntroIsContent
<1> QED BY <1>1 DEF PageInv, PageShape, TutorialOnce, IntroOnce

LEMMA PageRests == PageInv /\ UNCHANGED <<local, stored, timer, autos, finished, intro>> => PageInv'
BY TurnsKeep

LEMMA PageBegins == Page!Init => PageInv
<1> SUFFICES ASSUME Page!Init PROVE PageInv
  OBVIOUS
<1>1. autos = 0 /\ timer = FALSE /\ finished = FALSE
  BY DEF Page!Init
<1>2. PageShape
  <2>1. local \in [intro : BOOLEAN, numbers : BOOLEAN]
    BY DEF Page!Init
  <2>2. stored \in [visited : BOOLEAN, introSeen : BOOLEAN, numbers : BOOLEAN]
    BY DEF Page!Init
  <2> QED BY <1>1, <2>1, <2>2 DEF PageShape
<1>3. TutorialOnce /\ IntroOnce
  BY <1>1 DEF TutorialOnce, IntroOnce
<1> QED BY <1>2, <1>3 DEF PageInv

LEMMA VisitKeeps ==
  ASSUME PageInv, NEW h, NEW w \in BOOLEAN, NEW plain \in BOOLEAN, Page!Visit(h, w, plain) PROVE PageInv'
<1>1. /\ local' = [intro |-> ~stored.introSeen, numbers |-> stored.numbers]
      /\ stored' = [stored EXCEPT !.visited = TRUE]
      /\ timer' = (~stored.visited /\ w /\ plain)
      /\ intro' = Page!Intro(modal', FALSE) /\ UNCHANGED <<autos, finished>>
  BY DEF Page!Visit, Page!Remember, Page!history
<1>2. intro' # "playing"
  BY <1>1, IntroIsContent
<1>3. PageShape'
  BY <1>1 DEF PageInv, PageShape
<1>4. TutorialOnce'
  BY <1>1 DEF PageInv, PageShape, TutorialOnce
<1>5. IntroOnce'
  BY <1>1, <1>2 DEF PageInv, PageShape, IntroOnce
<1> QED BY <1>3, <1>4, <1>5 DEF PageInv

LEMMA TutorialKeeps == PageInv /\ Page!TutorialFires => PageInv'
<1> SUFFICES ASSUME PageInv, Page!TutorialFires PROVE PageInv'
  OBVIOUS
<1>1. timer /\ timer' = FALSE /\ autos' = autos + 1 /\ UNCHANGED <<local, stored, finished>>
  BY DEF Page!TutorialFires, Page!flags
<1>2. \E m : intro' \in {intro, Page!Intro(m, local.intro)}
  BY DEF Page!TutorialFires, Page!Turn, Page!shows
<1>3. finished => intro' # "playing"
  <2>1. SUFFICES ASSUME finished PROVE intro' # "playing"
    OBVIOUS
  <2>2. local.intro = FALSE /\ intro # "playing"
    BY <2>1 DEF PageInv, PageShape, IntroOnce
  <2> QED BY <1>2, <2>2, IntroIsContent
<1>4. stored.visited /\ autos = 0
  BY <1>1 DEF PageInv, PageShape, TutorialOnce
<1>5. autos' = 1
  BY <1>1, <1>4
<1>6. PageShape'
  <2>1. timer' \in BOOLEAN
    BY <1>1
  <2>2. autos' \in Nat
    BY <1>5
  <2>3. UNCHANGED <<local, stored, finished>>
    BY <1>1
  <2> QED BY <2>1, <2>2, <2>3 DEF PageInv, PageShape
<1>7. TutorialOnce'
  BY <1>1, <1>4, <1>5 DEF TutorialOnce
<1>8. IntroOnce'
  BY <1>1, <1>3 DEF PageInv, IntroOnce
<1> QED BY <1>6, <1>7, <1>8 DEF PageInv

LEMMA IntroKeeps == PageInv /\ Page!FinishIntro => PageInv'
<1> SUFFICES ASSUME PageInv, Page!FinishIntro PROVE PageInv'
  OBVIOUS
<1>1. /\ local' = [local EXCEPT !.intro = FALSE] /\ stored' = [stored EXCEPT !.introSeen = TRUE]
      /\ intro' = "content" /\ finished' = TRUE /\ UNCHANGED <<timer, autos>>
  BY DEF Page!FinishIntro, Page!timers
<1>2. local' \in [intro : BOOLEAN, numbers : BOOLEAN] /\ local'.intro = FALSE
  BY <1>1 DEF PageInv, PageShape
<1>3. /\ stored' \in [visited : BOOLEAN, introSeen : BOOLEAN, numbers : BOOLEAN]
      /\ stored'.visited = stored.visited /\ stored'.introSeen = TRUE
  BY <1>1 DEF PageInv, PageShape
<1>4. PageShape'
  BY <1>1, <1>2, <1>3 DEF PageInv, PageShape
<1>5. TutorialOnce'
  BY <1>1, <1>3 DEF PageInv, PageShape, TutorialOnce
<1>6. IntroOnce'
  BY <1>1, <1>2, <1>3 DEF IntroOnce
<1> QED BY <1>4, <1>5, <1>6 DEF PageInv

LEMMA NumbersKeep == PageInv /\ Page!ToggleNumbers => PageInv'
<1> SUFFICES ASSUME PageInv, Page!ToggleNumbers PROVE PageInv'
  OBVIOUS
<1>1. /\ local' = [local EXCEPT !.numbers = ~@] /\ stored' = [stored EXCEPT !.numbers = local'.numbers]
      /\ UNCHANGED <<timer, autos, finished, intro>>
  BY DEF Page!ToggleNumbers, Page!timers, Page!shows, Page!history
<1>2. local' \in [intro : BOOLEAN, numbers : BOOLEAN] /\ local'.intro = local.intro
  BY <1>1 DEF PageInv, PageShape
<1>3. /\ stored' \in [visited : BOOLEAN, introSeen : BOOLEAN, numbers : BOOLEAN]
      /\ stored'.visited = stored.visited /\ stored'.introSeen = stored.introSeen
  BY <1>1, <1>2 DEF PageInv, PageShape
<1> QED BY <1>1, <1>2, <1>3 DEF PageInv, PageShape, TutorialOnce, IntroOnce

\* Leaving takes the timer with it, and what is shown.
LEMMA LeaveKeeps == PageInv /\ Page!Leave => PageInv'
<1> SUFFICES ASSUME PageInv, Page!Leave PROVE PageInv'
  OBVIOUS
<1>1. timer' = FALSE /\ intro' = Page!None /\ UNCHANGED <<local, stored, autos, finished>>
  BY DEF Page!Leave, Page!flags, Page!history
<1>2. intro' # "playing"
  BY <1>1 DEF Page!None
<1>3. PageShape' /\ TutorialOnce'
  BY <1>1 DEF PageInv, PageShape, TutorialOnce
<1>4. IntroOnce'
  BY <1>1, <1>2 DEF PageInv, IntroOnce
<1> QED BY <1>3, <1>4 DEF PageInv

\* All the rest turns the dialog at most.
LEMMA DialogTurns ==
  ASSUME \/ Page!StartLeaving \/ Page!Resize \/ Page!CloseBox \/ Page!GoToLeaderboard \/ Page!ScrollFires
         \/ \E m \in Page!Dialog : Page!Choose(m) \/ Page!FollowHash(m)
         \/ Page!NextSlide(1) \/ Page!NextSlide(-1) \/ Page!StartEarning
  PROVE  /\ UNCHANGED <<local, stored, timer, autos, finished>>
         /\ \E m : intro' \in {intro, Page!Intro(m, local.intro)}
<1>1. \A m : Page!Turn(m) => \E k : intro' \in {intro, Page!Intro(k, local.intro)}
  BY DEF Page!Turn
<1>2. CASE Page!StartLeaving
  BY <1>2 DEF Page!StartLeaving, Page!timers, Page!flags, Page!shows, Page!history
<1>3. CASE Page!Resize
  BY <1>3 DEF Page!Resize, Page!timers, Page!flags, Page!history
<1>4. CASE Page!CloseBox
  BY <1>1, <1>4 DEF Page!CloseBox, Page!timers, Page!flags, Page!history
<1>5. CASE Page!GoToLeaderboard
  BY <1>1, <1>5 DEF Page!GoToLeaderboard, Page!flags, Page!history, Page!shows
<1>6. CASE Page!ScrollFires
  BY <1>6 DEF Page!ScrollFires, Page!flags, Page!shows, Page!history
<1>7. CASE \E m \in Page!Dialog : Page!Choose(m) \/ Page!FollowHash(m)
  BY <1>1, <1>7 DEF Page!Choose, Page!FollowHash, Page!timers, Page!flags, Page!history
<1>8. CASE Page!NextSlide(1) \/ Page!NextSlide(-1)
  BY <1>8 DEF Page!NextSlide, Page!timers, Page!flags, Page!history
<1>9. CASE Page!StartEarning
  BY <1>1, <1>9 DEF Page!StartEarning, Page!timers, Page!flags, Page!history
<1> QED BY <1>2, <1>3, <1>4, <1>5, <1>6, <1>7, <1>8, <1>9

LEMMA PageMoves == PageInv /\ Page!Next => PageInv'
BY VisitKeeps, TutorialKeeps, IntroKeeps, NumbersKeep, LeaveKeeps, DialogTurns, TurnsKeep DEF Page!Next

LEMMA PageInvIsEnough == PageInv => Page!ShownOnce
BY DEF PageInv, TutorialOnce, IntroOnce, Page!ShownOnce

\* The two effects agree on what was chosen.
LEMMA ChosenIsOpen ==
  ASSUME NEW m \in Page!Dialog, Page!Choose(m) PROVE modal' = m /\ hash' = m
BY DEF Page!Choose, Page!Turn, Page!ReadHash

-----------------------------------------------------------------------------
(* The data of the page (AirdropData).  The rows are those of the data they *)
(* say they were worked out from, and were worked out from what the cache   *)
(* has for the account and the period; while no account changed during a    *)
(* load and none failed, every load is of the account that is connected,    *)
(* and what is shown is of it or is awaited.                                *)

Player == Address \cup {Stranger}
Row == [user : Player, rank : Int]
Fetched == {[loaded |-> TRUE, rows |-> ranking] : ranking \in Boards}
LoadOf == [kind : {"balances", "stakes", "owed"}, of : Address]
FromOf(p, a, ranking) == <<Data!Query(p, a), ranking>>

BoardShape ==
  /\ account \in Data!Holder /\ period \in Data!Period /\ arbitrum \in BOOLEAN
  /\ cache \in [Data!Queries -> Fetched \cup {Data!Absent}]
FundsShape ==
  /\ loads \subseteq LoadOf /\ redeeming \in Data!Holder
  /\ {checked, enabled, upset} \subseteq BOOLEAN

ElsewhereNothing == ~arbitrum => \A q \in Data!Queries : cache[q] = Data!Absent
MemoIsTrue ==
  \A p \in Data!Period, a \in Data!Holder, ranking \in Boards :
    memo.from = FromOf(p, a, ranking) => memo.rows = Data!WithUser(Data!Ranked(ranking), a)
MemoIsNow ==
  LET data == cache[Data!Query(period, account)] IN
  data.loaded => memo.from = FromOf(period, account, data.rows)
BoardInv == BoardShape /\ ElsewhereNothing /\ MemoIsTrue /\ MemoIsNow

Awaited(k) == [kind |-> k, of |-> account] \in loads
LoadsAreMine ==
  \A load \in loads : load.of = account /\ load.kind \in IF arbitrum THEN {"balances", "stakes"} ELSE {"owed"}
ShownIsMine ==
  /\ arbitrum => balances = account \/ Awaited("balances")
  /\ arbitrum /\ account # Nobody => stakes \in {account, Nobody} \/ Awaited("stakes")
  /\ ~arbitrum /\ account # Nobody => owed = account \/ Awaited("owed")
FundsInv == FundsShape /\ (~upset => LoadsAreMine /\ ShownIsMine)

DataInv == BoardInv /\ FundsInv

\* A ranking, as rows.
LEMMA RankedRows ==
  ASSUME Data!DataAssumption, NEW ranking \in Boards
  PROVE  /\ ranking \in Seq(Player) /\ Data!Ranked(ranking) \in Seq(Row)
         /\ Len(Data!Ranked(ranking)) = Len(ranking)
         /\ \A i \in 1..Len(ranking) : Data!Ranked(ranking)[i] = [user |-> ranking[i], rank |-> i]
         /\ \A i, j \in 1..Len(ranking) : ranking[i] = ranking[j] => i = j
<1>1. ranking \in Seq(Player) /\ \A i, j \in DOMAIN ranking : ranking[i] = ranking[j] => i = j
  BY DEF Data!DataAssumption, Player
<1>2. DOMAIN ranking = 1..Len(ranking) /\ Len(ranking) \in Nat /\ \A i \in 1..Len(ranking) : ranking[i] \in Player
  BY <1>1
<1>3. Data!Ranked(ranking) = [i \in 1..Len(ranking) |-> [user |-> ranking[i], rank |-> i]]
  BY <1>2 DEF Data!Ranked
<1>4. Data!Ranked(ranking) \in [1..Len(ranking) -> Row]
  BY <1>2, <1>3 DEF Row
<1>5. Data!Ranked(ranking) \in Seq(Row) /\ Len(Data!Ranked(ranking)) = Len(ranking)
  BY <1>2, <1>4, IsASeq
<1> QED BY <1>1, <1>2, <1>3, <1>5

\* The first of some rows.
LEMMA FirstRows ==
  ASSUME Data!DataAssumption, NEW rows \in Seq(Row)
  PROVE  /\ Data!First(rows) \in Seq(Row)
         /\ Len(Data!First(rows)) = IF Len(rows) < Top THEN Len(rows) ELSE Top
         /\ \A i \in 1..Len(Data!First(rows)) : Data!First(rows)[i] = rows[i]
<1> DEFINE n == IF Len(rows) < Top THEN Len(rows) ELSE Top
<1>1. Top \in Nat /\ Len(rows) \in Nat
  BY DEF Data!DataAssumption
<1>2. n \in Nat /\ n <= Len(rows)
  BY <1>1
<1>3. Data!First(rows) = SubSeq(rows, 1, n)
  BY DEF Data!First
<1> HIDE DEF n
<1>4. \A i \in 1..n : rows[i] \in Row
  BY <1>1, <1>2
<1>5. /\ SubSeq(rows, 1, n) \in Seq(Row)
      /\ Len(SubSeq(rows, 1, n)) = IF 1 <= n THEN n - 1 + 1 ELSE 0
      /\ \A i \in 1..(n - 1 + 1) : SubSeq(rows, 1, n)[i] = rows[1 + i - 1]
  BY <1>2, <1>4, SubSeqProperties
<1>6. Len(SubSeq(rows, 1, n)) = n /\ \A i \in 1..n : SubSeq(rows, 1, n)[i] = rows[i]
  BY <1>2, <1>5
<1> QED BY <1>3, <1>5, <1>6 DEF n

\* A row before some others moves them by one.
LEMMA RowInFront ==
  ASSUME NEW row \in Row, NEW rows \in Seq(Row)
  PROVE  /\ <<row>> \o rows \in Seq(Row) /\ Len(<<row>> \o rows) = 1 + Len(rows)
         /\ (<<row>> \o rows)[1] = row
         /\ \A i \in 1..Len(rows) : (<<row>> \o rows)[1 + i] = rows[i]
         /\ SubSeq(<<row>> \o rows, 2, 1 + Len(rows)) = rows
<1> DEFINE one == <<row>>
           all == one \o rows
<1>1. one \in Seq(Row) /\ Len(one) = 1 /\ one[1] = row /\ Len(rows) \in Nat
  OBVIOUS
<1>2. /\ all \in Seq(Row) /\ Len(all) = Len(one) + Len(rows)
      /\ \A i \in 1..(Len(one) + Len(rows)) : all[i] = IF i <= Len(one) THEN one[i] ELSE rows[i - Len(one)]
  <2> HIDE DEF one
  <2> QED BY <1>1, ConcatProperties
<1> HIDE DEF one, all
<1>3. all \in Seq(Row) /\ Len(all) = 1 + Len(rows) /\ all[1] = row
  BY <1>1, <1>2
<1>4. \A i \in 1..Len(rows) : all[1 + i] = rows[i]
  BY <1>1, <1>2
<1>5. SubSeq(all, 2, 1 + Len(rows)) = rows
  <2> DEFINE n == 1 + Len(rows)
             some == SubSeq(all, 2, n)
  <2>1. n \in Int /\ \A i \in 2..n : all[i] \in Row
    BY <1>1, <1>3
  <2>2. /\ some \in Seq(Row) /\ Len(some) = IF 2 <= n THEN n - 2 + 1 ELSE 0
        /\ \A i \in 1..(n - 2 + 1) : some[i] = all[2 + i - 1]
    <3> HIDE DEF n
    <3> QED BY <2>1, SubSeqProperties
  <2> HIDE DEF some
  <2>3. Len(some) = Len(rows) /\ \A i \in 1..Len(rows) : some[i] = all[1 + i]
    BY <1>1, <2>2
  <2>4. \A i \in 1..Len(rows) : some[i] = rows[i]
    BY <1>4, <2>3
  <2> QED BY <1>1, <2>2, <2>3, <2>4, SeqEqual DEF some
<1> QED BY <1>3, <1>4, <1>5 DEF one, all

\* Of rows with no user twice, the one of an account is found.
LEMMA OnesPlace ==
  ASSUME NEW rows \in Seq(Row), NEW a \in Player, NEW k \in 1..Len(rows), rows[k].user = a,
         \A i \in 1..Len(rows) : rows[i].user = a => i = k
  PROVE  Data!Places(rows, a) = {k} /\ Data!FindIndex(rows, a) = k
<1>1. DOMAIN rows = 1..Len(rows)
  OBVIOUS
<1>2. Data!Places(rows, a) = {k}
  BY <1>1 DEF Data!Places
<1> QED BY <1>2 DEF Data!FindIndex

\* What is worked out from a ranking has the one row of an account that it should have: in its place,
\* or in front of the others.
Worked(ranking, a) == Data!WithUser(Data!Ranked(ranking), a)
Mine(ranking, a) ==
  IF Data!Places(Data!Ranked(ranking), a) = {} THEN Data!Unranked(a)
  ELSE Data!Ranked(ranking)[Data!FindIndex(Data!Ranked(ranking), a)]

LEMMA OneRow ==
  ASSUME Data!DataAssumption, NEW ranking \in Boards, NEW a \in Address
  PROVE  LET rows == Worked(ranking, a)
             top == Data!First(Data!Ranked(ranking))
         IN /\ \E i \in DOMAIN rows : Data!Places(rows, a) = {i} /\ rows[i] = Mine(ranking, a)
            /\ Len(rows) <= 1 + Len(top)
            /\ \E i \in 0..1 : SubSeq(rows, 1 + i, i + Len(top)) = top
<1> DEFINE ranks == Data!Ranked(ranking)
           top == Data!First(ranks)
           rows == Worked(ranking, a)
           mine == Mine(ranking, a)
           Good == /\ \E i \in DOMAIN rows : Data!Places(rows, a) = {i} /\ rows[i] = mine
                   /\ Len(rows) <= 1 + Len(top)
                   /\ \E i \in 0..1 : SubSeq(rows, 1 + i, i + Len(top)) = top
<1> SUFFICES Good
  OBVIOUS
<1>1. /\ ranks \in Seq(Row) /\ Len(ranks) = Len(ranking) /\ Len(ranks) \in Nat
      /\ \A i \in 1..Len(ranks) : ranks[i].user = ranking[i]
      /\ \A i, j \in 1..Len(ranks) : ranking[i] = ranking[j] => i = j
  <2>1. ASSUME NEW i \in 1..Len(ranking) PROVE ranks[i].user = ranking[i]
    <3>1. ranks[i] = [user |-> ranking[i], rank |-> i]
      BY RankedRows
    <3> HIDE DEF ranks
    <3> QED BY <3>1
  <2>2. ranks \in Seq(Row) /\ Len(ranks) = Len(ranking)
    BY RankedRows
  <2>3. \A i, j \in 1..Len(ranking) : ranking[i] = ranking[j] => i = j
    BY RankedRows
  <2> HIDE DEF ranks
  <2> QED BY <2>1, <2>2, <2>3
<1>2. a # Nobody /\ a \in Player /\ Top \in Nat
  BY DEF Data!DataAssumption, Player
<1>3. DOMAIN ranks = 1..Len(ranks)
  BY <1>1
<1> HIDE DEF ranks
<1>4. /\ top \in Seq(Row) /\ Len(top) \in Nat
      /\ Len(top) = IF Len(ranks) < Top THEN Len(ranks) ELSE Top
      /\ \A i \in 1..Len(top) : top[i] = ranks[i]
  BY <1>1, FirstRows
<1>5. rows = Data!WithUser(ranks, a) /\ mine = IF Data!Places(ranks, a) = {} THEN Data!Unranked(a)
                                               ELSE ranks[Data!FindIndex(ranks, a)]
  BY DEF Worked, Mine, ranks
<1>6. Data!First(ranks) = top
  OBVIOUS
<1> HIDE DEF top, rows, mine
<1>7. ASSUME NEW row \in Row, row.user = a, \A i \in 1..Len(top) : top[i].user # a,
             rows = <<row>> \o top, row = mine
      PROVE  Good
  <2>1. /\ rows \in Seq(Row) /\ Len(rows) = 1 + Len(top) /\ rows[1] = row
        /\ \A i \in 1..Len(top) : rows[1 + i] = top[i]
        /\ SubSeq(rows, 2, 1 + Len(top)) = top
    BY <1>4, <1>7, RowInFront
  <2>2. ASSUME NEW i \in 1..Len(rows), rows[i].user = a PROVE i = 1
    <3>1. SUFFICES ASSUME i # 1 PROVE FALSE
      OBVIOUS
    <3>2. i - 1 \in 1..Len(top) /\ i = 1 + (i - 1)
      BY <1>4, <2>1, <3>1
    <3>3. rows[i] = top[i - 1]
      BY <2>1, <3>2
    <3> QED BY <1>7, <2>2, <3>2, <3>3
  <2>3. 1 \in 1..Len(rows) /\ DOMAIN rows = 1..Len(rows)
    BY <1>4, <2>1
  <2>4. Data!Places(rows, a) = {1}
    <3>1. rows[1].user = a /\ \A i \in 1..Len(rows) : rows[i].user = a => i = 1
      BY <1>7, <2>1, <2>2
    <3> QED BY <1>2, <2>1, <2>3, <3>1, OnesPlace
  <2>5. SubSeq(rows, 1 + 1, 1 + Len(top)) = top
    BY <2>1
  <2>6. Len(rows) <= 1 + Len(top)
    BY <1>4, <2>1
  <2> QED BY <1>7, <2>1, <2>3, <2>4, <2>5, <2>6
<1> HIDE DEF Good
<1>8. CASE \A i \in 1..Len(ranks) : ranking[i] # a
  <2>1. Data!Places(ranks, a) = {}
    BY <1>1, <1>3, <1>8 DEF Data!Places
  <2>2. rows = <<Data!Unranked(a)>> \o top /\ mine = Data!Unranked(a)
    BY <1>2, <1>5, <1>6, <2>1 DEF Data!WithUser
  <2>3. Data!Unranked(a) \in Row /\ Data!Unranked(a).user = a
    BY <1>2 DEF Data!Unranked, Row
  <2>4. \A i \in 1..Len(top) : top[i].user # a
    BY <1>1, <1>4, <1>8
  <2> QED BY <1>7, <2>2, <2>3, <2>4
<1>9. CASE \E k \in 1..Len(ranks) : ranking[k] = a
  <2>1. PICK k \in 1..Len(ranks) : ranking[k] = a
    BY <1>9
  <2>2. ranks[k].user = a /\ \A i \in 1..Len(ranks) : ranks[i].user = a => i = k
    BY <1>1, <2>1
  <2>3. Data!Places(ranks, a) = {k} /\ Data!FindIndex(ranks, a) = k
    BY <1>1, <1>2, <2>2, OnesPlace
  <2>4. mine = ranks[k] /\ ranks[k] \in Row
    BY <1>1, <1>5, <2>3
  <2>5. CASE k > Top
    <3>1. rows = <<ranks[k]>> \o top
      BY <1>2, <1>5, <1>6, <2>3, <2>5 DEF Data!WithUser
    <3>2. \A i \in 1..Len(top) : top[i].user # a
      BY <1>1, <1>2, <1>4, <2>2, <2>5
    <3> QED BY <1>7, <2>2, <2>4, <3>1, <3>2
  <2>6. CASE ~(k > Top)
    <3>1. rows = top
      BY <1>2, <1>5, <1>6, <2>3, <2>6 DEF Data!WithUser
    <3>2. k \in 1..Len(top)
      BY <1>1, <1>2, <1>4, <2>1, <2>6
    <3>3. top[k] = ranks[k] /\ \A i \in 1..Len(top) : top[i].user = a => i = k
      BY <1>1, <1>2, <1>4, <2>2, <3>2
    <3>4. Data!Places(rows, a) = {k}
      <4>1. /\ rows \in Seq(Row) /\ k \in 1..Len(rows) /\ rows[k].user = a
            /\ \A i \in 1..Len(rows) : rows[i].user = a => i = k
        BY <1>4, <2>2, <3>1, <3>2, <3>3
      <4> QED BY <1>2, <4>1, OnesPlace
    <3>5. k \in DOMAIN rows /\ rows[k] = mine
      BY <1>4, <2>4, <3>1, <3>2, <3>3
    <3>6. SubSeq(rows, 1 + 0, 0 + Len(top)) = top
      <4>1. SubSeq(top, 1, Len(top)) = top
        BY <1>4, SubSeqFull
      <4> QED BY <1>4, <3>1, <4>1
    <3>7. Len(rows) <= 1 + Len(top)
      BY <1>4, <3>1
    <3> QED BY <3>4, <3>5, <3>6, <3>7 DEF Good
  <2> QED BY <2>5, <2>6
<1>10. Good
  BY <1>8, <1>9
<1> QED BY <1>10

\* What the rows are worked out from names the account, the period and the ranking.
LEMMA FromNames ==
  /\ \A p, a, ranking, q, b, other : FromOf(p, a, ranking) = FromOf(q, b, other) => p = q /\ a = b /\ ranking = other
  /\ \A p, a, ranking : FromOf(p, a, ranking) # <<>>
BY DEF FromOf, Data!Query

\* The memo of a cache is worked out from what the cache has, and true if the one before was.
LEMMA MemoFits ==
  ASSUME NEW c \in [Data!Queries -> Fetched \cup {Data!Absent}], NEW p \in Data!Period, NEW a \in Data!Holder,
         MemoIsTrue, memo' = Data!Memo(c, p, a)
  PROVE  /\ MemoIsTrue'
         /\ c[Data!Query(p, a)].loaded => memo'.from = FromOf(p, a, c[Data!Query(p, a)].rows)
<1> DEFINE q == Data!Query(p, a)
           data == c[q]
           from == IF data.loaded THEN <<q, data.rows>> ELSE <<>>
<1>1. q \in Data!Queries
  BY DEF Data!Queries
<1>2. Data!Data(c, q) = data
  BY <1>1 DEF Data!Data
<1>3. memo' = IF memo.from = from THEN memo
              ELSE [from |-> from, rows |-> Data!WithUser(Data!Ranked(data.rows), a)]
  BY <1>2 DEF Data!Memo
<1>4. data.loaded => from = FromOf(p, a, data.rows)
  BY DEF FromOf
<1>5. ~data.loaded => from = <<>>
  OBVIOUS
<1> HIDE DEF from, data
<1>6. memo'.from = from
  BY <1>3
<1>7. ASSUME NEW r \in Data!Period, NEW b \in Data!Holder, NEW ranking \in Boards,
             memo'.from = FromOf(r, b, ranking)
      PROVE  memo'.rows = Data!WithUser(Data!Ranked(ranking), b)
  <2>1. CASE memo.from = from
    BY <1>3, <1>7, <2>1 DEF MemoIsTrue
  <2>2. CASE memo.from # from
    <3>1. from = FromOf(p, a, data.rows) /\ from = FromOf(r, b, ranking)
      BY <1>4, <1>5, <1>6, <1>7, FromNames
    <3>2. a = b /\ data.rows = ranking
      BY <3>1 DEF FromOf, Data!Query
    <3> QED BY <1>3, <2>2, <3>2
  <2> QED BY <2>1, <2>2
<1> QED BY <1>4, <1>6, <1>7 DEF MemoIsTrue, data

\* The board, and the funds, of themselves: what the one of them says is not of the other.
boardKept == <<arbitrum, account, period, cache, memo>>
fundsKept == <<arbitrum, account, loads, redeeming, balances, stakes, owed, checked, enabled, upset>>

LEMMA BoardRests == BoardInv /\ UNCHANGED boardKept => BoardInv'
BY DEF BoardInv, boardKept, BoardShape, ElsewhereNothing, MemoIsTrue, MemoIsNow

LEMMA FundsRest == FundsInv /\ UNCHANGED fundsKept => FundsInv'
BY DEF FundsInv, fundsKept, FundsShape, LoadsAreMine, ShownIsMine, Awaited

LEMMA NothingIsNotLoaded == Data!Absent.loaded = FALSE
BY DEF Data!Absent

LEMMA DataBegins == Data!Init => DataInv
<1> SUFFICES ASSUME Data!Init PROVE DataInv
  OBVIOUS
<1>1. BoardShape /\ ElsewhereNothing
  BY DEF Data!Init, BoardShape, ElsewhereNothing, Data!Holder, Data!Period
<1>2. MemoIsTrue
  BY FromNames DEF Data!Init, MemoIsTrue
<1>3. MemoIsNow
  <2>1. Data!Query(period, account) \in Data!Queries
    BY <1>1 DEF BoardShape, Data!Queries
  <2>2. cache[Data!Query(period, account)] = Data!Absent
    BY <2>1 DEF Data!Init
  <2> QED BY <2>2, NothingIsNotLoaded DEF MemoIsNow
<1>4. FundsShape
  BY DEF Data!Init, FundsShape, Data!Holder
<1>5. LoadsAreMine /\ ShownIsMine
  BY DEF Data!Init, LoadsAreMine, ShownIsMine
<1> QED BY <1>1, <1>2, <1>3, <1>4, <1>5 DEF DataInv, BoardInv, FundsInv

LEMMA FetchKeeps ==
  ASSUME Data!DataAssumption, DataInv, NEW ranking \in Boards, Data!Fetch(ranking) PROVE DataInv'
<1> DEFINE q == Data!Query(period, account)
           answer == [loaded |-> TRUE, rows |-> ranking]
<1>1. /\ arbitrum /\ UNCHANGED <<arbitrum, account, period>>
      /\ cache' = [cache EXCEPT ![q] = answer] /\ memo' = Data!Memo(cache', period, account)
  BY DEF Data!Fetch, Data!history
<1>2. UNCHANGED fundsKept
  BY DEF Data!Fetch, fundsKept, Data!funds, Data!eligibility, Data!history
<1>3. BoardShape /\ MemoIsTrue
  BY DEF DataInv, BoardInv
<1>4. answer \in Fetched
  BY DEF Fetched
<1>5. cache' \in [Data!Queries -> Fetched \cup {Data!Absent}]
  BY <1>1, <1>3, <1>4 DEF BoardShape
<1>6. MemoIsTrue' /\ (cache'[q].loaded => memo'.from = FromOf(period, account, cache'[q].rows))
  BY <1>1, <1>3, <1>5, MemoFits DEF BoardShape
<1>7. BoardInv'
  BY <1>1, <1>3, <1>5, <1>6 DEF BoardInv, BoardShape, ElsewhereNothing, MemoIsNow
<1> QED BY <1>2, <1>7, FundsRest DEF DataInv

LEMMA FilterKeeps ==
  ASSUME DataInv, NEW p \in Data!Period, Data!SetFilterIndex(p) PROVE DataInv'
<1> DEFINE q == Data!Query(p, account)
<1>1. /\ arbitrum /\ UNCHANGED <<arbitrum, account, cache>> /\ period' = p
      /\ memo' = Data!Memo(cache, p, account)
  BY DEF Data!SetFilterIndex, Data!history
<1>2. UNCHANGED fundsKept
  BY DEF Data!SetFilterIndex, fundsKept, Data!funds, Data!eligibility, Data!history
<1>3. BoardShape /\ MemoIsTrue
  BY DEF DataInv, BoardInv
<1>4. MemoIsTrue' /\ (cache[q].loaded => memo'.from = FromOf(p, account, cache[q].rows))
  BY <1>1, <1>3, MemoFits DEF BoardShape
<1>5. BoardInv'
  BY <1>1, <1>3, <1>4 DEF BoardInv, BoardShape, ElsewhereNothing, MemoIsNow
<1> QED BY <1>2, <1>5, FundsRest DEF DataInv

\* Another account: what is loaded is asked for again, and what was awaited is remembered.
LEMMA SwitchKeeps ==
  ASSUME Data!DataAssumption, DataInv, NEW a \in Data!Holder, Data!Switch(a) PROVE DataInv'
<1> DEFINE q == Data!Query(period, a)
<1>1. /\ UNCHANGED <<arbitrum, period, cache, redeeming, owed, checked, enabled, stakes>> /\ account' = a
      /\ upset' = (upset \/ loads # {})
      /\ memo' = IF arbitrum THEN Data!Memo(cache, period, a) ELSE memo
      /\ balances' = IF a = Nobody THEN Nobody ELSE balances
      /\ loads' = IF a = Nobody THEN loads ELSE loads \cup Data!Ask(a)
  BY DEF Data!Switch, Data!AskForAccount, Data!eligibility
<1>2. BoardShape /\ MemoIsTrue /\ ElsewhereNothing /\ FundsShape
  BY DEF DataInv, BoardInv, FundsInv
<1>3. ASSUME arbitrum PROVE BoardInv'
  <2>1. MemoIsTrue' /\ (cache[q].loaded => memo'.from = FromOf(period, a, cache[q].rows))
    BY <1>1, <1>2, <1>3, MemoFits DEF BoardShape
  <2> QED BY <1>1, <1>2, <1>3, <2>1 DEF BoardInv, BoardShape, ElsewhereNothing, MemoIsNow
<1>4. ASSUME ~arbitrum PROVE BoardInv'
  <2>1. q \in Data!Queries
    BY <1>2 DEF BoardShape, Data!Queries
  <2>2. cache[q].loaded = FALSE
    BY <1>2, <1>4, <2>1, NothingIsNotLoaded DEF ElsewhereNothing
  <2>3. MemoIsNow'
    BY <1>1, <2>2 DEF MemoIsNow
  <2> QED BY <1>1, <1>2, <1>4, <2>3 DEF BoardInv, BoardShape, ElsewhereNothing, MemoIsTrue
<1>5. BoardInv'
  BY <1>3, <1>4
<1>6. FundsShape'
  <2>1. a # Nobody => Data!Ask(a) \subseteq LoadOf
    BY <1>2 DEF Data!Ask, LoadOf, Data!Holder
  <2>2. loads' \subseteq LoadOf
    BY <1>1, <1>2, <2>1 DEF FundsShape
  <2>3. upset' \in BOOLEAN
    BY <1>1
  <2> QED BY <1>1, <1>2, <2>2, <2>3 DEF FundsShape
<1>7. ASSUME ~upset' PROVE LoadsAreMine' /\ ShownIsMine'
  <2>1. loads = {}
    BY <1>1, <1>7
  <2>2. CASE a = Nobody
    <3>1. loads' = {} /\ balances' = account' /\ account' = Nobody
      BY <1>1, <2>1, <2>2
    <3> QED BY <3>1 DEF LoadsAreMine, ShownIsMine
  <2>3. CASE a # Nobody
    <3>1. loads' = Data!Ask(account')
      BY <1>1, <2>1, <2>3
    <3>2. loads' = {[kind |-> k, of |-> account'] : k \in IF arbitrum' THEN {"balances", "stakes"} ELSE {"owed"}}
      BY <1>1, <3>1 DEF Data!Ask
    <3>3. LoadsAreMine'
      BY <3>2 DEF LoadsAreMine
    <3>4. /\ arbitrum' => [kind |-> "balances", of |-> account'] \in loads'
                          /\ [kind |-> "stakes", of |-> account'] \in loads'
          /\ ~arbitrum' => [kind |-> "owed", of |-> account'] \in loads'
      BY <3>2
    <3> QED BY <3>3, <3>4 DEF ShownIsMine, Awaited
  <2> QED BY <2>2, <2>3
<1> QED BY <1>5, <1>6, <1>7 DEF DataInv, FundsInv

\* An answer comes: it is of the account that is connected, or something was upset.
LEMMA AnswerKeeps ==
  ASSUME Data!DataAssumption, DataInv, NEW load \in loads, Data!Answer(load) PROVE DataInv'
<1>1. /\ loads' = loads \ {load} /\ UNCHANGED <<arbitrum, account, upset, redeeming, checked>>
      /\ balances' = IF load.kind = "balances" THEN load.of ELSE balances
      /\ stakes' = IF load.kind = "stakes" THEN load.of ELSE stakes
      /\ owed' = IF load.kind = "owed" THEN load.of ELSE owed
      /\ enabled' = (enabled \/ load.kind = "owed")
  BY DEF Data!Answer, Data!history
<1>2. UNCHANGED boardKept
  BY DEF Data!Answer, boardKept, Data!board, Data!history
<1>3. FundsShape'
  <2>1. loads' \subseteq LoadOf /\ enabled' \in BOOLEAN
    BY <1>1 DEF DataInv, FundsInv, FundsShape
  <2> QED BY <1>1, <2>1 DEF DataInv, FundsInv, FundsShape
<1>4. ASSUME ~upset' PROVE LoadsAreMine' /\ ShownIsMine'
  <2>1. LoadsAreMine /\ ShownIsMine
    BY <1>1, <1>4 DEF DataInv, FundsInv
  <2>2. load.of = account
    BY <2>1 DEF LoadsAreMine
  <2>3. LoadsAreMine'
    BY <1>1, <2>1 DEF LoadsAreMine
  <2>4. ASSUME NEW k, [kind |-> k, of |-> account] \in loads, load.kind # k
        PROVE  [kind |-> k, of |-> account'] \in loads'
    BY <1>1, <2>4
  <2>5. arbitrum => balances' = account \/ [kind |-> "balances", of |-> account'] \in loads'
    BY <1>1, <2>1, <2>2, <2>4 DEF ShownIsMine, Awaited
  <2>6. arbitrum /\ account # Nobody => stakes' \in {account, Nobody} \/ [kind |-> "stakes", of |-> account'] \in loads'
    BY <1>1, <2>1, <2>2, <2>4 DEF ShownIsMine, Awaited
  <2>7. ~arbitrum /\ account # Nobody => owed' = account \/ [kind |-> "owed", of |-> account'] \in loads'
    BY <1>1, <2>1, <2>2, <2>4 DEF ShownIsMine, Awaited
  <2> QED BY <1>1, <2>3, <2>5, <2>6, <2>7 DEF ShownIsMine, Awaited
<1> QED BY <1>2, <1>3, <1>4, BoardRests DEF DataInv, FundsInv

LEMMA FailureKeeps ==
  ASSUME DataInv, NEW load \in loads, Data!LoadFails(load) PROVE DataInv'
<1>1. UNCHANGED boardKept /\ upset' = TRUE /\ loads' = loads \ {load} /\ UNCHANGED <<redeeming, checked, enabled>>
  BY DEF Data!LoadFails, boardKept, Data!board, Data!eligibility
<1>2. loads' \subseteq LoadOf
  BY <1>1 DEF DataInv, FundsInv, FundsShape
<1>3. FundsShape'
  BY <1>1, <1>2 DEF DataInv, FundsInv, FundsShape
<1> QED BY <1>1, <1>3, BoardRests DEF DataInv, FundsInv

LEMMA UnknownKeeps ==
  ASSUME DataInv, NEW load \in loads, Data!DepositsUnknown(load) PROVE DataInv'
<1>1. /\ UNCHANGED boardKept /\ load.kind = "stakes" /\ stakes' = Nobody /\ loads' = loads \ {load}
      /\ UNCHANGED <<arbitrum, account, upset, redeeming, balances, owed, checked, enabled>>
  BY DEF Data!DepositsUnknown, boardKept, Data!board, Data!eligibility, Data!history
<1>2. loads' \subseteq LoadOf
  BY <1>1 DEF DataInv, FundsInv, FundsShape
<1>3. FundsShape'
  BY <1>1, <1>2 DEF DataInv, FundsInv, FundsShape
<1>4. ASSUME ~upset' PROVE LoadsAreMine' /\ ShownIsMine'
  <2>1. LoadsAreMine /\ ShownIsMine
    BY <1>1, <1>4 DEF DataInv, FundsInv
  <2>2. LoadsAreMine'
    BY <1>1, <2>1 DEF LoadsAreMine
  <2>3. \A k \in {"balances", "owed"} : [kind |-> k, of |-> account] \in loads => [kind |-> k, of |-> account'] \in loads'
    BY <1>1
  <2> QED BY <1>1, <2>1, <2>2, <2>3 DEF ShownIsMine, Awaited
<1> QED BY <1>1, <1>3, <1>4, BoardRests DEF DataInv, FundsInv

LEMMA WithdrawKeeps ==
  ASSUME DataInv, Data!Withdraw \/ Data!WithdrawFails \/ Data!HandleCheckEligibility PROVE DataInv'
<1>1. /\ UNCHANGED boardKept /\ UNCHANGED <<arbitrum, account, upset, loads, balances, stakes, owed>>
      /\ redeeming' \in {redeeming, account, Nobody} /\ checked' \in {checked, TRUE} /\ enabled' \in {enabled, FALSE}
  BY DEF Data!Withdraw, Data!WithdrawFails, Data!HandleCheckEligibility, boardKept,
         Data!board, Data!funds, Data!eligibility, Data!history
<1>2. redeeming' \in Data!Holder
  BY <1>1 DEF DataInv, BoardInv, FundsInv, BoardShape, FundsShape, Data!Holder
<1>3. checked' \in BOOLEAN /\ enabled' \in BOOLEAN
  BY <1>1 DEF DataInv, FundsInv, FundsShape
<1>4. FundsShape'
  BY <1>1, <1>2, <1>3 DEF DataInv, FundsInv, FundsShape
<1>5. LoadsAreMine' = LoadsAreMine /\ ShownIsMine' = ShownIsMine
  BY <1>1 DEF LoadsAreMine, ShownIsMine, Awaited
<1> QED BY <1>1, <1>4, <1>5, BoardRests DEF DataInv, FundsInv

\* A withdrawal asks again for everything of the account it was made for.
LEMMA WithdrawWorksKeeps ==
  ASSUME DataInv, Data!WithdrawWorks PROVE DataInv'
<1>1. /\ redeeming # Nobody /\ redeeming' = Nobody /\ loads' = loads \cup Data!Ask(redeeming)
      /\ upset' = (upset \/ redeeming # account)
      /\ UNCHANGED <<arbitrum, account, balances, stakes, owed, checked, enabled>>
  BY DEF Data!WithdrawWorks, Data!eligibility
<1>2. UNCHANGED boardKept
  BY DEF Data!WithdrawWorks, boardKept, Data!board
<1>3. FundsShape'
  <2>1. redeeming \in Address
    BY <1>1 DEF DataInv, FundsInv, FundsShape, Data!Holder
  <2>2. loads' \subseteq LoadOf /\ redeeming' \in Data!Holder
    BY <1>1, <2>1 DEF DataInv, FundsInv, FundsShape, Data!Ask, LoadOf, Data!Holder
  <2>3. upset' \in BOOLEAN
    BY <1>1 DEF DataInv, FundsInv, FundsShape
  <2> QED BY <1>1, <2>2, <2>3 DEF DataInv, FundsInv, FundsShape
<1>4. ASSUME ~upset' PROVE LoadsAreMine' /\ ShownIsMine'
  <2>1. ~upset /\ redeeming = account
    BY <1>1, <1>4
  <2>2. LoadsAreMine /\ ShownIsMine
    BY <2>1 DEF DataInv, FundsInv
  <2>3. loads' = loads \cup {[kind |-> k, of |-> account] : k \in IF arbitrum THEN {"balances", "stakes"} ELSE {"owed"}}
    BY <1>1, <2>1 DEF Data!Ask
  <2>4. LoadsAreMine'
    BY <1>1, <2>2, <2>3 DEF LoadsAreMine
  <2>5. \A k : [kind |-> k, of |-> account] \in loads => [kind |-> k, of |-> account'] \in loads'
    BY <1>1, <2>3
  <2> QED BY <1>1, <2>2, <2>4, <2>5 DEF ShownIsMine, Awaited
<1> QED BY <1>2, <1>3, <1>4, BoardRests DEF DataInv, FundsInv

LEMMA DataMoves == Data!DataAssumption /\ DataInv /\ Data!Next => DataInv'
BY FetchKeeps, FilterKeeps, SwitchKeeps, AnswerKeeps, FailureKeeps, UnknownKeeps, WithdrawKeeps,
   WithdrawWorksKeeps
   DEF Data!Next, Data!BoardStep, Data!SwitchStep, Data!FundsStep

LEMMA BoardIsEnough == Data!DataAssumption /\ DataInv => Data!OneRowOfMine
<1> DEFINE q == Data!Query(period, account)
<1> SUFFICES ASSUME Data!DataAssumption, DataInv, Data!Loaded, account # Nobody PROVE Data!OneRowOfMine
  BY DEF Data!OneRowOfMine
<1>1. account \in Address /\ period \in Data!Period /\ q \in Data!Queries /\ account \in Data!Holder
  BY DEF DataInv, BoardInv, BoardShape, Data!Queries, Data!Holder
<1>2. Data!Data(cache, q) = cache[q] /\ cache[q].loaded
  BY <1>1 DEF DataInv, BoardInv, BoardShape, Data!Data, Data!Loaded
<1>3. cache[q] \in Fetched
  BY <1>1, <1>2, NothingIsNotLoaded DEF DataInv, BoardInv, BoardShape
<1>4. PICK ranking \in Boards : cache[q] = [loaded |-> TRUE, rows |-> ranking]
  BY <1>3 DEF Fetched
<1>5. cache[q].rows = ranking
  BY <1>4
<1>6. memo.from = FromOf(period, account, ranking)
  BY <1>2, <1>5 DEF DataInv, BoardInv, MemoIsNow
<1>7. memo.rows = Worked(ranking, account)
  BY <1>1, <1>6 DEF DataInv, BoardInv, MemoIsTrue, Worked
<1> DEFINE rows == Worked(ranking, account)
           top == Data!First(Data!Ranked(ranking))
<1>8. /\ \E i \in DOMAIN rows : Data!Places(rows, account) = {i} /\ rows[i] = Mine(ranking, account)
      /\ Len(rows) <= 1 + Len(top)
      /\ \E i \in 0..1 : SubSeq(rows, 1 + i, i + Len(top)) = top
  BY <1>1, OneRow
<1>9. Data!Places(rows, account) # {}
  BY <1>8
<1>10. Data!Rows = rows
  BY <1>7, <1>9 DEF Data!Rows
<1> HIDE DEF rows, top
<1> QED BY <1>2, <1>5, <1>8, <1>10 DEF Data!OneRowOfMine, Mine, top

LEMMA FundsAreEnough == DataInv => Data!BalancesAreMine
<1> SUFFICES ASSUME DataInv, loads = {}, ~upset PROVE Data!BalancesAreMine
  BY DEF Data!BalancesAreMine
<1>1. /\ arbitrum => balances = account
      /\ arbitrum /\ account # Nobody => stakes \in {account, Nobody}
      /\ ~arbitrum /\ account # Nobody => owed = account
  BY DEF DataInv, FundsInv, ShownIsMine, Awaited
<1>2. ASSUME owed = account
      PROVE  Data!TGEDisplay \in {"prompt", IF account \in Owing THEN "eligible" ELSE "not eligible"}
  BY <1>2 DEF Data!TGEDisplay
<1> QED BY <1>1, <1>2 DEF Data!BalancesAreMine

-----------------------------------------------------------------------------
(* The page as a whole: in each part nothing of the others changes.         *)

AirdropInv == StakeInv /\ PageInv /\ DataInv

LEMMA AirdropBegins == MCInit => AirdropInv
BY AirdropAssumption, StakeBegins, PageBegins, DataBegins DEF MCInit, AirdropInv

LEMMA StakeStands == StakeInv /\ UNCHANGED stakeVars => StakeInv'
<1> SUFFICES ASSUME StakeInv, UNCHANGED stakeVars PROVE StakeInv'
  OBVIOUS
<1>1. UNCHANGED stakeKept
  BY DEF stakeVars, stakeKept
<1> QED BY <1>1, StakeRests

LEMMA PageStands == PageInv /\ UNCHANGED pageVars => PageInv'
<1> SUFFICES ASSUME PageInv, UNCHANGED pageVars PROVE PageInv'
  OBVIOUS
<1>1. UNCHANGED <<local, stored, timer, autos, finished, intro>>
  BY DEF pageVars
<1> QED BY <1>1, PageRests

LEMMA DataStands == DataInv /\ UNCHANGED dataVars => DataInv'
<1> SUFFICES ASSUME DataInv, UNCHANGED dataVars PROVE DataInv'
  OBVIOUS
<1>1. UNCHANGED boardKept /\ UNCHANGED fundsKept
  BY DEF dataVars, boardKept, fundsKept
<1> QED BY <1>1, BoardRests, FundsRest DEF DataInv

LEMMA AirdropMoves == AirdropInv /\ [MCNext]_everything => AirdropInv'
<1> SUFFICES ASSUME AirdropInv, [MCNext]_everything PROVE AirdropInv'
  OBVIOUS
<1>1. CASE Stake!Next /\ UNCHANGED pageVars /\ UNCHANGED dataVars
  BY <1>1, AirdropAssumption, StakeMoves, PageStands, DataStands DEF AirdropInv
<1>2. CASE Page!Next /\ UNCHANGED stakeVars /\ UNCHANGED dataVars
  BY <1>2, PageMoves, StakeStands, DataStands DEF AirdropInv
<1>3. CASE Data!Next /\ UNCHANGED stakeVars /\ UNCHANGED pageVars
  BY <1>3, AirdropAssumption, DataMoves, StakeStands, PageStands DEF AirdropInv
<1>4. CASE UNCHANGED stakeVars /\ UNCHANGED pageVars /\ UNCHANGED dataVars
  BY <1>4, StakeStands, PageStands, DataStands DEF AirdropInv
<1>5. UNCHANGED everything => UNCHANGED stakeVars /\ UNCHANGED pageVars /\ UNCHANGED dataVars
  BY DEF everything
<1> QED BY <1>1, <1>2, <1>3, <1>4, <1>5 DEF MCNext, Data!Next

LEMMA AirdropAlways == MCSpec => []AirdropInv
<1>1. MCInit => AirdropInv
  BY AirdropBegins
<1>2. AirdropInv /\ [MCNext]_everything => AirdropInv'
  BY AirdropMoves
<1> QED BY <1>1, <1>2, PTL DEF MCSpec

\* The wallet is asked only for amounts that reach the minimum and that the account holds, unless a
\* deposit was mined since the balances were read that the dialog works with; and a deposit finds the
\* allowances it asked for if its attempt met no other, whatever the number of attempts, amounts,
\* ratios and openings of the dialog (airdrop/common.tsx:884-1003, transaction.ts:424-526).
THEOREM StakesAreWithinMeans == MCSpec => []StakesWithinMeans
<1>1. AirdropInv => StakesWithinMeans
  BY StakeInvIsEnough DEF AirdropInv
<1> QED BY <1>1, AirdropAlways, PTL

\* The leaderboard has one row of the account that is connected, with the rank of the server, and
\* when nothing is awaited any more the balances, the stakes and the word on who is eligible are of
\* that account, whatever the rankings, the accounts and the number of rows everyone sees
\* (airdrop/index.tsx:518-628, 681-696).
THEOREM DataIsOnesOwn == MCSpec => []DataIsMine
<1>1. AirdropInv => DataIsMine
  BY AirdropAssumption, BoardIsEnough, FundsAreEnough DEF AirdropInv, DataIsMine
<1> QED BY <1>1, AirdropAlways, PTL

\* Over any number of visits the tutorial opens by itself once at most and the intro is over for who
\* saw it to its end, and a dialog that was chosen is open and in the address
\* (airdrop/index.tsx:569-582, 661-671, 711-801).
THEOREM DialogsStay == MCSpec => DialogsKeep
<1>1. AirdropInv => Page!ShownOnce
  BY PageInvIsEnough DEF AirdropInv
<1>2. [MCNext]_everything => [\A m \in Page!Dialog : Page!Choose(m) => modal' = m /\ hash' = m]_(Page!vars)
  BY ChosenIsOpen
<1>3. MCSpec => []Page!ShownOnce
  BY <1>1, AirdropAlways, PTL
<1>4. MCSpec => Page!OpenedStays
  BY <1>2, PTL DEF MCSpec, Page!OpenedStays
<1> QED BY <1>3, <1>4, PTL DEF DialogsKeep
=============================================================================
