----------------------------- MODULE Statistics -----------------------------
(***************************************************************************)
(* The figures of the home page.  volumeStats reads the transactions of a  *)
(* year, newest first, and counts them by view of the clock; the home      *)
(* route asks volumeStats, filters what it read once more and, last, sorts *)
(* each view's into bins of which the graph shows the peak.  Each of the   *)
(* three looks at the clock when it runs.                                  *)
(***************************************************************************)
EXTENDS Integers, Sequences, FiniteSets, SequencesExt

CONSTANTS
  Views,      \* of the graph: how many bins, how long one is, how far the filter looks
  Amounts,    \* of a transaction
  MaxVolumes, \* a bound: transactions that are read
  Start,      \* the time of the question, from which transactions are counted back
  MaxDelay    \* a bound: how late the last of the steps is

ASSUME StatisticsAssumption ==
  /\ Views \subseteq [bins : Nat \ {0}, length : Nat \ {0}, span : Nat \ {0}]
  /\ Amounts \subseteq Nat \ {0} /\ {MaxVolumes, Start, MaxDelay} \subseteq Nat

VARIABLES
  step,    \* of the home route
  now,     \* Date.now()
  volumes, \* volumeAll
  counted, \* volumeStats, by view
  kept,    \* filteredVolume, by view
  graph    \* graphData, by view

statistics == <<step, now, volumes, counted, kept, graph>>

Volume == [time : 0..Start, amount : Amounts]
NewestFirst(s) == \A i, j \in DOMAIN s : i < j => s[i].time >= s[j].time

InitStatistics ==
  /\ step = "count" /\ now = Start
  /\ volumes \in {s \in UNION {[1..n -> Volume] : n \in 0..MaxVolumes} : NewestFirst(s)}
  /\ counted = <<>> /\ kept = <<>> /\ graph = <<>>

Since(view, s) == SelectSeq(s, LAMBDA v : v.time > now - view.span)
Stats(s) == [count |-> Len(s), volume |-> FoldLeft(LAMBDA sum, v : sum + v.amount, 0, s)]

Count ==
  /\ step = "count" /\ step' = "filter"
  /\ counted' = [view \in Views |-> Stats(Since(view, volumes))]
  /\ UNCHANGED <<now, volumes, kept, graph>>
Filter ==
  /\ step = "filter" /\ step' = "draw"
  /\ kept' = [view \in Views |-> Since(view, volumes)]
  /\ UNCHANGED <<now, volumes, counted, graph>>

\* binTransactions: bins go back from now; a transaction goes to the first bin,
\* from where the one before it went, that does not begin after it, and the rest
\* are left out once there is none.
Bins(view) == [i \in 1..view.bins |-> now - i * view.length]
PlaceAfter(bins, acc, v) ==
  LET open == {i \in DOMAIN bins : i >= acc.at /\ v.time > bins[i]}
      here == CHOOSE i \in open : \A j \in open : i <= j
  IN  IF acc.over \/ open = {} THEN [acc EXCEPT !.over = TRUE]
      ELSE [acc EXCEPT !.at = here, !.held[here] = Append(@, v)]
Place(bins, acc, v) ==
  LET open == {i \in DOMAIN bins : i >= acc.at /\ v.time >= bins[i]}
      here == CHOOSE i \in open : \A j \in open : i <= j
  IN  IF acc.over \/ open = {} THEN [acc EXCEPT !.over = TRUE]
      ELSE [acc EXCEPT !.at = here, !.held[here] = Append(@, v)]
Held(view, s) ==
  LET bins == Bins(view) IN
  FoldLeft(LAMBDA acc, v : Place(bins, acc, v),
           [at |-> 1, over |-> FALSE, held |-> [i \in DOMAIN bins |-> <<>>]], s).held
\* The largest of a bin, or the bin itself, which has no amount.
Peak(bin, held) ==
  LET largest == SelectSeq(held, LAMBDA v : \A k \in DOMAIN held : held[k].amount <= v.amount)
  IN  IF held = <<>> THEN [time |-> bin, amount |-> 0] ELSE largest[1]
\* Oldest first; of the bins without an amount only the ends stay.  The code keeps
\* those between its "start" and "end" too, but the start is the older of the two.
Graph(view, s) ==
  LET bins == Bins(view)
      held == Held(view, s)
      peaks == Reverse([i \in DOMAIN bins |-> Peak(bins[i], held[i])])
      some == SelectSeq(peaks, LAMBDA p : p.amount # 0)
      shown == {i \in DOMAIN peaks :
                  \/ some = <<>> \/ peaks[i].amount # 0 \/ i \in {1, Len(peaks)}
                  \/ /\ Len(some) > 1 /\ peaks[i].time < Head(some).time
                     /\ peaks[i].time > Last(some).time}
  IN  [k \in 1..Cardinality(shown) |->
         peaks[CHOOSE i \in shown : Cardinality({j \in shown : j <= i}) = k]]
Draw ==
  /\ step = "draw" /\ step' = "done"
  /\ graph' = [view \in Views |-> Graph(view, kept[view])]
  /\ UNCHANGED <<now, volumes, counted, kept>>

\* The line has a point for each of them, and only one with an amount says whose it was.
Tooltips(view) == SelectSeq(graph[view], LAMBDA p : p.amount # 0)

Tick == step # "done" /\ now < Start + MaxDelay /\ now' = now + 1 /\ UNCHANGED <<step, volumes, counted, kept, graph>>

NextStatistics == Count \/ Filter \/ Draw \/ Tick

---------------------------------------------------------------------------
Bin(view, i) ==
  {v \in ToSet(kept[view]) : v.time >= now - i * view.length /\ (i > 1 => v.time < now - (i - 1) * view.length)}

\* However the clock moved between the filter and the bins, the graph has all that is
\* younger than its oldest bin, and shows, in the order of time, the largest transaction of
\* every bin that has one, and no other (query/dashboard/home.tsx:53-109, 232-244).
PeaksAreShown ==
  step = "done" => \A view \in Views :
    LET some == Tooltips(view)
        full == {i \in 1..view.bins : Bin(view, i) # {}}
    IN  /\ \A v \in ToSet(volumes) : v.time > now - view.bins * view.length => v \in ToSet(kept[view])
        /\ Len(some) = Cardinality(full)
        /\ \A i \in full : LET p == some[Cardinality({j \in full : j >= i})] IN
             p \in Bin(view, i) /\ \A v \in Bin(view, i) : v.amount <= p.amount

\* Each point of the graph is one of the transactions that the count beside it
\* counted, though that is taken earlier (home.tsx:206-244, volumeStats.tsx:74-112).
GraphWithinCount ==
  step = "done" => \A view \in Views :
    LET some == Tooltips(view)
    IN  /\ Len(some) <= counted[view].count
        /\ FoldLeft(LAMBDA sum, p : sum + p.amount, 0, some) <= counted[view].volume
=============================================================================
