------------------------------ MODULE WatchView -------------------------------
(* What `mad-trellis watch` shows (internal/watch: model, view): a status strip, *)
(* the queue of open reviews, the feed of decisions, and a footer, in as many    *)
(* lines as the terminal has.  Snapshots, resizes and keys arrive in any order;  *)
(* each region is a window on its lines, with a marker for what is above and     *)
(* below, and the feed stays at its newest line until the user scrolls it.       *)
EXTENDS Integers, Sequences, FiniteSets

CONSTANTS
  Snapshots,  \* [reviews, leases, audit : available or not; requested, claimed; present; log]
  Heights     \* of the terminal

\* The window is not known at first.
ASSUME ViewAssumption == Heights \subseteq Nat \ {0}
ASSUME SnapshotsAssumption ==
  \A v \in Snapshots :
    /\ {v.reviews, v.leases, v.audit, v.present} \subseteq BOOLEAN
    /\ {v.requested, v.claimed, Len(v.log)} \subseteq Nat

VARIABLES view, height, focus, offsets, userScrolled

viewVars == <<view, height, focus, offsets, userScrolled>>

NoSnapshot ==
  [reviews |-> FALSE, leases |-> FALSE, audit |-> FALSE, requested |-> 0, claimed |-> 0,
   present |-> FALSE, log |-> <<>>]

Panels == {"feed", "queue"}
Smaller(a, b) == IF a < b THEN a ELSE b
Larger(a, b) == IF a < b THEN b ELSE a

-----------------------------------------------------------------------------
(* Lines.                                                                       *)

\* A header, the summary, and the alert that requests wait while there is no integrator.
StatusStripLines(v) ==
  2 + IF v.reviews /\ v.leases /\ v.requested > 0 /\ ~v.present THEN 1 ELSE 0

\* One line says that there is nothing, or no telling.
ReviewQueueLines(v) == IF v.reviews THEN Larger(1, v.requested + v.claimed) ELSE 1

\* Entries that repeat the one before are counted with it.
DedupeAuditEntries(log) ==
  IF log = <<>> THEN 0 ELSE 1 + Cardinality({i \in 2..Len(log) : log[i] # log[i - 1]})

FeedLines(v) == IF v.audit THEN Larger(1, DedupeAuditEntries(v.log)) ELSE 1

-----------------------------------------------------------------------------
(* Layout.                                                                      *)

\* Six lines and a marker; a cap of 0 is none.
QueueContentBudget(total, hardCap) ==
  LET n == IF total > 6 THEN 7 ELSE total
  IN IF hardCap > 0 THEN Smaller(n, hardCap) ELSE n

LayoutBudget(v, h) ==
  LET queue == ReviewQueueLines(v)
      available == Larger(0, h - StatusStripLines(v) - 1)
      queueHeight == Larger(0, Smaller(1 + QueueContentBudget(queue, 0), available - 1))
      feedHeight == Larger(0, available - queueHeight)
  IN IF h = 0 THEN [queue |-> QueueContentBudget(queue, 0), feed |-> FeedLines(v)]
     ELSE [queue |-> QueueContentBudget(queue, Larger(0, queueHeight - 1)),
           feed |-> Larger(0, feedHeight - 1)]

LinesOf(v) == [feed |-> FeedLines(v), queue |-> ReviewQueueLines(v)]

MaxScrollOffset(total, budget) ==
  IF budget <= 0 \/ total <= budget THEN 0 ELSE total - Larger(1, budget - 1)

\* The lines of a region that are shown: all, or some with markers for the rest.
WindowedRegion(total, rows, wanted) ==
  LET offset == Larger(0, Smaller(wanted, MaxScrollOffset(total, rows)))
      top == IF offset > 0 THEN 1 ELSE 0
      bottom == IF offset + Larger(0, rows - top) < total THEN 1 ELSE 0
      visible == Larger(0, rows - top - bottom)
  IN IF rows <= 0 THEN [lines |-> {}, markers |-> 0]
     ELSE IF total <= rows THEN [lines |-> 1..total, markers |-> 0]
     ELSE [lines |-> (offset + 1)..Smaller(total, offset + visible), markers |-> top + bottom]

\* The feed is pinned to its end until it is scrolled.
ClampOffsets(v, h, off, scrolled) ==
  [p \in Panels |->
     LET max == MaxScrollOffset(LinesOf(v)[p], LayoutBudget(v, h)[p])
     IN IF p = "feed" /\ "feed" \notin scrolled THEN max ELSE Larger(0, Smaller(off[p], max))]

-----------------------------------------------------------------------------
(* Updates.                                                                     *)

ViewInit ==
  /\ view = NoSnapshot /\ height = 0
  /\ focus = "feed" /\ offsets = [p \in Panels |-> 0] /\ userScrolled = {}

WindowSizeMsg ==
  /\ height' \in Heights \ {height}
  /\ offsets' = ClampOffsets(view, height', offsets, userScrolled)
  /\ UNCHANGED <<view, focus, userScrolled>>

\* Fault: the offsets are left as the last snapshot had them.
ShowSnapshotUnclamped ==
  /\ view' \in Snapshots \ {view}
  /\ UNCHANGED <<height, focus, offsets, userScrolled>>

ShowSnapshot ==
  /\ view' \in Snapshots \ {view}
  /\ offsets' = ClampOffsets(view', height, offsets, userScrolled)
  /\ UNCHANGED <<height, focus, userScrolled>>

FocusKey ==
  /\ focus' \in {"feed", "queue", "strip"} \ {focus}
  /\ UNCHANGED <<view, height, offsets, userScrolled>>

\* Keys and the wheel; nothing else changes anything.
ScrollFocused(delta) ==
  /\ focus # "strip"
  /\ userScrolled' = userScrolled \cup {focus}
  /\ offsets' = ClampOffsets(view, height, [offsets EXCEPT ![focus] = @ + delta], userScrolled')
  /\ UNCHANGED <<view, height, focus>>

ViewNext ==
  \/ WindowSizeMsg \/ ShowSnapshot \/ FocusKey
  \/ \E delta \in {-1, 1} : ScrollFocused(delta)

-----------------------------------------------------------------------------

(* The screen.                                                                  *)

Budget == LayoutBudget(view, height)
Shown(p) == WindowedRegion(LinesOf(view)[p], Budget[p], offsets[p])
RowsOf(p) == Cardinality(Shown(p).lines) + Shown(p).markers

\* The strip, two titles with their regions, and the footer; what is beyond the height is cut.
ScreenLines == StatusStripLines(view) + 1 + RowsOf("queue") + 1 + RowsOf("feed") + 1
FooterCut == height > 0 /\ ScreenLines > height

-----------------------------------------------------------------------------

\* Whatever the sizes and the keys: a region of two rows keeps to them, the newest decision is
\* on the screen until the feed is scrolled, every line of a region of three rows can be
\* scrolled to, and where no region has one row for several lines the footer is not cut off
\* (View, windowedRegion, clampOffsets).
ViewFits ==
  /\ \A p \in Panels : Budget[p] >= 2 => RowsOf(p) <= Budget[p]
  /\ Budget["feed"] >= 2 /\ "feed" \notin userScrolled =>
       FeedLines(view) \in Shown("feed").lines
  /\ \A p \in Panels : Budget[p] >= 3 =>
       /\ Shown(p).lines # {}
       /\ \A line \in 1..LinesOf(view)[p] :
            \E o \in 0..MaxScrollOffset(LinesOf(view)[p], Budget[p]) :
              line \in WindowedRegion(LinesOf(view)[p], Budget[p], o).lines
  /\ /\ height >= StatusStripLines(view) + 4
     /\ \A p \in Panels : Budget[p] # 1 \/ LinesOf(view)[p] = 1
     => ~FooterCut
===============================================================================
