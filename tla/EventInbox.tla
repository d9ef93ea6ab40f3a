------------------------------- MODULE EventInbox -------------------------------
(* How an agent whose terminal is not the launcher's hears of events             *)
(* (internal/mcp): a goroutine of its MCP server polls the daemon, turns what it  *)
(* gets into lines, and puts them one at a time into an inbox, which every tool   *)
(* call empties into its answer.                                                  *)
EXTENDS Naturals, Sequences, FiniteSets

CONSTANTS
  MaxEvents,  \* bound: events
  PollMax     \* events of one poll

ASSUME InboxAssumption == MaxEvents \in Nat /\ PollMax \in Nat \ {0}

VARIABLES
  log,      \* the daemon's events for this session
  cursor,   \* how many of them the session has been given
  polled,   \* the lines of the poll under way, still to be put in
  inbox,    \* server.eventInbox
  last,     \* server.eventLast, empty at first
  heard,    \* history: the lines in answers
  lines     \* history: the lines that were to be put in

inboxVars == <<log, cursor, polled, inbox, last, heard, lines>>

EventKinds == {"requested", "requeued", "verdict", "claimed", "other"}
NoLine == [line |-> "none", count |-> 0]

InboxInit ==
  /\ log = <<>> /\ cursor = 0 /\ polled = <<>> /\ inbox = <<>> /\ last = NoLine
  /\ heard = <<>> /\ lines = <<>>

\* What the lines say: how many requests wait, or what became of one's own.
RenderNudge(kind) == [line |-> kind, count |-> 1]

\* What s has at the places P, in its order.
Picked(s, P) ==
  [n \in 1..Cardinality(P) |-> s[CHOOSE i \in P : Cardinality({j \in P : j <= i}) = n]]

\* New and requeued requests of one poll are counted in one line, after the others.
NudgeLines(events) ==
  LET Places(kinds) == {i \in DOMAIN events : events[i] \in kinds}
      own == Picked(events, Places({"verdict", "claimed"}))
      requested == Cardinality(Places({"requested", "requeued"}))
  IN [i \in 1..Len(own) |-> RenderNudge(own[i])]
       \o (IF requested > 0 THEN <<[line |-> "requested", count |-> requested]>> ELSE <<>>)

EventHappens ==
  /\ Len(log) < MaxEvents
  /\ \E k \in EventKinds : log' = Append(log, k)
  /\ UNCHANGED <<cursor, polled, inbox, last, heard, lines>>

\* The daemon has moved the cursor whether or not its answer comes through.
PollEvents ==
  /\ polled = <<>> /\ cursor < Len(log)
  /\ LET upto == IF cursor + PollMax < Len(log) THEN cursor + PollMax ELSE Len(log)
     IN /\ cursor' = upto
        /\ polled' \in {NudgeLines(SubSeq(log, cursor + 1, upto)), <<>>}
  /\ UNCHANGED <<log, inbox, last, heard, lines>>

EnqueueNudge ==
  /\ polled # <<>>
  /\ IF Head(polled) = last THEN UNCHANGED <<inbox, last>>
     ELSE inbox' = Append(inbox, Head(polled)) /\ last' = Head(polled)
  /\ polled' = Tail(polled) /\ lines' = Append(lines, Head(polled))
  /\ UNCHANGED <<log, cursor, heard>>

\* Fault: the lines stay in the inbox.
DrainNudgesKeeps ==
  /\ inbox # <<>>
  /\ heard' = heard \o inbox
  /\ UNCHANGED <<log, cursor, polled, inbox, last, lines>>

\* Of a tool call, whatever it answers.
DrainNudges ==
  /\ inbox # <<>>
  /\ heard' = heard \o inbox /\ inbox' = <<>>
  /\ UNCHANGED <<log, cursor, polled, last, lines>>

InboxNext == EventHappens \/ PollEvents \/ EnqueueNudge \/ DrainNudges

-----------------------------------------------------------------------------

RepeatsLeftOut(s) == Picked(s, {i \in DOMAIN s : i = 1 \/ s[i] # s[i - 1]})

\* The agent is told every line once and in the order of the events, whenever its tool calls
\* come between a poll and the next; only what repeats the line before is left out, also when
\* that was told long ago (enqueueIntegrationNudge, drainIntegrationNudges).
ToldOnceInOrder ==
  /\ cursor \in 0..Len(log) /\ Len(log) <= MaxEvents
  /\ heard \o inbox = RepeatsLeftOut(lines)
===============================================================================
