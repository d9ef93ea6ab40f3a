-------------------------------- MODULE Nudge ---------------------------------
(* Nudges (internal/launcher: nudge.go, inject.go, pty.go): a launcher polls    *)
(* the daemon for events and types a line about them into the agent's terminal, *)
(* which the user types into as well.  A poll hands its events to a delivering  *)
(* goroutine that lives while there are any; it waits until the user is quiet,  *)
(* and holds the terminal's lock from the body of the line to its Enter.        *)
EXTENDS Naturals, Sequences, FiniteSets

CONSTANTS
  MaxEvents,   \* bound: events
  Mute,        \* events of a kind there is no line for
  Deliverers,  \* goroutines, of which one should do
  MaxKeys,     \* bound: keys typed
  Nobody

Events == 1..MaxEvents

ASSUME NudgeAssumption ==
  /\ MaxEvents \in Nat \ {0} /\ MaxKeys \in Nat
  /\ Mute \subseteq Events /\ Nobody \notin Deliverers

VARIABLES
  child,               \* the agent: up, exited, or its terminal closed
  quiet, typed, keys,  \* inputActivity; a key read and not yet written; keys so far
  polled,              \* events 1..polled have been polled
  pending, delivering, \* nudgeDeliveryState
  deliverer, batch,    \* per goroutine: where it is, and what it has taken
  tty,                 \* who holds the terminal's lock
  input,               \* what the agent has been given to read
  audited              \* events audited as delivered

nudgeVars ==
  <<child, quiet, typed, keys, polled, pending, delivering, deliverer, batch, tty, input,
    audited>>

Elements(s) == {s[i] : i \in DOMAIN s}
Item(w, b) == [what |-> w, batch |-> b]

NudgeTypeOK ==
  /\ child \in {"up", "exited", "closed"}
  /\ {quiet, typed, delivering} \subseteq BOOLEAN
  /\ keys \in 0..MaxKeys /\ polled \in 0..MaxEvents
  /\ pending \in Seq(Events) /\ audited \subseteq Events
  /\ deliverer \in [Deliverers -> {"none", "quiet", "take", "lock", "submit"}]
  /\ batch \in [Deliverers -> Seq(Events)]
  /\ tty \in Deliverers \cup {Nobody}
  /\ input \in Seq([what : {"key", "body", "enter"}, batch : Seq(Events)])

NudgeInit ==
  /\ child = "up" /\ quiet = TRUE /\ typed = FALSE /\ keys = 0
  /\ polled = 0 /\ pending = <<>> /\ delivering = FALSE
  /\ deliverer = [g \in Deliverers |-> "none"] /\ batch = [g \in Deliverers |-> <<>>]
  /\ tty = Nobody /\ input = <<>> /\ audited = {}

deliveryVars == <<polled, pending, delivering, deliverer, batch, audited>>

-----------------------------------------------------------------------------
(* The terminal.                                                                *)

\* Reading a key marks the activity; it is written later, under the lock.
UserTypes ==
  /\ ~typed /\ keys < MaxKeys
  /\ typed' = TRUE /\ keys' = keys + 1 /\ quiet' = FALSE
  /\ UNCHANGED <<child, tty, input, deliveryVars>>

\* What is written once the agent has ended is read by nobody.
Write(w, b) == input' = IF child = "up" THEN Append(input, Item(w, b)) ELSE input

RelayKey ==
  /\ typed /\ tty = Nobody
  /\ typed' = FALSE
  /\ Write("key", <<>>)
  /\ UNCHANGED <<child, quiet, keys, tty, deliveryVars>>

\* The quiet period passes without a key.
FallsQuiet ==
  /\ ~quiet
  /\ quiet' = TRUE
  /\ UNCHANGED <<child, typed, keys, tty, input, deliveryVars>>

ChildEnds ==
  /\ child # "closed"
  /\ child' = IF child = "up" THEN "exited" ELSE "closed"
  /\ UNCHANGED <<quiet, typed, keys, tty, input, deliveryVars>>

-----------------------------------------------------------------------------
(* Delivery.                                                                    *)

EnqueueNudges(new) ==
  /\ pending' = pending \o new
  /\ delivering' = TRUE
  /\ IF delivering THEN UNCHANGED deliverer
     ELSE \E g \in Deliverers :
            deliverer[g] = "none" /\ deliverer' = [deliverer EXCEPT ![g] = "quiet"]

PollOnce ==
  /\ child # "closed"
  /\ \E n \in (polled + 1)..MaxEvents :
       /\ EnqueueNudges([i \in 1..(n - polled) |-> polled + i])
       /\ polled' = n
  /\ UNCHANGED <<child, quiet, typed, keys, batch, tty, input, audited>>

\* A wait that is cancelled leaves what is pending.
WaitQuiet(g) ==
  /\ deliverer[g] = "quiet"
  /\ \/ quiet /\ deliverer' = [deliverer EXCEPT ![g] = "take"] /\ UNCHANGED delivering
     \/ /\ ~quiet /\ child = "closed"
        /\ deliverer' = [deliverer EXCEPT ![g] = "none"] /\ delivering' = FALSE
  /\ UNCHANGED <<child, quiet, typed, keys, polled, pending, batch, tty, input, audited>>

\* There is no text for the batch.
Untold(events) == events # <<>> /\ Elements(events) \subseteq Mute

\* Fault: a goroutine that finds nothing ends, and does not say so.
TakeBatchForgets(g) ==
  /\ deliverer[g] = "take"
  /\ pending' = <<>> /\ UNCHANGED delivering
  /\ batch' = [batch EXCEPT ![g] = pending]
  /\ deliverer' = [deliverer EXCEPT ![g] = CASE pending = <<>> -> "none"
                                              [] Untold(pending) -> "quiet"
                                              [] OTHER -> "lock"]
  /\ UNCHANGED <<child, quiet, typed, keys, polled, tty, input, audited>>

\* In one critical section: take what is pending, or end.
TakeBatch(g) ==
  /\ deliverer[g] = "take"
  /\ pending' = <<>> /\ delivering' = (pending # <<>>)
  /\ batch' = [batch EXCEPT ![g] = pending]
  /\ deliverer' = [deliverer EXCEPT ![g] = CASE pending = <<>> -> "none"
                                              [] Untold(pending) -> "quiet"
                                              [] OTHER -> "lock"]
  /\ UNCHANGED <<child, quiet, typed, keys, polled, tty, input, audited>>

\* A write to a terminal nobody has open may fail; the batch is not tried again.
WriteFails(g) ==
  /\ child # "up"
  /\ deliverer[g] \in {"lock", "submit"} /\ tty \in {Nobody, g}
  /\ tty' = Nobody
  /\ deliverer' = [deliverer EXCEPT ![g] = "quiet"]
  /\ UNCHANGED <<child, quiet, typed, keys, polled, pending, delivering, batch, input, audited>>

\* Fault: the lock is taken for each write on its own.
WriteBodyUnlocks(g) ==
  /\ deliverer[g] = "lock" /\ tty = Nobody /\ child # "closed"
  /\ UNCHANGED tty
  /\ Write("body", batch[g])
  /\ deliverer' = [deliverer EXCEPT ![g] = "submit"]
  /\ UNCHANGED <<child, quiet, typed, keys, polled, pending, delivering, batch, audited>>

WriteBody(g) ==
  /\ deliverer[g] = "lock" /\ tty = Nobody /\ child # "closed"
  /\ tty' = g
  /\ Write("body", batch[g])
  /\ deliverer' = [deliverer EXCEPT ![g] = "submit"]
  /\ UNCHANGED <<child, quiet, typed, keys, polled, pending, delivering, batch, audited>>

\* The Enter goes out a quarter of a second after the body.
Submit(g) ==
  /\ deliverer[g] = "submit" /\ child # "closed"
  /\ tty' = Nobody
  /\ Write("enter", <<>>)
  /\ audited' = audited \cup Elements(batch[g])
  /\ deliverer' = [deliverer EXCEPT ![g] = "quiet"]
  /\ UNCHANGED <<child, quiet, typed, keys, polled, pending, delivering, batch>>

-----------------------------------------------------------------------------

Delivery(g) == WaitQuiet(g) \/ TakeBatch(g) \/ WriteBody(g) \/ WriteFails(g) \/ Submit(g)

NudgeNext ==
  \/ UserTypes \/ RelayKey \/ FallsQuiet \/ ChildEnds \/ PollOnce
  \/ \E g \in Deliverers : Delivery(g)

\* A user who does not type falls quiet; nobody need type, and polls may find nothing.
NudgeFairness ==
  /\ WF_nudgeVars(RelayKey) /\ WF_nudgeVars(FallsQuiet)
  /\ \A g \in Deliverers : WF_nudgeVars(Delivery(g))

NudgeSpec == NudgeInit /\ [][NudgeNext]_nudgeVars /\ NudgeFairness

-----------------------------------------------------------------------------

Bodies == {i \in DOMAIN input : input[i].what = "body"}

\* No key gets between a line and its Enter, no event is told twice or after a later one, and
\* what is audited was submitted (ptyInjector.Inject against the relay of the user's keys).
NudgesWhole ==
  /\ \A i \in Bodies : i < Len(input) => input[i + 1].what = "enter"
  /\ \A i, j \in Bodies : i < j =>
       \A d \in Elements(input[i].batch), e \in Elements(input[j].batch) : d < e
  /\ child = "up" =>
       \A e \in audited : \E i \in Bodies : i < Len(input) /\ e \in Elements(input[i].batch)

\* Types, what is written, and that one goroutine delivers at a time, which `delivering` tells,
\* whatever polls and deliveries overlap (enqueue, deliver).
NudgeInv ==
  /\ NudgeTypeOK /\ NudgesWhole
  /\ Cardinality({g \in Deliverers : deliverer[g] # "none"}) = IF delivering THEN 1 ELSE 0

\* An event that was polled reaches the agent, if the agent lives: none is left behind by a
\* goroutine that ends as it is handed over (enqueue against deliver's last look).
NudgesArrive ==
  \A e \in Events \ Mute : (polled >= e) ~> (e \in audited \/ child # "up")
==============================================================================
