----------------------------- MODULE ServicesProofs ---------------------------
(* Theorems about what runs beside the daemon, for any number of connections,   *)
(* frames, events and keys and any size of queues and pipes: the nudges that a  *)
(* launcher delivers, and the tunnel that brings a container to the daemon.     *)
EXTENDS CoopRelay, Nudge, FiniteSetTheorems, TLAPS

-----------------------------------------------------------------------------
(* Nudges: a line and its Enter stay together, and each event is told once, in  *)
(* its turn.                                                                    *)

LEMMA ElementsOfNone == Elements(<<>>) = {}
  BY DEF Elements

LEMMA ElementsTyped ==
  ASSUME NEW S, NEW s \in Seq(S)
  PROVE  Elements(s) \subseteq S
  BY DEF Elements

LEMMA ElementsOfBoth ==
  ASSUME NEW S, NEW s \in Seq(S), NEW t \in Seq(S)
  PROVE  Elements(s \o t) \subseteq Elements(s) \cup Elements(t)
  <1> SUFFICES ASSUME NEW i \in DOMAIN (s \o t)
               PROVE  (s \o t)[i] \in Elements(s) \cup Elements(t)
    BY DEF Elements
  <1>1. i \in 1..(Len(s) + Len(t)) /\ Len(s) \in Nat /\ Len(t) \in Nat
    OBVIOUS
  <1>2. CASE i <= Len(s)
    <2>1. i \in DOMAIN s /\ (s \o t)[i] = s[i]
      BY <1>1, <1>2
    <2> QED BY <2>1 DEF Elements
  <1>3. CASE i > Len(s)
    <2>1. i - Len(s) \in DOMAIN t /\ (s \o t)[i] = t[i - Len(s)]
      BY <1>1, <1>3
    <2> QED BY <2>1 DEF Elements
  <1> QED BY <1>1, <1>2, <1>3

\* One goroutine delivers at a time, if `delivering` says so.
OneDelivers ==
  /\ delivering <=> \E g \in Deliverers : deliverer[g] # "none"
  /\ \A g, h \in Deliverers : deliverer[g] # "none" /\ deliverer[h] # "none" => g = h

\* The lock is held between a line and its Enter, and then only.
Locked == \A g \in Deliverers : deliverer[g] = "submit" <=> tty = g

\* What was typed into the terminal last, while the agent reads it.
Unfinished ==
  child = "up" =>
    /\ \A g \in Deliverers : deliverer[g] = "submit" =>
         Len(input) > 0 /\ input[Len(input)] = Item("body", batch[g])
    /\ Len(input) > 0 /\ input[Len(input)].what = "body" => tty # Nobody

EnterNext == \A i \in Bodies : i < Len(input) => input[i + 1].what = "enter"

\* Events come in their order: those told, those about to be, those pending.
Turn(e) ==
  /\ e <= polled /\ \A d \in Elements(pending) : e < d
InTurn ==
  /\ \A e \in Elements(pending) : e <= polled
  /\ \A g \in Deliverers : deliverer[g] = "lock" => \A e \in Elements(batch[g]) : Turn(e)
  /\ \A i \in Bodies : \A e \in Elements(input[i].batch) :
       /\ Turn(e)
       /\ \A g \in Deliverers : deliverer[g] = "lock" => \A d \in Elements(batch[g]) : e < d

ToldInTurn ==
  \A i, j \in Bodies : i < j =>
    \A d \in Elements(input[i].batch), e \in Elements(input[j].batch) : d < e

AuditedWritten ==
  child = "up" =>
    \A e \in audited : \E i \in Bodies : i < Len(input) /\ e \in Elements(input[i].batch)

DeliveryInv ==
  /\ NudgeTypeOK /\ OneDelivers /\ Locked /\ Unfinished
  /\ EnterNext /\ InTurn /\ ToldInTurn /\ AuditedWritten

LEMMA NudgeInitially == NudgeInit => DeliveryInv
  <1> SUFFICES ASSUME NudgeInit PROVE DeliveryInv
    OBVIOUS
  <1>1. input = <<>> /\ pending = <<>> /\ audited = {} /\ Bodies = {} /\ Elements(pending) = {}
    BY ElementsOfNone DEF NudgeInit, Bodies
  <1>2. NudgeTypeOK
    <2>1. <<>> \in Seq(Events) /\ 0 \in 0..MaxKeys /\ 0 \in 0..MaxEvents
          /\ <<>> \in Seq([what : {"key", "body", "enter"}, batch : Seq(Events)])
      BY NudgeAssumption
    <2>2. batch \in [Deliverers -> Seq(Events)]
          /\ deliverer \in [Deliverers -> {"none", "quiet", "take", "lock", "submit"}]
      BY <2>1 DEF NudgeInit
    <2>3. {quiet, typed, delivering} \subseteq BOOLEAN
      BY DEF NudgeInit
    <2> QED BY <2>1, <2>2, <2>3 DEF NudgeInit, NudgeTypeOK
  <1>3. OneDelivers /\ Locked /\ Unfinished
    BY NudgeAssumption DEF NudgeInit, OneDelivers, Locked, Unfinished
  <1>4. EnterNext /\ InTurn /\ ToldInTurn /\ AuditedWritten
    BY <1>1 DEF NudgeInit, EnterNext, InTurn, ToldInTurn, AuditedWritten
  <1> QED BY <1>2, <1>3, <1>4 DEF DeliveryInv

\* What is in the types, without the sets.
LEMMA NudgeTyped ==
  ASSUME NudgeTypeOK
  PROVE  /\ polled \in Nat /\ MaxEvents \in Nat /\ pending \in Seq(Events)
         /\ \A g \in Deliverers : batch[g] \in Seq(Events)
         /\ Len(input) \in Nat /\ DOMAIN input = 1..Len(input)
         /\ \A i \in 1..Len(input) : input[i].batch \in Seq(Events)
         /\ \A i \in Bodies : i \in Nat /\ Elements(input[i].batch) \subseteq Nat
         /\ \A s \in Seq(Events) : Elements(s) \subseteq Nat
  <1>1. \A s \in Seq(Events) : Elements(s) \subseteq Nat
    BY NudgeAssumption, ElementsTyped DEF Events
  <1>2. /\ polled \in Nat /\ MaxEvents \in Nat /\ pending \in Seq(Events)
        /\ \A g \in Deliverers : batch[g] \in Seq(Events)
    BY NudgeAssumption DEF NudgeTypeOK
  <1>3. /\ Len(input) \in Nat /\ DOMAIN input = 1..Len(input)
        /\ \A i \in 1..Len(input) : input[i].batch \in Seq(Events)
    <2> DEFINE Items == [what : {"key", "body", "enter"}, batch : Seq(Events)]
    <2>1. input \in Seq(Items) /\ \A x \in Items : x.batch \in Seq(Events)
      BY DEF NudgeTypeOK
    <2> HIDE DEF Items
    <2>2. /\ Len(input) \in Nat /\ DOMAIN input = 1..Len(input)
          /\ \A i \in 1..Len(input) : input[i] \in Items
      BY <2>1
    <2> QED BY <2>1, <2>2
  <1>4. \A i \in Bodies : i \in 1..Len(input)
    BY <1>3 DEF Bodies
  <1> QED BY <1>1, <1>2, <1>3, <1>4

\* What a write appends.
LEMMA InputGrows ==
  ASSUME NudgeTypeOK, NEW w \in {"key", "body", "enter"}, NEW b \in Seq(Events), Write(w, b)
  PROVE  /\ input' \in Seq([what : {"key", "body", "enter"}, batch : Seq(Events)])
         /\ child # "up" => input' = input
         /\ child = "up" =>
              /\ Len(input') = Len(input) + 1 /\ input'[Len(input)+1] = Item(w, b)
              /\ \A i \in 1..Len(input) : input'[i] = input[i]
              /\ Bodies' = IF w = "body" THEN Bodies \cup {Len(input) + 1} ELSE Bodies
  <1> DEFINE Items == [what : {"key", "body", "enter"}, batch : Seq(Events)]
  <1>1. Item(w, b) \in Items /\ Item(w, b).what = w
    BY DEF Item
  <1>2. input \in Seq(Items)
    BY DEF NudgeTypeOK
  <1>3. CASE child # "up"
    BY <1>2, <1>3 DEF Write
  <1>4. CASE child = "up"
    <2> HIDE DEF Items
    <2>1. input' = Append(input, Item(w, b))
      BY <1>4 DEF Write
    <2>2. /\ input' \in Seq(Items) /\ Len(input') = Len(input) + 1
          /\ input'[Len(input)+1] = Item(w, b)
          /\ \A i \in 1..Len(input) : input'[i] = input[i]
          /\ DOMAIN input' = (DOMAIN input) \cup {Len(input) + 1}
          /\ DOMAIN input = 1..Len(input) /\ Len(input) \in Nat
      BY <1>1, <1>2, <2>1
    <2>3. \A i : i \in Bodies' <=> i \in Bodies \/ (w = "body" /\ i = Len(input) + 1)
      BY <1>1, <2>2 DEF Bodies
    <2> QED BY <1>4, <2>2, <2>3 DEF Items
  <1> QED BY <1>3, <1>4

\* Whoever types something that is not a line, and is the only one who may.
LEMMA OtherWritten ==
  ASSUME DeliveryInv, NEW w \in {"key", "enter"}, Write(w, <<>>),
         child' = child, pending' = pending, polled' = polled, batch' = batch,
         \A g \in Deliverers : deliverer'[g] = "lock" => deliverer[g] = "lock",
         w = "enter" \/ tty = Nobody
  PROVE  /\ input' \in Seq([what : {"key", "body", "enter"}, batch : Seq(Events)])
         /\ EnterNext' /\ InTurn' /\ ToldInTurn'
         /\ child = "up" => Len(input') > 0 /\ input'[Len(input')].what = w
         /\ \A i \in Bodies : /\ i \in Bodies' /\ input'[i] = input[i]
                              /\ i < Len(input) => i < Len(input')
         /\ child = "up" => \A i \in Bodies : i < Len(input')
  <1>0. NudgeTypeOK /\ Len(input) \in Nat /\ <<>> \in Seq(Events)
        /\ \A i \in Bodies : i \in 1..Len(input)
    BY NudgeTyped DEF DeliveryInv, Bodies
  <1>1. /\ input' \in Seq([what : {"key", "body", "enter"}, batch : Seq(Events)])
        /\ child # "up" => input' = input
        /\ child = "up" =>
             /\ Len(input') = Len(input) + 1 /\ input'[Len(input)+1] = Item(w, <<>>)
             /\ \A i \in 1..Len(input) : input'[i] = input[i]
        /\ Bodies' = Bodies
    BY <1>0, InputGrows DEF Bodies
  <1>2. \A i \in Bodies : input'[i] = input[i] /\ (i < Len(input) => i < Len(input'))
    BY <1>0, <1>1
  <1>3. EnterNext'
    <2> SUFFICES ASSUME NEW i \in Bodies, i < Len(input') PROVE input'[i + 1].what = "enter"
      BY <1>1 DEF EnterNext
    <2>1. CASE i < Len(input)
      <3>1. i + 1 \in 1..Len(input)
        BY <1>0, <2>1
      <3>2. input'[i + 1] = input[i + 1]
        BY <1>1, <3>1
      <3> QED BY <2>1, <3>2 DEF DeliveryInv, EnterNext
    <2>2. CASE i >= Len(input)
      <3>1. child = "up" /\ i = Len(input) /\ input[i].what = "body" /\ Len(input) > 0
        BY <1>0, <1>1, <2>2 DEF Bodies
      <3>2. w = "enter"
        BY <3>1 DEF DeliveryInv, Unfinished
      <3> QED BY <1>1, <3>1, <3>2 DEF Item
    <2> QED BY <1>0, <2>1, <2>2
  <1>4. InTurn' /\ ToldInTurn'
    BY <1>1, <1>2 DEF DeliveryInv, InTurn, ToldInTurn, Turn
  <1>5. child = "up" => Len(input') > 0 /\ input'[Len(input')].what = w
                        /\ \A i \in Bodies : i < Len(input')
    BY <1>0, <1>1 DEF Item
  <1> QED BY <1>1, <1>2, <1>3, <1>4, <1>5

LEMMA RelayKeyStep ==
  ASSUME DeliveryInv, RelayKey
  PROVE  DeliveryInv'
  <1>1. /\ tty = Nobody /\ tty' = tty /\ child' = child /\ Write("key", <<>>)
        /\ UNCHANGED <<quiet, keys, deliveryVars>> /\ typed' = FALSE
    BY DEF RelayKey
  <1>2. UNCHANGED <<polled, pending, delivering, deliverer, batch, audited>>
    BY <1>1 DEF deliveryVars
  <1>3. /\ input' \in Seq([what : {"key", "body", "enter"}, batch : Seq(Events)])
        /\ EnterNext' /\ InTurn' /\ ToldInTurn'
        /\ child = "up" => Len(input') > 0 /\ input'[Len(input')].what = "key"
        /\ \A i \in Bodies : /\ i \in Bodies' /\ input'[i] = input[i]
                             /\ i < Len(input) => i < Len(input')
    BY <1>1, <1>2, OtherWritten
  <1>4. NudgeTypeOK'
    BY <1>1, <1>2, <1>3 DEF DeliveryInv, NudgeTypeOK
  <1>5. OneDelivers' /\ Locked'
    BY <1>1, <1>2 DEF DeliveryInv, OneDelivers, Locked
  <1>6. \A g \in Deliverers : deliverer[g] # "submit"
    BY <1>1, NudgeAssumption DEF DeliveryInv, Locked
  <1>7. Unfinished'
    BY <1>1, <1>2, <1>3, <1>6 DEF Unfinished
  <1>8. AuditedWritten'
    BY <1>1, <1>2, <1>3 DEF DeliveryInv, AuditedWritten
  <1> QED BY <1>3, <1>4, <1>5, <1>7, <1>8 DEF DeliveryInv

LEMMA SubmitStep ==
  ASSUME DeliveryInv, NEW g \in Deliverers, Submit(g)
  PROVE  DeliveryInv'
  <1>1. /\ deliverer[g] = "submit" /\ tty' = Nobody /\ child' = child /\ Write("enter", <<>>)
        /\ UNCHANGED <<quiet, typed, keys, polled, pending, delivering, batch>>
        /\ deliverer' = [deliverer EXCEPT ![g] = "quiet"]
        /\ audited' = audited \cup Elements(batch[g])
    BY DEF Submit
  <1>2. DOMAIN deliverer = Deliverers /\ tty = g
    BY <1>1 DEF DeliveryInv, NudgeTypeOK, Locked
  <1>3. /\ input' \in Seq([what : {"key", "body", "enter"}, batch : Seq(Events)])
        /\ EnterNext' /\ InTurn' /\ ToldInTurn'
        /\ child = "up" => Len(input') > 0 /\ input'[Len(input')].what = "enter"
        /\ \A i \in Bodies : /\ i \in Bodies' /\ input'[i] = input[i]
                             /\ i < Len(input) => i < Len(input')
        /\ child = "up" => \A i \in Bodies : i < Len(input')
    BY <1>1, <1>2, OtherWritten
  <1>4. NudgeTypeOK'
    <2>1. Elements(batch[g]) \subseteq Events
      BY ElementsTyped DEF DeliveryInv, NudgeTypeOK
    <2> QED BY <1>1, <1>3, <2>1 DEF DeliveryInv, NudgeTypeOK
  <1>5. OneDelivers' /\ Locked'
    BY <1>1, <1>2, NudgeAssumption DEF DeliveryInv, OneDelivers, Locked
  <1>6. \A h \in Deliverers : deliverer'[h] # "submit"
    BY <1>1, <1>2 DEF DeliveryInv, Locked
  <1>7. Unfinished'
    BY <1>1, <1>3, <1>6 DEF Unfinished
  <1>8. AuditedWritten'
    <2> SUFFICES ASSUME child = "up", NEW e \in audited'
                 PROVE  \E i \in Bodies' : i < Len(input') /\ e \in Elements(input'[i].batch)
      BY <1>1 DEF AuditedWritten
    <2>1. \E i \in Bodies : e \in Elements(input[i].batch)
      <3>1. CASE e \in audited
        BY <3>1 DEF DeliveryInv, AuditedWritten
      <3>2. CASE e \in Elements(batch[g])
        <4>1. Len(input) > 0 /\ input[Len(input)] = Item("body", batch[g])
          BY <1>1 DEF DeliveryInv, Unfinished
        <4>2. Len(input) \in DOMAIN input
          BY <4>1, NudgeTyped DEF DeliveryInv
        <4> QED BY <3>2, <4>1, <4>2 DEF Bodies, Item
      <3> QED BY <1>1, <3>1, <3>2
    <2> QED BY <1>3, <2>1
  <1> QED BY <1>3, <1>4, <1>5, <1>7, <1>8 DEF DeliveryInv

LEMMA WriteBodyStep ==
  ASSUME DeliveryInv, NEW g \in Deliverers, WriteBody(g)
  PROVE  DeliveryInv'
  <1>1. /\ deliverer[g] = "lock" /\ tty = Nobody /\ tty' = g /\ child' = child
        /\ Write("body", batch[g])
        /\ UNCHANGED <<quiet, typed, keys, polled, pending, delivering, batch, audited>>
        /\ deliverer' = [deliverer EXCEPT ![g] = "submit"]
    BY DEF WriteBody
  <1>2. /\ NudgeTypeOK /\ DOMAIN deliverer = Deliverers /\ batch[g] \in Seq(Events)
        /\ Len(input) \in Nat /\ \A i \in Bodies : i \in 1..Len(input)
    BY NudgeTyped DEF DeliveryInv, NudgeTypeOK, Bodies
  <1>3. /\ input' \in Seq([what : {"key", "body", "enter"}, batch : Seq(Events)])
        /\ child # "up" => input' = input
        /\ child = "up" =>
             /\ Len(input') = Len(input) + 1
             /\ input'[Len(input)+1] = Item("body", batch[g])
             /\ \A i \in 1..Len(input) : input'[i] = input[i]
             /\ Bodies' = Bodies \cup {Len(input) + 1}
    BY <1>1, <1>2, InputGrows
  <1>4. NudgeTypeOK'
    BY <1>1, <1>3 DEF DeliveryInv, NudgeTypeOK
  <1>5. OneDelivers' /\ Locked'
    BY <1>1, <1>2, NudgeAssumption DEF DeliveryInv, OneDelivers, Locked
  <1>6. \A h \in Deliverers : deliverer'[h] # "lock"
    BY <1>1, <1>2 DEF DeliveryInv, OneDelivers
  <1>7. Unfinished'
    <2>1. \A h \in Deliverers : deliverer'[h] = "submit" => h = g
      BY <1>5, <1>1 DEF Locked
    <2> QED BY <1>1, <1>2, <1>3, <2>1, NudgeAssumption DEF Unfinished
  <1>8. CASE child # "up"
    <2>1. input' = input
      BY <1>3, <1>8
    <2>2. EnterNext' /\ ToldInTurn' /\ AuditedWritten' /\ InTurn'
      BY <1>1, <1>6, <1>8, <2>1
      DEF DeliveryInv, EnterNext, ToldInTurn, AuditedWritten, InTurn, Turn, Bodies
    <2> QED BY <1>4, <1>5, <1>7, <2>2 DEF DeliveryInv
  <1>9. CASE child = "up"
    <2>1. \A i \in Bodies : input'[i] = input[i] /\ i < Len(input')
      BY <1>2, <1>3, <1>9
    <2>2. Len(input) \notin Bodies
      BY <1>1, <1>2, <1>9 DEF DeliveryInv, Unfinished, Bodies
    <2>3. EnterNext'
      <3> SUFFICES ASSUME NEW i \in Bodies', i < Len(input')
                   PROVE  input'[i + 1].what = "enter"
        BY DEF EnterNext
      <3>1. i \in Bodies /\ i < Len(input) /\ i + 1 \in 1..Len(input)
        BY <1>2, <1>3, <1>9, <2>2
      <3> QED BY <1>3, <1>9, <3>1 DEF DeliveryInv, EnterNext
    <2>4. input'[Len(input) + 1].batch = batch[g]
      BY <1>3, <1>9 DEF Item
    <2>5. InTurn'
      <3>1. \A i \in Bodies' : \A e \in Elements(input'[i].batch) : Turn(e)
        <4>1. \A i \in Bodies : \A e \in Elements(input'[i].batch) : Turn(e)
          BY <2>1 DEF DeliveryInv, InTurn
        <4>2. \A e \in Elements(batch[g]) : Turn(e)
          BY <1>1 DEF DeliveryInv, InTurn
        <4> QED BY <1>3, <1>9, <2>4, <4>1, <4>2
      <3>2. \A e \in Elements(pending) : e <= polled
        BY DEF DeliveryInv, InTurn
      <3> QED BY <1>1, <1>6, <3>1, <3>2 DEF InTurn, Turn
    <2>6. ToldInTurn'
      <3> SUFFICES ASSUME NEW i \in Bodies', NEW j \in Bodies', i < j,
                          NEW d \in Elements(input'[i].batch),
                          NEW e \in Elements(input'[j].batch)
                   PROVE  d < e
        BY DEF ToldInTurn
      <3>1. i \in Bodies
        BY <1>2, <1>3, <1>9
      <3>2. CASE j \in Bodies
        BY <2>1, <3>1, <3>2 DEF DeliveryInv, ToldInTurn
      <3>3. CASE j = Len(input) + 1
        BY <1>1, <2>1, <2>4, <3>1, <3>3 DEF DeliveryInv, InTurn
      <3> QED BY <1>3, <1>9, <3>2, <3>3
    <2>7. AuditedWritten'
      BY <1>1, <1>3, <1>9, <2>1 DEF DeliveryInv, AuditedWritten
    <2> QED BY <1>4, <1>5, <1>7, <2>3, <2>5, <2>6, <2>7 DEF DeliveryInv
  <1> QED BY <1>8, <1>9
LEMMA TerminalStep ==
  ASSUME DeliveryInv, UserTypes \/ FallsQuiet \/ ChildEnds
  PROVE  DeliveryInv'
  <1>1. /\ UNCHANGED <<tty, input, polled, pending, delivering, deliverer, batch, audited>>
        /\ typed' \in BOOLEAN /\ quiet' \in BOOLEAN /\ keys' \in 0..MaxKeys
        /\ child' \in {"up", "exited", "closed"} /\ (child' = "up" => child = "up")
    <2>1. /\ typed \in BOOLEAN /\ quiet \in BOOLEAN /\ keys \in 0..MaxKeys
          /\ child \in {"up", "exited", "closed"}
      BY DEF DeliveryInv, NudgeTypeOK
    <2>2. keys < MaxKeys => keys + 1 \in 0..MaxKeys
      BY <2>1, NudgeAssumption
    <2>3. CASE UserTypes
      BY <2>1, <2>2, <2>3 DEF UserTypes, deliveryVars
    <2>4. CASE FallsQuiet
      BY <2>1, <2>4 DEF FallsQuiet, deliveryVars
    <2>5. CASE ChildEnds
      BY <2>1, <2>5 DEF ChildEnds, deliveryVars
    <2> QED BY <2>3, <2>4, <2>5
  <1>2. NudgeTypeOK'
    BY <1>1 DEF DeliveryInv, NudgeTypeOK
  <1>3. OneDelivers' /\ Locked' /\ Unfinished'
    BY <1>1 DEF DeliveryInv, OneDelivers, Locked, Unfinished
  <1>4. EnterNext' /\ InTurn' /\ ToldInTurn' /\ AuditedWritten'
    BY <1>1 DEF DeliveryInv, EnterNext, InTurn, ToldInTurn, AuditedWritten, Bodies, Turn
  <1> QED BY <1>2, <1>3, <1>4 DEF DeliveryInv

LEMMA PollStep ==
  ASSUME DeliveryInv, PollOnce
  PROVE  DeliveryInv'
  <1>1. PICK n \in (polled + 1)..MaxEvents :
          /\ EnqueueNudges([i \in 1..(n - polled) |-> polled + i]) /\ polled' = n
    BY DEF PollOnce
  <1> DEFINE new == [i \in 1..(n - polled) |-> polled + i]
  <1>2. UNCHANGED <<child, quiet, typed, keys, batch, tty, input, audited>>
    BY DEF PollOnce
  <1>3. polled \in Nat /\ n \in Nat /\ n <= MaxEvents /\ polled < n /\ MaxEvents \in Nat
        /\ pending \in Seq(Events)
    BY NudgeTyped DEF DeliveryInv
  <1>4. new \in Seq(Events) /\ \A e \in Elements(new) : e \in Nat /\ e > polled /\ e <= n
    <2>1. n - polled \in Nat /\ \A i \in 1..(n - polled) : polled + i \in Events
      BY <1>3 DEF Events
    <2>2. new \in Seq(Events)
      BY <2>1
    <2> QED BY <1>3, <2>2 DEF Elements
  <1> HIDE DEF new
  <1>5. /\ pending' = pending \o new /\ delivering' = TRUE
        /\ IF delivering THEN UNCHANGED deliverer
           ELSE \E g \in Deliverers :
                  deliverer[g] = "none" /\ deliverer' = [deliverer EXCEPT ![g] = "quiet"]
    BY <1>1 DEF EnqueueNudges, new
  <1>6. pending' \in Seq(Events) /\ Elements(pending') \subseteq Elements(pending) \cup Elements(new)
    BY <1>3, <1>4, <1>5, ElementsOfBoth
  <1>7. /\ deliverer' \in [Deliverers -> {"none", "quiet", "take", "lock", "submit"}]
        /\ \A h \in Deliverers : \A at \in {"lock", "submit"} :
             deliverer'[h] = at <=> deliverer[h] = at
        /\ OneDelivers'
    <2>0. DOMAIN deliverer = Deliverers
          /\ deliverer \in [Deliverers -> {"none", "quiet", "take", "lock", "submit"}]
      BY DEF DeliveryInv, NudgeTypeOK
    <2>1. CASE delivering
      BY <1>5, <2>0, <2>1 DEF DeliveryInv, OneDelivers
    <2>2. CASE ~delivering
      <3>1. PICK g \in Deliverers :
              deliverer[g] = "none" /\ deliverer' = [deliverer EXCEPT ![g] = "quiet"]
        BY <1>5, <2>2
      <3>2. \A h \in Deliverers : deliverer[h] = "none"
        BY <2>2 DEF DeliveryInv, OneDelivers
      <3> QED BY <1>5, <2>0, <3>1, <3>2 DEF OneDelivers
    <2> QED BY <2>1, <2>2
  <1>8. NudgeTypeOK'
    BY <1>1, <1>2, <1>3, <1>5, <1>6, <1>7 DEF DeliveryInv, NudgeTypeOK
  <1>9. Locked' /\ Unfinished'
    BY <1>2, <1>7 DEF DeliveryInv, Locked, Unfinished
  <1>10. \A e \in Nat : Turn(e) => Turn(e)'
    BY <1>1, <1>3, <1>4, <1>6 DEF Turn
  <1>11. InTurn'
    <2>1. \A e \in Elements(pending') : e <= polled'
      <3>1. Elements(pending) \subseteq Nat
        BY NudgeTyped DEF DeliveryInv
      <3> QED BY <1>1, <1>3, <1>4, <1>6, <3>1 DEF DeliveryInv, InTurn
    <2>2. \A g \in Deliverers : deliverer'[g] = "lock" => \A e \in Elements(batch'[g]) : Turn(e)'
      <3>1. \A g \in Deliverers : Elements(batch[g]) \subseteq Nat
        BY NudgeTyped DEF DeliveryInv
      <3> QED BY <1>2, <1>7, <1>10, <3>1 DEF DeliveryInv, InTurn
    <2>3. \A i \in Bodies' : \A e \in Elements(input'[i].batch) :
            /\ Turn(e)'
            /\ \A g \in Deliverers : deliverer'[g] = "lock" =>
                 \A d \in Elements(batch'[g]) : e < d
      <3>1. \A i \in Bodies : Elements(input[i].batch) \subseteq Nat
        BY NudgeTyped DEF DeliveryInv
      <3> QED BY <1>2, <1>7, <1>10, <3>1 DEF DeliveryInv, InTurn, Bodies
    <2> QED BY <2>1, <2>2, <2>3 DEF InTurn
  <1>12. EnterNext' /\ ToldInTurn' /\ AuditedWritten'
    BY <1>2 DEF DeliveryInv, EnterNext, ToldInTurn, AuditedWritten, Bodies
  <1> QED BY <1>7, <1>8, <1>9, <1>11, <1>12 DEF DeliveryInv

LEMMA WaitQuietStep ==
  ASSUME DeliveryInv, NEW g \in Deliverers, WaitQuiet(g) \/ WriteFails(g)
  PROVE  DeliveryInv'
  <1>1. /\ UNCHANGED <<child, quiet, typed, keys, polled, pending, batch, input, audited>>
        /\ deliverer[g] # "none"
        /\ \/ /\ deliverer[g] = "quiet" /\ UNCHANGED <<tty, delivering>>
              /\ deliverer' = [deliverer EXCEPT ![g] = "take"]
           \/ /\ deliverer[g] = "quiet" /\ UNCHANGED tty /\ delivering' = FALSE
              /\ deliverer' = [deliverer EXCEPT ![g] = "none"]
           \/ /\ child # "up" /\ deliverer[g] \in {"lock", "submit"} /\ tty \in {Nobody, g}
              /\ tty' = Nobody /\ UNCHANGED delivering
              /\ deliverer' = [deliverer EXCEPT ![g] = "quiet"]
    BY DEF WaitQuiet, WriteFails
  <1>2. /\ DOMAIN deliverer = Deliverers /\ delivering
        /\ deliverer \in [Deliverers -> {"none", "quiet", "take", "lock", "submit"}]
    BY <1>1 DEF DeliveryInv, NudgeTypeOK, OneDelivers
  <1>3. \A h \in Deliverers : /\ deliverer'[h] = "lock" => deliverer[h] = "lock"
                              /\ deliverer'[h] = "submit" => deliverer[h] = "submit" /\ h # g
                              /\ h # g => deliverer'[h] = "none"
    <2>1. \A h \in Deliverers : h # g => deliverer[h] = "none"
      BY <1>1 DEF DeliveryInv, OneDelivers
    <2> QED BY <1>1, <1>2, <2>1
  <1>4. NudgeTypeOK'
    BY <1>1, <1>2 DEF DeliveryInv, NudgeTypeOK
  <1>5. OneDelivers'
    BY <1>1, <1>2, <1>3 DEF OneDelivers
  <1>6. Locked'
    <2>1. tty' \notin Deliverers
      BY <1>1, <1>3, NudgeAssumption DEF DeliveryInv, NudgeTypeOK, Locked, OneDelivers
    <2> QED BY <1>3, <2>1 DEF Locked, DeliveryInv, OneDelivers
  <1>7. Unfinished'
    <2> SUFFICES ASSUME child' = "up"
                 PROVE  Unfinished'
      BY DEF Unfinished
    <2>1. UNCHANGED tty
      BY <1>1
    <2> QED BY <1>1, <1>3, <2>1 DEF DeliveryInv, Unfinished
  <1>8. EnterNext' /\ InTurn' /\ ToldInTurn' /\ AuditedWritten'
    BY <1>1, <1>3 DEF DeliveryInv, EnterNext, InTurn, ToldInTurn, AuditedWritten, Bodies, Turn
  <1> QED BY <1>4, <1>5, <1>6, <1>7, <1>8 DEF DeliveryInv

LEMMA TakeBatchStep ==
  ASSUME DeliveryInv, NEW g \in Deliverers, TakeBatch(g)
  PROVE  DeliveryInv'
  <1>1. /\ deliverer[g] = "take" /\ pending' = <<>> /\ delivering' = (pending # <<>>)
        /\ batch' = [batch EXCEPT ![g] = pending]
        /\ UNCHANGED <<child, quiet, typed, keys, polled, tty, input, audited>>
    BY DEF TakeBatch
  <1>2. PICK at \in {"none", "quiet", "lock"} :
          /\ deliverer' = [deliverer EXCEPT ![g] = at]
          /\ at = "none" <=> pending = <<>>
    <2> DEFINE next == CASE pending = <<>> -> "none"
                         [] Untold(pending) -> "quiet"
                         [] OTHER -> "lock"
    <2>1. deliverer' = [deliverer EXCEPT ![g] = next]
      BY DEF TakeBatch
    <2>2. CASE pending = <<>>
      BY <2>1, <2>2 DEF Untold
    <2>3. CASE pending # <<>> /\ Untold(pending)
      BY <2>1, <2>3
    <2>4. CASE pending # <<>> /\ ~Untold(pending)
      BY <2>1, <2>4
    <2> QED BY <2>2, <2>3, <2>4
  <1>3. /\ DOMAIN deliverer = Deliverers /\ DOMAIN batch = Deliverers
        /\ pending \in Seq(Events) /\ Elements(pending') = {}
    BY <1>1, ElementsOfNone DEF DeliveryInv, NudgeTypeOK
  <1>4. \A h \in Deliverers : h # g => deliverer[h] = "none"
    BY <1>1 DEF DeliveryInv, OneDelivers
  <1>5. NudgeTypeOK'
    <2>1. pending' \in Seq(Events) /\ delivering' \in BOOLEAN
      BY <1>1
    <2> QED BY <1>1, <1>2, <1>3, <2>1 DEF DeliveryInv, NudgeTypeOK
  <1>6. OneDelivers' /\ Locked'
    BY <1>1, <1>2, <1>3, <1>4 DEF DeliveryInv, OneDelivers, Locked
  <1>7. Unfinished'
    BY <1>1, <1>2, <1>3, <1>4 DEF DeliveryInv, Unfinished
  <1>8. InTurn'
    <2>1. \A h \in Deliverers : deliverer'[h] = "lock" => batch'[h] = pending
      BY <1>1, <1>2, <1>3, <1>4
    <2>2. \A i \in Bodies' : input'[i] = input[i] /\ i \in Bodies
      BY <1>1 DEF Bodies
    <2> QED BY <1>1, <1>3, <2>1, <2>2 DEF DeliveryInv, InTurn, Turn
  <1>9. EnterNext' /\ ToldInTurn' /\ AuditedWritten'
    BY <1>1 DEF DeliveryInv, EnterNext, ToldInTurn, AuditedWritten, Bodies
  <1> QED BY <1>5, <1>6, <1>7, <1>8, <1>9 DEF DeliveryInv

LEMMA DeliveryInvStep == DeliveryInv /\ [NudgeNext]_nudgeVars => DeliveryInv'
  <1> SUFFICES ASSUME DeliveryInv, [NudgeNext]_nudgeVars PROVE DeliveryInv'
    OBVIOUS
  <1>1. CASE NudgeNext
    BY <1>1, TerminalStep, RelayKeyStep, PollStep, WaitQuietStep, TakeBatchStep, WriteBodyStep,
       SubmitStep DEF NudgeNext, Delivery
  <1>2. CASE UNCHANGED nudgeVars
    BY <1>2 DEF nudgeVars, DeliveryInv, NudgeTypeOK, OneDelivers, Locked, Unfinished, EnterNext,
                InTurn, ToldInTurn, AuditedWritten, Turn, Bodies
  <1> QED BY <1>1, <1>2

\* Whatever polls, deliveries, keys and the agent's end overlap: no key gets between a line
\* and its Enter, no event is told twice or after a later one, what is audited was submitted,
\* and `delivering` tells whether there is a goroutine that delivers, of which there is never
\* more than one (DeliveryInv: events told, about to be and pending are in their order, and
\* the lock is held from a line to its Enter).
THEOREM NudgesDelivered == NudgeSpec => []NudgeInv
  <1>1. DeliveryInv => NudgeInv
    <2> SUFFICES ASSUME DeliveryInv PROVE NudgeInv
      OBVIOUS
    <2> DEFINE active == {g \in Deliverers : deliverer[g] # "none"}
    <2>1. Cardinality(active) = IF delivering THEN 1 ELSE 0
      <3>1. CASE delivering
        <4>1. PICK g \in Deliverers : deliverer[g] # "none"
          BY <3>1 DEF DeliveryInv, OneDelivers
        <4>2. active = {g}
          BY <4>1 DEF DeliveryInv, OneDelivers
        <4> QED BY <3>1, <4>2, FS_Singleton
      <3>2. CASE ~delivering
        <4>1. active = {}
          BY <3>2 DEF DeliveryInv, OneDelivers
        <4> QED BY <3>2, <4>1, FS_EmptySet
      <3> QED BY <3>1, <3>2
    <2>2. NudgesWhole
      BY DEF DeliveryInv, EnterNext, ToldInTurn, AuditedWritten, NudgesWhole
    <2> QED BY <2>1, <2>2 DEF NudgeInv, DeliveryInv
  <1> QED BY <1>1, NudgeInitially, DeliveryInvStep, PTL DEF NudgeSpec

-----------------------------------------------------------------------------
(* The tunnel: what each socket is given is what was read from the other, in    *)
(* order and without a gap.  First of a pipe and of what one stream has in it.  *)

OpenFrame(f, s) == f.t = "open" /\ f.id = s
DataFrame(f, s) == f.t = "data" /\ f.id = s

HasOpen(w, s) == \E i \in 1..Len(w) : OpenFrame(w[i], s)
NoData(w, s) == \A i \in 1..Len(w) : ~DataFrame(w[i], s)

\* There is one OPEN of a stream, and it comes before its data.
OneOpen(w, s) ==
  \A i, j \in 1..Len(w) : OpenFrame(w[i], s) =>
    /\ OpenFrame(w[j], s) => i = j
    /\ DataFrame(w[j], s) => i < j

\* Of a stream so many reads were taken from the pipe, and so many were made: what is in
\* the pipe is the next ones, and, unless some got lost, all up to the last.
InStep(taken, made, w, s) ==
  /\ taken <= made
  /\ \A i \in 1..Len(w) : DataFrame(w[i], s) =>
       /\ taken < w[i].n /\ w[i].n <= made
       /\ \/ w[i].n = taken + 1
          \/ \E j \in 1..Len(w) : j < i /\ DataFrame(w[j], s) /\ w[j].n = w[i].n - 1
       /\ \A j \in 1..Len(w) : i < j /\ DataFrame(w[j], s) => w[i].n < w[j].n

Complete(taken, made, w, s) ==
  taken = made \/ \E i \in 1..Len(w) : DataFrame(w[i], s) /\ w[i].n = made

LEMMA FrameNumber == \A f \in Frames, s \in Streams : DataFrame(f, s) => f.n \in 1..MaxData
  BY DEF Frames, DataFrame

LEMMA BoundsOfN == N \in Nat /\ MaxData \in Nat /\ QueueCap \in Nat /\ WireCap \in Nat /\ QueueCap > 0
  BY CoopAssumption

LEMMA WireTyped ==
  ASSUME NEW w \in Seq(Frames)
  PROVE  /\ Len(w) \in Nat /\ \A i \in 1..Len(w) : w[i] \in Frames
         /\ \A s \in Streams, i \in 1..Len(w) : DataFrame(w[i], s) => w[i].n \in Nat
  <1>1. Len(w) \in Nat /\ \A i \in 1..Len(w) : w[i] \in Frames
    OBVIOUS
  <1> QED BY <1>1, FrameNumber, BoundsOfN

\* What is left of a pipe, when its first frame is read or its last ones get lost.
LEMMA OpensLeft ==
  ASSUME NEW w \in Seq(Frames), NEW v, NEW d \in {0, 1}, NEW s,
         Len(v) \in Nat,
         \A i \in 1..Len(v) : i + d \in 1..Len(w) /\ v[i] = w[i + d]
  PROVE  /\ HasOpen(v, s) => HasOpen(w, s)
         /\ NoData(w, s) => NoData(v, s)
         /\ OneOpen(w, s) => OneOpen(v, s)
  <1>1. HasOpen(v, s) => HasOpen(w, s)
    BY DEF HasOpen
  <1>2. NoData(w, s) => NoData(v, s)
    BY DEF NoData
  <1>3. ASSUME OneOpen(w, s) PROVE OneOpen(v, s)
    <2> SUFFICES ASSUME NEW i \in 1..Len(v), NEW j \in 1..Len(v), OpenFrame(v[i], s)
                 PROVE  /\ OpenFrame(v[j], s) => i = j
                        /\ DataFrame(v[j], s) => i < j
      BY DEF OneOpen
    <2>1. i + d \in 1..Len(w) /\ j + d \in 1..Len(w) /\ v[i] = w[i + d] /\ v[j] = w[j + d]
      OBVIOUS
    <2>2. /\ OpenFrame(w[j + d], s) => i + d = j + d
          /\ DataFrame(w[j + d], s) => i + d < j + d
      BY <1>3, <2>1 DEF OneOpen
    <2> QED BY <2>1, <2>2
  <1> QED BY <1>1, <1>2, <1>3

LEMMA TailOfWire ==
  ASSUME NEW w \in Seq(Frames), w # <<>>
  PROVE  /\ Tail(w) \in Seq(Frames) /\ Len(w) > 0 /\ Len(Tail(w)) = Len(w) - 1
         /\ Head(w) = w[1] /\ Head(w) \in Frames /\ 1 \in 1..Len(w)
         /\ \A i \in 1..Len(Tail(w)) : i + 1 \in 1..Len(w) /\ Tail(w)[i] = w[i + 1]
         /\ \A i \in 1..Len(w) : i = 1 \/ (i - 1 \in 1..Len(Tail(w)) /\ Tail(w)[i - 1] = w[i])
  OBVIOUS

LEMMA CutOfWire ==
  ASSUME NEW w \in Seq(Frames), NEW k \in 0..Len(w)
  PROVE  /\ SubSeq(w, 1, k) \in Seq(Frames) /\ Len(SubSeq(w, 1, k)) = k
         /\ \A i \in 1..k : i \in 1..Len(w) /\ SubSeq(w, 1, k)[i] = w[i]
  OBVIOUS

LEMMA AppendedWire ==
  ASSUME NEW w \in Seq(Frames), NEW f \in Frames
  PROVE  /\ Append(w, f) \in Seq(Frames) /\ Len(Append(w, f)) = Len(w) + 1
         /\ Append(w, f)[Len(w) + 1] = f
         /\ \A i \in 1..Len(w) : i \in 1..(Len(w) + 1) /\ Append(w, f)[i] = w[i]
         /\ \A i \in 1..(Len(w) + 1) : i \in 1..Len(w) \/ i = Len(w) + 1
  OBVIOUS

LEMMA OpensAppended ==
  ASSUME NEW w \in Seq(Frames), NEW f \in Frames, NEW s
  PROVE  /\ ~OpenFrame(f, s) =>
              /\ HasOpen(Append(w, f), s) <=> HasOpen(w, s)
              /\ OneOpen(w, s) => OneOpen(Append(w, f), s)
         /\ ~DataFrame(f, s) /\ NoData(w, s) => NoData(Append(w, f), s)
         /\ NoData(w, s) /\ ~HasOpen(w, s) /\ ~DataFrame(f, s) => OneOpen(Append(w, f), s)
         /\ OpenFrame(f, s) => HasOpen(Append(w, f), s)
  <1> DEFINE v == Append(w, f)
  <1>1. /\ Len(v) = Len(w) + 1 /\ v[Len(w) + 1] = f /\ Len(w) \in Nat
        /\ \A i \in 1..Len(w) : i \in 1..Len(v) /\ v[i] = w[i]
        /\ \A i \in 1..Len(v) : i \in 1..Len(w) \/ i = Len(w) + 1
    BY AppendedWire
  <1> HIDE DEF v
  <1>2. ~OpenFrame(f, s) => (HasOpen(v, s) <=> HasOpen(w, s))
    BY <1>1 DEF HasOpen
  <1>3. ASSUME ~OpenFrame(f, s), OneOpen(w, s) PROVE OneOpen(v, s)
    <2> SUFFICES ASSUME NEW i \in 1..Len(v), NEW j \in 1..Len(v), OpenFrame(v[i], s)
                 PROVE  /\ OpenFrame(v[j], s) => i = j
                        /\ DataFrame(v[j], s) => i < j
      BY DEF OneOpen
    <2>1. i \in 1..Len(w) /\ v[i] = w[i]
      BY <1>1, <1>3
    <2>2. CASE j \in 1..Len(w)
      BY <1>1, <1>3, <2>1, <2>2 DEF OneOpen
    <2>3. CASE j = Len(w) + 1
      BY <1>1, <1>3, <2>1, <2>3
    <2> QED BY <1>1, <2>2, <2>3
  <1>4. ~DataFrame(f, s) /\ NoData(w, s) => NoData(v, s)
    BY <1>1 DEF NoData
  <1>5. NoData(w, s) /\ ~HasOpen(w, s) /\ ~DataFrame(f, s) => OneOpen(v, s)
    BY <1>1 DEF NoData, HasOpen, OneOpen
  <1>6. OpenFrame(f, s) => HasOpen(v, s)
    BY <1>1 DEF HasOpen
  <1> QED BY <1>2, <1>3, <1>4, <1>5, <1>6 DEF v

LEMMA InStepAppended ==
  ASSUME NEW w \in Seq(Frames), NEW f \in Frames, NEW s \in Streams, NEW taken \in Nat,
         NEW n \in Nat, ~DataFrame(f, s), InStep(taken, n, w, s)
  PROVE  /\ InStep(taken, n, Append(w, f), s)
         /\ Complete(taken, n, w, s) => Complete(taken, n, Append(w, f), s)
  <1> DEFINE v == Append(w, f)
  <1>1. /\ Len(v) = Len(w) + 1 /\ v[Len(w) + 1] = f /\ Len(w) \in Nat
        /\ \A i \in 1..Len(w) : i \in 1..Len(v) /\ v[i] = w[i]
        /\ \A i \in 1..Len(v) : i \in 1..Len(w) \/ i = Len(w) + 1
    BY AppendedWire
  <1> HIDE DEF v
  <1>2. \A i \in 1..Len(v) : DataFrame(v[i], s) => i \in 1..Len(w) /\ v[i] = w[i]
    BY <1>1
  <1>3. InStep(taken, n, v, s)
    BY <1>1, <1>2 DEF InStep
  <1>4. Complete(taken, n, w, s) => Complete(taken, n, v, s)
    BY <1>1 DEF Complete
  <1> QED BY <1>3, <1>4 DEF v

LEMMA InStepCut ==
  ASSUME NEW w \in Seq(Frames), NEW k \in 0..Len(w), NEW s \in Streams, NEW taken \in Nat,
         NEW n \in Nat, InStep(taken, n, w, s)
  PROVE  InStep(taken, n, SubSeq(w, 1, k), s)
  <1> DEFINE v == SubSeq(w, 1, k)
  <1>1. Len(v) = k /\ k \in Nat /\ \A i \in 1..k : i \in 1..Len(w) /\ v[i] = w[i]
    BY CutOfWire
  <1>2. \A j \in 1..Len(w) : \A i \in 1..k : j < i => j \in 1..k
    BY <1>1
  <1> HIDE DEF v
  <1>3. InStep(taken, n, v, s)
    BY <1>1, <1>2 DEF InStep
  <1> QED BY <1>3 DEF v

LEMMA InStepTail ==
  ASSUME NEW w \in Seq(Frames), w # <<>>, NEW s \in Streams, NEW taken \in Nat,
         NEW n \in Nat, ~DataFrame(Head(w), s), InStep(taken, n, w, s)
  PROVE  /\ InStep(taken, n, Tail(w), s)
         /\ Complete(taken, n, w, s) => Complete(taken, n, Tail(w), s)
  <1> DEFINE v == Tail(w)
  <1>1. /\ Len(w) \in Nat /\ Len(v) = Len(w) - 1 /\ Head(w) = w[1] /\ Len(v) \in Nat
        /\ \A i \in 1..Len(v) : i + 1 \in 1..Len(w) /\ v[i] = w[i + 1]
        /\ \A i \in 1..Len(w) : i = 1 \/ (i - 1 \in 1..Len(v) /\ v[i - 1] = w[i])
    BY TailOfWire
  <1> HIDE DEF v
  <1>2. \A i \in 1..Len(w) : DataFrame(w[i], s) => i - 1 \in 1..Len(v) /\ v[i - 1] = w[i]
    BY <1>1
  <1>3. ASSUME NEW i \in 1..Len(v), DataFrame(v[i], s)
        PROVE  /\ taken < v[i].n /\ v[i].n <= n
               /\ \/ v[i].n = taken + 1
                  \/ \E j \in 1..Len(v) : j < i /\ DataFrame(v[j], s) /\ v[j].n = v[i].n - 1
               /\ \A j \in 1..Len(v) : i < j /\ DataFrame(v[j], s) => v[i].n < v[j].n
    <2>1. i + 1 \in 1..Len(w) /\ v[i] = w[i + 1]
      BY <1>1
    <2>2. taken < v[i].n /\ v[i].n <= n
      BY <1>3, <2>1 DEF InStep
    <2>3. ASSUME v[i].n # taken + 1
          PROVE  \E j \in 1..Len(v) : j < i /\ DataFrame(v[j], s) /\ v[j].n = v[i].n - 1
      <3>1. PICK j \in 1..Len(w) : j < i + 1 /\ DataFrame(w[j], s) /\ w[j].n = v[i].n - 1
        BY <1>3, <2>1, <2>3 DEF InStep
      <3>2. j - 1 \in 1..Len(v) /\ v[j - 1] = w[j] /\ j - 1 < i
        BY <1>2, <3>1
      <3> QED BY <3>1, <3>2
    <2>4. ASSUME NEW j \in 1..Len(v), i < j, DataFrame(v[j], s) PROVE v[i].n < v[j].n
      <3>1. j + 1 \in 1..Len(w) /\ v[j] = w[j + 1] /\ i + 1 < j + 1
        BY <1>1, <2>4
      <3> QED BY <1>3, <2>1, <2>4, <3>1 DEF InStep
    <2> QED BY <2>2, <2>3, <2>4
  <1>4. Complete(taken, n, w, s) => Complete(taken, n, v, s)
    BY <1>2 DEF Complete
  <1>5. InStep(taken, n, v, s)
    BY <1>3 DEF InStep
  <1> QED BY <1>4, <1>5 DEF v

LEMMA InStepSent ==
  ASSUME NEW w \in Seq(Frames), NEW s \in Streams, NEW taken \in Nat, NEW n \in Nat,
         NEW f \in Frames, f = [t |-> "data", id |-> s, n |-> n + 1],
         InStep(taken, n, w, s), Complete(taken, n, w, s)
  PROVE  InStep(taken, n + 1, Append(w, f), s) /\ Complete(taken, n + 1, Append(w, f), s)
  <1> DEFINE v == Append(w, f)
  <1>1. /\ Len(v) = Len(w) + 1 /\ v[Len(w) + 1] = f /\ Len(w) \in Nat
        /\ \A i \in 1..Len(w) : i \in 1..Len(v) /\ v[i] = w[i]
        /\ \A i \in 1..Len(v) : i \in 1..Len(w) \/ i = Len(w) + 1
    BY AppendedWire
  <1>2. DataFrame(f, s) /\ f.n = n + 1 /\ Len(w) + 1 \in 1..Len(v)
    BY <1>1 DEF DataFrame
  <1> HIDE DEF v
  <1>3. taken <= n /\ \A i \in 1..Len(w) : DataFrame(w[i], s) => w[i].n \in Nat /\ w[i].n <= n
    BY WireTyped DEF InStep
  <1>4. ASSUME NEW i \in 1..Len(v), DataFrame(v[i], s)
        PROVE  /\ taken < v[i].n /\ v[i].n <= n + 1
               /\ \/ v[i].n = taken + 1
                  \/ \E j \in 1..Len(v) : j < i /\ DataFrame(v[j], s) /\ v[j].n = v[i].n - 1
               /\ \A j \in 1..Len(v) : i < j /\ DataFrame(v[j], s) => v[i].n < v[j].n
    <2>1. CASE i \in 1..Len(w)
      <3>1. v[i] = w[i] /\ w[i].n \in Nat /\ w[i].n <= n
        BY <1>1, <1>3, <1>4, <2>1
      <3>2. taken < v[i].n /\ v[i].n <= n + 1
        BY <1>4, <2>1, <3>1 DEF InStep
      <3>3. \/ v[i].n = taken + 1
            \/ \E j \in 1..Len(v) : j < i /\ DataFrame(v[j], s) /\ v[j].n = v[i].n - 1
        BY <1>1, <1>4, <2>1, <3>1 DEF InStep
      <3>4. ASSUME NEW j \in 1..Len(v), i < j, DataFrame(v[j], s) PROVE v[i].n < v[j].n
        <4>1. CASE j \in 1..Len(w)
          <5>1. v[j] = w[j] /\ DataFrame(w[i], s) /\ DataFrame(w[j], s)
            BY <1>1, <1>4, <3>1, <3>4, <4>1
          <5>2. w[i].n < w[j].n
            BY <2>1, <3>4, <4>1, <5>1 DEF InStep
          <5> QED BY <3>1, <5>1, <5>2
        <4>2. CASE j = Len(w) + 1
          BY <1>1, <1>2, <3>1, <4>2
        <4> QED BY <1>1, <4>1, <4>2
      <3> QED BY <3>2, <3>3, <3>4
    <2>2. CASE i = Len(w) + 1
      <3>1. v[i].n = n + 1 /\ taken < v[i].n
        BY <1>1, <1>2, <1>3, <2>2
      <3>2. \/ v[i].n = taken + 1
            \/ \E j \in 1..Len(v) : j < i /\ DataFrame(v[j], s) /\ v[j].n = v[i].n - 1
        <4> SUFFICES ASSUME taken # n
                     PROVE  \E j \in 1..Len(v) : j < i /\ DataFrame(v[j], s) /\ v[j].n = n
          BY <3>1
        <4>1. PICK j \in 1..Len(w) : DataFrame(w[j], s) /\ w[j].n = n
          BY DEF Complete
        <4> QED BY <1>1, <2>2, <4>1
      <3>3. \A j \in 1..Len(v) : ~(i < j)
        BY <1>1, <2>2
      <3> QED BY <3>1, <3>2, <3>3
    <2> QED BY <1>1, <2>1, <2>2
  <1>5. \E i \in 1..Len(v) : DataFrame(v[i], s) /\ v[i].n = n + 1
    BY <1>1, <1>2
  <1>6. taken <= n + 1
    BY <1>3
  <1>7. InStep(taken, n + 1, v, s) /\ Complete(taken, n + 1, v, s)
    BY <1>4, <1>5, <1>6 DEF InStep, Complete
  <1> QED BY <1>7 DEF v

LEMMA InStepTaken ==
  ASSUME NEW w \in Seq(Frames), w # <<>>, NEW s \in Streams, NEW taken \in Nat, NEW n \in Nat,
         DataFrame(Head(w), s), InStep(taken, n, w, s)
  PROVE  /\ Head(w).n = taken + 1 /\ InStep(taken + 1, n, Tail(w), s)
         /\ Complete(taken, n, w, s) => Complete(taken + 1, n, Tail(w), s)
  <1> DEFINE v == Tail(w)
  <1>1. /\ Len(w) \in Nat /\ Len(v) = Len(w) - 1 /\ Head(w) = w[1] /\ Len(v) \in Nat
        /\ 1 \in 1..Len(w)
        /\ \A i \in 1..Len(v) : i + 1 \in 1..Len(w) /\ v[i] = w[i + 1]
        /\ \A i \in 1..Len(w) : i = 1 \/ (i - 1 \in 1..Len(v) /\ v[i - 1] = w[i])
    BY TailOfWire
  <1> HIDE DEF v
  <1>2. w[1].n = taken + 1 /\ taken + 1 <= n
    BY <1>1 DEF InStep
  <1>3. ASSUME NEW i \in 1..Len(v), DataFrame(v[i], s)
        PROVE  /\ taken + 1 < v[i].n /\ v[i].n <= n
               /\ \/ v[i].n = (taken + 1) + 1
                  \/ \E j \in 1..Len(v) : j < i /\ DataFrame(v[j], s) /\ v[j].n = v[i].n - 1
               /\ \A j \in 1..Len(v) : i < j /\ DataFrame(v[j], s) => v[i].n < v[j].n
    <2>0. i + 1 \in 1..Len(w) /\ v[i] = w[i + 1] /\ 1 < i + 1
      BY <1>1
    <2>1. i + 1 \in 1..Len(w) /\ v[i] = w[i + 1] /\ 1 < i + 1 /\ v[i].n \in Nat
      <3>1. \A j \in 1..Len(w) : DataFrame(w[j], s) => w[j].n \in Nat
        BY WireTyped
      <3> QED BY <1>3, <2>0, <3>1
    <2>2. taken + 1 < v[i].n /\ v[i].n <= n
      BY <1>1, <1>2, <1>3, <2>1 DEF InStep
    <2>3. ASSUME v[i].n # (taken + 1) + 1
          PROVE  \E j \in 1..Len(v) : j < i /\ DataFrame(v[j], s) /\ v[j].n = v[i].n - 1
      <3>1. PICK j \in 1..Len(w) : j < i + 1 /\ DataFrame(w[j], s) /\ w[j].n = v[i].n - 1
        BY <1>3, <2>1, <2>2 DEF InStep
      <3>2. ASSUME j = 1 PROVE FALSE
        <4>1. v[i].n - 1 = taken + 1
          BY <1>2, <3>1, <3>2
        <4> QED BY <2>1, <2>3, <4>1
      <3>3. j - 1 \in 1..Len(v) /\ v[j - 1] = w[j] /\ j - 1 < i
        BY <1>1, <3>1, <3>2
      <3> QED BY <3>1, <3>3
    <2>4. ASSUME NEW j \in 1..Len(v), i < j, DataFrame(v[j], s) PROVE v[i].n < v[j].n
      <3>1. j + 1 \in 1..Len(w) /\ v[j] = w[j + 1] /\ i + 1 < j + 1
        BY <1>1, <2>4
      <3> QED BY <1>3, <2>1, <2>4, <3>1 DEF InStep
    <2> QED BY <2>2, <2>3, <2>4
  <1>4. Complete(taken, n, w, s) => Complete(taken + 1, n, v, s)
    <2> SUFFICES ASSUME Complete(taken, n, w, s), taken + 1 # n
                 PROVE  \E i \in 1..Len(v) : DataFrame(v[i], s) /\ v[i].n = n
      BY DEF Complete
    <2>1. PICK i \in 1..Len(w) : DataFrame(w[i], s) /\ w[i].n = n
      BY <1>2 DEF Complete
    <2>2. i # 1
      BY <1>2, <2>1
    <2> QED BY <1>1, <2>1, <2>2
  <1>5. InStep(taken + 1, n, v, s)
    BY <1>2, <1>3 DEF InStep
  <1> QED BY <1>1, <1>2, <1>4, <1>5 DEF v
-----------------------------------------------------------------------------
(* What holds of a tunnel.                                                     *)

Other(e) == IF e = "relay" THEN "pump" ELSE "relay"

CoopRows ==
  [at : {"none", "opening", "serving", "ending", "closing", "gone"}, reg : BOOLEAN,
   closed : BOOLEAN, peer : BOOLEAN, reading : BOOLEAN, queue : Seq(1..MaxData)]

ControlTyped ==
  /\ launch \in {"off", "starting", "up", "stopping", "joining", "over"}
  /\ exec \in {"off", "boot", "up", "ending", "ended"}
  /\ stdin \in BOOLEAN /\ run \in {"off", "run", "exited"}
  /\ done \subseteq Sides /\ shut \in BOOLEAN /\ (shut => "pump" \in done)
SockStates == {"none", "open", "hungup", "closed"}
RowsTyped ==
  /\ end \in [Sides -> [Streams -> CoopRows]]
  /\ \A e \in Sides, s \in Streams : Len(end[e][s].queue) <= QueueCap
  /\ sock \in [Sides -> [Streams -> SockStates]]
PipesTyped ==
  /\ wire \in [Sides -> Seq(Frames)] /\ \A e \in Sides : Len(wire[e]) <= WireCap
  /\ sent \in [Sides -> [Streams -> 0..MaxData]]
  /\ got \in [Sides -> [Streams -> Seq(1..MaxData)]]

\* A socket is open while its stream is served, or is about to be announced.
Usable == {"open", "hungup"}
SocketOK(e, s) ==
  /\ end[e][s].reg <=> end[e][s].at \in {"opening", "serving", "ending"}
  /\ sock[e][s] \in Usable =>
       ~end[e][s].closed /\ (end[e][s].at = "serving" \/ (e = "relay" /\ end[e][s].at = "opening"))
  /\ end[e][s].reading => end[e][s].at \notin {"none", "opening"}

\* Nothing has happened to a stream that is not there.
FreshOK(e, s) ==
  end[e][s].at = "none" =>
    end[e][s] = Absent /\ got[e][s] = <<>> /\ sent[e][s] = 0 /\ NoData(wire[e], s)

\* The relay announces a stream before anything is read of it, and once.
OpeningOK(s) ==
  /\ end["relay"][s].at \in {"none", "opening"} =>
       /\ end["pump"][s].at = "none"
       /\ end["relay"][s].queue = <<>> /\ got["relay"][s] = <<>> /\ sent["relay"][s] = 0
       /\ NoData(wire["relay"], s) /\ ~HasOpen(wire["relay"], s)
  /\ HasOpen(wire["relay"], s) => end["pump"][s].at = "none"
  /\ OneOpen(wire["relay"], s)

\* The streams that get what comes: the others have closed, or will not be opened.
Due(e, s) ==
  \/ end[e][s].at \in {"opening", "serving"} /\ ~end[e][s].closed
  \/ e = "pump" /\ end[e][s].at = "none" /\ HasOpen(wire["relay"], s)

Taken(e, s) == Len(got[e][s]) + Len(end[e][s].queue)
FlowOK(e, s) ==
  Due(e, s) =>
    /\ \A i \in 1..Len(end[e][s].queue) : end[e][s].queue[i] = Len(got[e][s]) + i
    /\ InStep(Taken(e, s), sent[Other(e)][s], wire[Other(e)], s)
    /\ \/ Other(e) \in done
       \/ Complete(Taken(e, s), sent[Other(e)][s], wire[Other(e)], s)

OrderOK(e, s) == got[e][s] = [i \in 1..Len(got[e][s]) |-> i]

StreamsInv ==
  /\ \A e \in Sides, s \in Streams :
       SocketOK(e, s) /\ FreshOK(e, s) /\ FlowOK(e, s) /\ OrderOK(e, s)
  /\ \A s \in Streams : OpeningOK(s)

TunnelInv == ControlTyped /\ RowsTyped /\ PipesTyped /\ StreamsInv

LEMMA Others ==
  /\ Sides = {"relay", "pump"} /\ "relay" \in Sides /\ "pump" \in Sides
  /\ Other("relay") = "pump" /\ Other("pump") = "relay"
  /\ \A e \in Sides : Other(e) \in Sides /\ Other(e) # e
  BY DEF Sides, Other

LEMMA TunnelInitially == CoopInit => TunnelInv
  <1> SUFFICES ASSUME CoopInit PROVE TunnelInv
    OBVIOUS
  <1>1. ControlTyped
    BY DEF CoopInit, ControlTyped
  <1>2. <<>> \in Seq(1..MaxData) /\ Len(<<>>) = 0 /\ <<>> \in Seq(Frames) /\ 0 \in 0..MaxData
    BY BoundsOfN
  <1>3. Absent \in CoopRows /\ Absent.at = "none" /\ ~Absent.reg /\ ~Absent.closed
        /\ ~Absent.reading /\ Absent.queue = <<>>
    BY <1>2 DEF Absent, CoopRows
  <1>4. \A e \in Sides : /\ wire[e] = <<>>
                         /\ \A s \in Streams : /\ end[e][s] = Absent /\ sock[e][s] = "none"
                                               /\ sent[e][s] = 0 /\ got[e][s] = <<>>
    BY DEF CoopInit
  <1>5. RowsTyped
    <2>1. end \in [Sides -> [Streams -> CoopRows]]
      BY <1>3 DEF CoopInit
    <2>2. sock \in [Sides -> [Streams -> SockStates]]
      BY DEF CoopInit, SockStates
    <2> QED BY <1>2, <1>3, <1>4, <2>1, <2>2, BoundsOfN DEF RowsTyped
  <1>6. PipesTyped
    <2>1. wire \in [Sides -> Seq(Frames)]
      BY <1>2 DEF CoopInit
    <2>2. sent \in [Sides -> [Streams -> 0..MaxData]]
      BY <1>2 DEF CoopInit
    <2>3. got \in [Sides -> [Streams -> Seq(1..MaxData)]]
      BY <1>2 DEF CoopInit
    <2>4. \A e \in Sides : Len(wire[e]) <= WireCap
      BY <1>2, <1>4, BoundsOfN
    <2> QED BY <2>1, <2>2, <2>3, <2>4 DEF PipesTyped
  <1>7. ~HasOpen(<<>>, 0) /\ \A s \in Streams : ~HasOpen(<<>>, s) /\ NoData(<<>>, s)
                                                /\ OneOpen(<<>>, s)
    BY DEF HasOpen, NoData, OneOpen
  <1>8. ASSUME NEW e \in Sides, NEW s \in Streams
        PROVE  SocketOK(e, s) /\ FreshOK(e, s) /\ FlowOK(e, s) /\ OrderOK(e, s)
    <2>1. SocketOK(e, s) /\ FreshOK(e, s)
      BY <1>3, <1>4, <1>7 DEF SocketOK, FreshOK, Usable
    <2>2. ~Due(e, s)
      BY <1>3, <1>4, <1>7, Others DEF Due
    <2>3. OrderOK(e, s)
      BY <1>4 DEF OrderOK
    <2> QED BY <2>1, <2>2, <2>3 DEF FlowOK
  <1>9. \A s \in Streams : OpeningOK(s)
    BY <1>3, <1>4, <1>7, Others DEF OpeningOK
  <1> QED BY <1>1, <1>5, <1>6, <1>8, <1>9 DEF TunnelInv, StreamsInv

\* The parts of the types that steps use.
LEMMA TunnelTyped ==
  ASSUME RowsTyped, PipesTyped
  PROVE  /\ \A e \in Sides : wire[e] \in Seq(Frames) /\ Len(wire[e]) \in Nat
         /\ \A e \in Sides, s \in Streams :
              /\ end[e][s] \in CoopRows /\ end[e][s].queue \in Seq(1..MaxData)
              /\ Len(end[e][s].queue) \in Nat /\ got[e][s] \in Seq(1..MaxData)
              /\ Len(got[e][s]) \in Nat /\ Taken(e, s) \in Nat
              /\ sent[e][s] \in 0..MaxData /\ sent[e][s] \in Nat
              /\ sock[e][s] \in SockStates
         /\ DOMAIN end = Sides /\ DOMAIN sock = Sides /\ DOMAIN wire = Sides
         /\ DOMAIN sent = Sides /\ DOMAIN got = Sides
         /\ \A e \in Sides : /\ DOMAIN end[e] = Streams /\ DOMAIN sock[e] = Streams
                             /\ DOMAIN sent[e] = Streams /\ DOMAIN got[e] = Streams
  <1>1. \A e \in Sides : wire[e] \in Seq(Frames) /\ Len(wire[e]) \in Nat
    BY DEF PipesTyped
  <1>2. \A e \in Sides, s \in Streams :
          /\ end[e][s] \in CoopRows /\ end[e][s].queue \in Seq(1..MaxData)
          /\ Len(end[e][s].queue) \in Nat
    BY DEF RowsTyped, CoopRows
  <1>3. \A e \in Sides, s \in Streams : got[e][s] \in Seq(1..MaxData) /\ Len(got[e][s]) \in Nat
    BY DEF PipesTyped
  <1>4. \A e \in Sides, s \in Streams : sent[e][s] \in 0..MaxData /\ sent[e][s] \in Nat
    BY BoundsOfN DEF PipesTyped
  <1>5. ASSUME NEW e \in Sides, NEW s \in Streams PROVE Taken(e, s) \in Nat
    <2> DEFINE g == Len(got[e][s])
               q == Len(end[e][s].queue)
    <2>1. g \in Nat /\ q \in Nat /\ Taken(e, s) = g + q
      BY <1>2, <1>3 DEF Taken
    <2> HIDE DEF g, q
    <2> QED BY <2>1
  <1>6. \A e \in Sides, s \in Streams : sock[e][s] \in SockStates
    BY DEF RowsTyped
  <1> QED BY <1>1, <1>2, <1>3, <1>4, <1>5, <1>6 DEF RowsTyped, PipesTyped

\* A step after which no stream is nearer to being served than before, and no pipe has more
\* of its streams.
Wears(e, s) ==
  /\ end'[e][s].at = "none" <=> end[e][s].at = "none"
  /\ end[e][s].at = "none" => end'[e][s] = end[e][s]
  /\ end'[e][s].at \in {"opening", "serving"} =>
       /\ end'[e][s].at = end[e][s].at /\ end'[e][s].queue = end[e][s].queue
       /\ end[e][s].closed => end'[e][s].closed
  /\ end'[e][s].reg <=> end'[e][s].at \in {"opening", "serving", "ending"}
  /\ sock'[e][s] \in Usable =>
       sock[e][s] \in Usable /\ end'[e][s].at = end[e][s].at /\ (end'[e][s].closed => end[e][s].closed)
  /\ end'[e][s].reading => end[e][s].reading
  /\ end'[e][s].at = "opening" => ~end'[e][s].reading

PipeWears(e) ==
  \/ wire'[e] = wire[e]
  \/ \E f \in Frames : f.t \in {"ready", "close"} /\ wire'[e] = Append(wire[e], f)
  \/ wire[e] # <<>> /\ Head(wire[e]).t \in {"ready", "close"} /\ wire'[e] = Tail(wire[e])
  \/ /\ e \in done' \/ \A s \in Streams : ~Due(Other(e), s)'
     /\ \E k \in 0..Len(wire[e]) : wire'[e] = SubSeq(wire[e], 1, k)

LEMMA PipeWorn ==
  ASSUME TunnelInv, NEW e \in Sides, PipeWears(e), NEW s \in Streams
  PROVE  /\ HasOpen(wire'[e], s) => HasOpen(wire[e], s)
         /\ NoData(wire[e], s) => NoData(wire'[e], s)
         /\ OneOpen(wire[e], s) => OneOpen(wire'[e], s)
         /\ \A taken, n \in Nat : InStep(taken, n, wire[e], s) =>
              /\ InStep(taken, n, wire'[e], s)
              /\ \/ Complete(taken, n, wire[e], s) => Complete(taken, n, wire'[e], s)
                 \/ e \in done'
                 \/ \A r \in Streams : ~Due(Other(e), r)'
  <1> DEFINE w == wire[e]
  <1>1. w \in Seq(Frames) /\ Len(w) \in Nat
    BY TunnelTyped DEF TunnelInv
  <1> HIDE DEF w
  <1>2. CASE wire'[e] = w
    BY <1>2 DEF w
  <1>3. CASE \E f \in Frames : f.t \in {"ready", "close"} /\ wire'[e] = Append(w, f)
    <2>1. PICK f \in Frames : f.t \in {"ready", "close"} /\ wire'[e] = Append(w, f)
      BY <1>3
    <2>2. ~OpenFrame(f, s) /\ ~DataFrame(f, s)
      BY <2>1 DEF OpenFrame, DataFrame
    <2>3. \A taken, n \in Nat : InStep(taken, n, w, s) =>
            /\ InStep(taken, n, wire'[e], s)
            /\ Complete(taken, n, w, s) => Complete(taken, n, wire'[e], s)
      BY <1>1, <2>1, <2>2, InStepAppended
    <2> QED BY <1>1, <2>1, <2>2, <2>3, OpensAppended DEF w
  <1>4. CASE w # <<>> /\ Head(w).t \in {"ready", "close"} /\ wire'[e] = Tail(w)
    <2>1. ~DataFrame(Head(w), s)
      BY <1>4 DEF DataFrame
    <2>2. \A taken, n \in Nat : InStep(taken, n, w, s) =>
            /\ InStep(taken, n, wire'[e], s)
            /\ Complete(taken, n, w, s) => Complete(taken, n, wire'[e], s)
      BY <1>1, <1>4, <2>1, InStepTail
    <2>3. Len(wire'[e]) \in Nat /\ \A i \in 1..Len(wire'[e]) :
            i + 1 \in 1..Len(w) /\ wire'[e][i] = w[i + 1]
      BY <1>1, <1>4, TailOfWire
    <2>4. /\ HasOpen(wire'[e], s) => HasOpen(w, s)
          /\ NoData(w, s) => NoData(wire'[e], s)
          /\ OneOpen(w, s) => OneOpen(wire'[e], s)
      BY <1>1, <2>3, OpensLeft
    <2> QED BY <2>2, <2>4 DEF w
  <1>5. CASE /\ e \in done' \/ \A r \in Streams : ~Due(Other(e), r)'
             /\ \E k \in 0..Len(w) : wire'[e] = SubSeq(w, 1, k)
    <2>1. PICK k \in 0..Len(w) : wire'[e] = SubSeq(w, 1, k)
      BY <1>5
    <2>2. k \in Nat /\ Len(wire'[e]) = k
          /\ \A i \in 1..k : i + 0 \in 1..Len(w) /\ wire'[e][i] = w[i + 0]
      BY <1>1, <2>1, CutOfWire
    <2>3. /\ HasOpen(wire'[e], s) => HasOpen(w, s)
          /\ NoData(w, s) => NoData(wire'[e], s)
          /\ OneOpen(w, s) => OneOpen(wire'[e], s)
      BY <1>1, <2>2, OpensLeft
    <2>4. \A taken, n \in Nat : InStep(taken, n, w, s) => InStep(taken, n, wire'[e], s)
      BY <1>1, <2>1, InStepCut
    <2> QED BY <1>5, <2>3, <2>4 DEF w
  <1> QED BY <1>2, <1>3, <1>4, <1>5 DEF PipeWears, w

LEMMA WearStep ==
  ASSUME TunnelInv, RowsTyped', PipesTyped', done \subseteq done', UNCHANGED <<sent, got>>,
         \A e \in Sides : PipeWears(e),
         \A e \in Sides, s \in Streams : Wears(e, s)
  PROVE  StreamsInv'
  <1>1. ASSUME NEW e \in Sides, NEW s \in Streams
        PROVE  SocketOK(e, s)' /\ FreshOK(e, s)' /\ FlowOK(e, s)' /\ OrderOK(e, s)'
    <2>1. SocketOK(e, s) /\ FreshOK(e, s) /\ FlowOK(e, s) /\ OrderOK(e, s) /\ Wears(e, s)
      BY DEF TunnelInv, StreamsInv
    <2>2. SocketOK(e, s)'
      BY <2>1 DEF SocketOK, Wears
    <2>3. FreshOK(e, s)'
      BY <2>1, PipeWorn DEF FreshOK, Wears
    <2>4. OrderOK(e, s)'
      BY <2>1 DEF OrderOK
    <2>5. FlowOK(e, s)'
      <3> DEFINE o == Other(e)
      <3> SUFFICES ASSUME Due(e, s)'
                   PROVE  /\ \A i \in 1..Len(end'[e][s].queue) :
                               end'[e][s].queue[i] = Len(got'[e][s]) + i
                          /\ InStep(Taken(e, s)', sent'[o][s], wire'[o], s)
                          /\ o \in done' \/ Complete(Taken(e, s)', sent'[o][s], wire'[o], s)
        BY DEF FlowOK
      <3>1. /\ end'[e][s].queue = end[e][s].queue /\ Due(e, s)
        BY <2>1, PipeWorn, Others DEF Due, Wears
      <3>2. Taken(e, s)' = Taken(e, s) /\ Taken(e, s) \in Nat /\ sent[o][s] \in Nat
            /\ o \in Sides /\ Other(o) = e
        BY <3>1, TunnelTyped, Others DEF TunnelInv, Taken
      <3>3. /\ InStep(Taken(e, s), sent[o][s], wire[o], s)
            /\ o \in done \/ Complete(Taken(e, s), sent[o][s], wire[o], s)
            /\ \A i \in 1..Len(end[e][s].queue) : end[e][s].queue[i] = Len(got[e][s]) + i
        BY <2>1, <3>1 DEF FlowOK
      <3> HIDE DEF o
      <3>4. /\ InStep(Taken(e, s), sent[o][s], wire'[o], s)
            /\ o \in done' \/ Complete(Taken(e, s), sent[o][s], wire'[o], s)
        BY <3>2, <3>3, PipeWorn
      <3> QED BY <3>1, <3>2, <3>3, <3>4
    <2> QED BY <2>2, <2>3, <2>4, <2>5
  <1>2. ASSUME NEW s \in Streams PROVE OpeningOK(s)'
    <2>1. OpeningOK(s) /\ Wears("relay", s) /\ Wears("pump", s)
          /\ PipeWears("relay") /\ "relay" \in Sides
      BY Others DEF TunnelInv, StreamsInv
    <2>2. /\ HasOpen(wire'["relay"], s) => HasOpen(wire["relay"], s)
          /\ NoData(wire["relay"], s) => NoData(wire'["relay"], s)
          /\ OneOpen(wire["relay"], s) => OneOpen(wire'["relay"], s)
      BY <2>1, PipeWorn
    <2> QED BY <2>1, <2>2 DEF OpeningOK, Wears
  <1> QED BY <1>1, <1>2 DEF StreamsInv
-----------------------------------------------------------------------------
(* Steps of a row, a socket, a pipe.                                           *)

LEMMA WireSet ==
  ASSUME PipesTyped, NEW e \in Sides, NEW v \in Seq(Frames), Len(v) <= WireCap,
         wire' = [wire EXCEPT ![e] = v], UNCHANGED <<sent, got>>
  PROVE  /\ PipesTyped' /\ wire'[e] = v
         /\ \A d \in Sides : d # e => wire'[d] = wire[d]
  BY DEF PipesTyped

LEMMA Shuts ==
  ASSUME NEW x \in SockStates
  PROVE  Shut(x) \in SockStates /\ Shut(x) \notin Usable
  BY DEF Shut, Usable, SockStates

LEMMA RowFields ==
  ASSUME NEW r \in CoopRows
  PROVE  /\ Closed(r) \in CoopRows /\ Closed(r).closed
         /\ Closed(r).at = r.at /\ Closed(r).reg = r.reg /\ Closed(r).peer = r.peer
         /\ Closed(r).reading = r.reading /\ Closed(r).queue = r.queue
         /\ Len(r.queue) \in Nat /\ r.queue \in Seq(1..MaxData)
         /\ r.reg \in BOOLEAN /\ r.closed \in BOOLEAN /\ r.reading \in BOOLEAN
  <1>1. Closed(r) \in CoopRows /\ Closed(r).closed
    BY DEF Closed, CoopRows
  <1>2. /\ Closed(r).at = r.at /\ Closed(r).reg = r.reg /\ Closed(r).peer = r.peer
        /\ Closed(r).reading = r.reading /\ Closed(r).queue = r.queue
    BY DEF Closed, CoopRows
  <1>3. /\ r.queue \in Seq(1..MaxData)
        /\ r.reg \in BOOLEAN /\ r.closed \in BOOLEAN /\ r.reading \in BOOLEAN
    BY DEF CoopRows
  <1> QED BY <1>1, <1>2, <1>3

\* What a step leaves alone does not wear the rest.
LEMMA UnwornSame ==
  ASSUME TunnelInv, NEW e \in Sides, NEW s \in Streams,
         end'[e][s] = end[e][s], sock'[e][s] = sock[e][s]
  PROVE  Wears(e, s)
  BY DEF TunnelInv, StreamsInv, SocketOK, Wears

\* A row and its socket are set.
SetsRow(e, s, r, x) ==
  /\ r \in CoopRows /\ x \in SockStates /\ Len(r.queue) <= QueueCap
  /\ end' = [end EXCEPT ![e][s] = r] /\ sock' = [sock EXCEPT ![e][s] = x]

LEMMA RowSet ==
  ASSUME TunnelInv, NEW e \in Sides, NEW s \in Streams, NEW r, NEW x, SetsRow(e, s, r, x)
  PROVE  /\ RowsTyped' /\ end'[e][s] = r /\ sock'[e][s] = x
         /\ \A d \in Sides, q \in Streams : d # e \/ q # s =>
              end'[d][q] = end[d][q] /\ sock'[d][q] = sock[d][q]
  <1>1. RowsTyped /\ r \in CoopRows /\ x \in SockStates /\ Len(r.queue) <= QueueCap
    BY DEF TunnelInv, SetsRow
  <1>2. end' = [end EXCEPT ![e][s] = r] /\ sock' = [sock EXCEPT ![e][s] = x]
    BY DEF SetsRow
  <1>3. /\ end' \in [Sides -> [Streams -> CoopRows]] /\ end'[e][s] = r
        /\ \A d \in Sides, q \in Streams : d # e \/ q # s => end'[d][q] = end[d][q]
    BY <1>1, <1>2 DEF RowsTyped
  <1>4. /\ sock' \in [Sides -> [Streams -> SockStates]]
        /\ sock'[e][s] = x
        /\ \A d \in Sides, q \in Streams : d # e \/ q # s => sock'[d][q] = sock[d][q]
    BY <1>1, <1>2 DEF RowsTyped
  <1>5. \A d \in Sides, q \in Streams : Len(end'[d][q].queue) <= QueueCap
    <2> SUFFICES ASSUME NEW d \in Sides, NEW q \in Streams
                 PROVE  Len(end'[d][q].queue) <= QueueCap
      OBVIOUS
    <2>1. CASE d = e /\ q = s
      <3>1. end'[d][q] = r
        BY <1>3, <2>1
      <3> QED BY <1>1, <3>1
    <2>2. CASE d # e \/ q # s
      <3>1. end'[d][q] = end[d][q] /\ Len(end[d][q].queue) <= QueueCap
        BY <1>1, <1>3, <2>2 DEF RowsTyped
      <3> QED BY <3>1
    <2> QED BY <2>1, <2>2
  <1> QED BY <1>3, <1>4, <1>5 DEF RowsTyped

LEMMA OneWears ==
  ASSUME TunnelInv, ControlTyped', NEW e \in Sides, NEW s \in Streams, NEW r \in CoopRows,
         NEW x \in SockStates, Len(r.queue) <= QueueCap,
         end' = [end EXCEPT ![e][s] = r], sock' = [sock EXCEPT ![e][s] = x],
         end'[e][s] = r /\ sock'[e][s] = x => Wears(e, s),
         done \subseteq done', UNCHANGED <<sent, got>>, PipesTyped',
         \A d \in Sides : PipeWears(d)
  PROVE  TunnelInv'
  <1>1. RowsTyped' /\ Wears(e, s)
        /\ \A d \in Sides, q \in Streams : d # e \/ q # s =>
             end'[d][q] = end[d][q] /\ sock'[d][q] = sock[d][q]
    <2>1. RowsTyped' /\ end'[e][s] = r /\ sock'[e][s] = x
          /\ \A d \in Sides, q \in Streams : d # e \/ q # s =>
               end'[d][q] = end[d][q] /\ sock'[d][q] = sock[d][q]
      <3>1. SetsRow(e, s, r, x)
        BY DEF SetsRow
      <3> QED BY <3>1, RowSet
    <2> QED BY <2>1
  <1>2. \A d \in Sides, q \in Streams : Wears(d, q)
    BY <1>1, UnwornSame
  <1> QED BY <1>1, <1>2, WearStep DEF TunnelInv

LEMMA SockSame ==
  ASSUME RowsTyped, NEW e \in Sides, NEW s \in Streams, sock' = sock
  PROVE  sock' = [sock EXCEPT ![e][s] = sock[e][s]]
  BY DEF RowsTyped

LEMMA EndSame ==
  ASSUME RowsTyped, NEW e \in Sides, NEW s \in Streams, end' = end
  PROVE  end' = [end EXCEPT ![e][s] = end[e][s]]
  BY DEF RowsTyped

LEMMA ControlSame ==
  ASSUME TunnelInv, UNCHANGED <<tunnelVars, done, shut>>
  PROVE  ControlTyped' /\ done \subseteq done'
  BY DEF TunnelInv, ControlTyped, tunnelVars

LEMMA PipesSame ==
  ASSUME TunnelInv, UNCHANGED <<wire, sent, got>>
  PROVE  PipesTyped' /\ \A d \in Sides : PipeWears(d)
  BY DEF TunnelInv, PipesTyped, PipeWears

LEMMA ReadEndsStep ==
  ASSUME TunnelInv, NEW e \in Sides, NEW s \in Streams, ReadEnds(e, s)
  PROVE  TunnelInv'
  <1> DEFINE row == end[e][s]
             r == [Closed(row) EXCEPT !.reading = FALSE]
             x == Shut(sock[e][s])
  <1>1. /\ row \in CoopRows /\ sock[e][s] \in SockStates
        /\ Len(row.queue) <= QueueCap /\ SocketOK(e, s) /\ RowsTyped
    BY TunnelTyped DEF TunnelInv, StreamsInv, RowsTyped
  <1>2. /\ end' = [end EXCEPT ![e][s] = r] /\ sock' = [sock EXCEPT ![e][s] = x]
        /\ row.reading /\ UNCHANGED <<tunnelVars, done, shut, wire, sent, got>>
    BY DEF ReadEnds
  <1>3. r \in CoopRows /\ r.at = row.at /\ r.queue = row.queue /\ r.reg = row.reg /\ r.closed
        /\ ~r.reading
    BY <1>1 DEF CoopRows, Closed
  <1>4. x \in SockStates /\ x \notin Usable
    BY <1>1, Shuts
  <1> HIDE DEF r, x
  <1>5. end'[e][s] = r /\ sock'[e][s] = x => Wears(e, s)
    BY <1>1, <1>2, <1>3, <1>4 DEF Wears, SocketOK
  <1> QED BY <1>1, <1>2, <1>3, <1>4, <1>5, ControlSame, PipesSame, OneWears

LEMMA WriteEndsStep ==
  ASSUME TunnelInv, NEW e \in Sides, NEW s \in Streams, WriteEnds(e, s)
  PROVE  TunnelInv'
  <1> DEFINE row == end[e][s]
             r == [Closed(row) EXCEPT !.at = "ending"]
             x == IF end[e][s].closed THEN sock[e][s] ELSE Shut(sock[e][s])
  <1>1. /\ row \in CoopRows /\ sock[e][s] \in SockStates
        /\ Len(row.queue) <= QueueCap /\ SocketOK(e, s)
    BY TunnelTyped DEF TunnelInv, StreamsInv, RowsTyped
  <1>2. /\ end' = [end EXCEPT ![e][s] = r] /\ sock' = [sock EXCEPT ![e][s] = x]
        /\ row.at = "serving" /\ UNCHANGED <<tunnelVars, done, shut, wire, sent, got>>
    BY DEF WriteEnds
  <1>3. r \in CoopRows /\ r.at = "ending" /\ r.queue = row.queue /\ r.reg = row.reg /\ r.closed
        /\ r.reading = row.reading
    BY <1>1 DEF CoopRows, Closed
  <1>4. x \in SockStates /\ x \notin Usable
    BY <1>1, Shuts DEF SocketOK
  <1> HIDE DEF r, x
  <1>5. end'[e][s] = r /\ sock'[e][s] = x => Wears(e, s)
    BY <1>1, <1>2, <1>3, <1>4 DEF Wears, SocketOK
  <1> QED BY <1>1, <1>2, <1>3, <1>4, <1>5, ControlSame, PipesSame, OneWears

LEMMA RemoveStep ==
  ASSUME TunnelInv, NEW e \in Sides, NEW s \in Streams, Remove(e, s)
  PROVE  TunnelInv'
  <1> DEFINE row == end[e][s]
             r == [row EXCEPT !.at = "closing", !.reg = FALSE, !.queue = <<>>]
             x == sock[e][s]
  <1>1. /\ row \in CoopRows /\ x \in SockStates
        /\ SocketOK(e, s) /\ RowsTyped
    BY TunnelTyped DEF TunnelInv, StreamsInv
  <1>2. /\ end' = [end EXCEPT ![e][s] = r] /\ sock' = [sock EXCEPT ![e][s] = x]
        /\ row.at = "ending" /\ UNCHANGED <<tunnelVars, done, shut, wire, sent, got>>
    <2>1. /\ row.at = "ending" /\ UNCHANGED <<tunnelVars, done, shut, wire, sent, got>>
          /\ sock' = sock
      BY DEF Remove
    <2>2. DOMAIN end = Sides /\ DOMAIN end[e] = Streams
      BY <1>1, TunnelTyped DEF TunnelInv
    <2>3. end' = [end EXCEPT ![e][s] = r]
      BY <2>2 DEF Remove
    <2> QED BY <1>1, <2>1, <2>3, SockSame
  <1>3. r \in CoopRows /\ r.at = "closing" /\ ~r.reg /\ r.reading = row.reading
        /\ Len(r.queue) <= QueueCap
    <2>1. <<>> \in Seq(1..MaxData) /\ Len(<<>>) = 0
      OBVIOUS
    <2>2. r.queue = <<>>
      BY <1>1 DEF CoopRows
    <2>3. r \in CoopRows /\ r.at = "closing" /\ ~r.reg /\ r.reading = row.reading
      BY <1>1, <2>1 DEF CoopRows
    <2> QED BY <2>1, <2>2, <2>3, BoundsOfN
  <1>4. x \notin Usable
    BY <1>1, <1>2 DEF SocketOK
  <1> HIDE DEF r, x
  <1>5. end'[e][s] = r /\ sock'[e][s] = x => Wears(e, s)
    BY <1>1, <1>2, <1>3, <1>4 DEF Wears, SocketOK
  <1> QED BY <1>1, <1>2, <1>3, <1>4, <1>5, ControlSame, PipesSame, OneWears

\* A frame that announces or carries nothing.
LEMMA Enqueues ==
  ASSUME TunnelInv, NEW e \in Sides, NEW f \in Frames, f.t \in {"ready", "close"},
         Enqueue(e, f), UNCHANGED <<sent, got>>
  PROVE  PipesTyped' /\ \A d \in Sides : PipeWears(d)
  <1>1. CASE e \in done
    BY <1>1, PipesSame DEF Enqueue
  <1>2. CASE e \notin done
    <2>1. PipesTyped /\ wire[e] \in Seq(Frames) /\ Len(wire[e]) \in Nat
      BY TunnelTyped DEF TunnelInv
    <2> DEFINE v == Append(wire[e], f)
    <2>2. v \in Seq(Frames) /\ Len(v) <= WireCap /\ wire' = [wire EXCEPT ![e] = v]
      BY <1>2, <2>1, BoundsOfN DEF Enqueue
    <2>3. PipesTyped' /\ wire'[e] = v /\ \A d \in Sides : d # e => wire'[d] = wire[d]
      BY <2>1, <2>2, WireSet
    <2> QED BY <2>3 DEF PipeWears
  <1> QED BY <1>1, <1>2

LEMMA SendCloseStep ==
  ASSUME TunnelInv, NEW e \in Sides, NEW s \in Streams, SendClose(e, s)
  PROVE  TunnelInv'
  <1> DEFINE row == end[e][s]
             r == [row EXCEPT !.at = "gone"]
             x == sock[e][s]
  <1>1. /\ row \in CoopRows /\ x \in SockStates
        /\ SocketOK(e, s) /\ RowsTyped /\ Len(row.queue) <= QueueCap
    BY TunnelTyped DEF TunnelInv, StreamsInv, RowsTyped
  <1>2. /\ end' = [end EXCEPT ![e][s] = r] /\ sock' = [sock EXCEPT ![e][s] = x]
        /\ row.at = "closing" /\ UNCHANGED <<tunnelVars, done, shut, sent, got>>
    BY <1>1, SockSame DEF SendClose, RowsTyped
  <1>3. r \in CoopRows /\ r.at = "gone" /\ r.reg = row.reg /\ r.reading = row.reading
        /\ r.queue = row.queue
    BY <1>1 DEF CoopRows
  <1>4. x \notin Usable
    BY <1>1, <1>2 DEF SocketOK
  <1> HIDE DEF r, x
  <1>5. end'[e][s] = r /\ sock'[e][s] = x => Wears(e, s)
    BY <1>1, <1>2, <1>3, <1>4 DEF Wears, SocketOK
  <1>6. Frame("close", s) \in Frames /\ Frame("close", s).t = "close"
    BY DEF Frame, Frames
  <1>7. PipesTyped' /\ \A d \in Sides : PipeWears(d)
    BY <1>2, <1>6, Enqueues, PipesSame DEF SendClose
  <1> QED BY <1>1, <1>2, <1>3, <1>4, <1>5, <1>7, ControlSame, OneWears

LEMMA HangUpStep ==
  ASSUME TunnelInv, NEW e \in Sides, NEW s \in Streams, HangUp(e, s)
  PROVE  TunnelInv'
  <1>1. /\ end[e][s] \in CoopRows /\ Len(end[e][s].queue) <= QueueCap
        /\ SocketOK(e, s) /\ RowsTyped
    BY TunnelTyped DEF TunnelInv, StreamsInv, RowsTyped
  <1>2. /\ end' = [end EXCEPT ![e][s] = end[e][s]] /\ sock' = [sock EXCEPT ![e][s] = "hungup"]
        /\ sock[e][s] = "open" /\ UNCHANGED <<tunnelVars, done, shut, wire, sent, got>>
    BY <1>1, EndSame DEF HangUp
  <1>3. end'[e][s] = end[e][s] /\ sock'[e][s] = "hungup" => Wears(e, s)
    BY <1>1, <1>2 DEF Wears, SocketOK, Usable
  <1>4. "hungup" \in SockStates
    BY DEF SockStates
  <1> QED BY <1>4, <1>1, <1>2, <1>3, ControlSame, PipesSame, OneWears

\* The head of a pipe that carries nothing is read.
LEMMA ReadsHead ==
  ASSUME TunnelInv, NEW e \in Sides, wire[e] # <<>>, Head(wire[e]).t \in {"ready", "close"},
         wire' = [wire EXCEPT ![e] = Tail(@)], UNCHANGED <<sent, got>>
  PROVE  PipesTyped' /\ \A d \in Sides : PipeWears(d)
  <1>1. PipesTyped /\ wire[e] \in Seq(Frames) /\ Len(wire[e]) <= WireCap /\ Len(wire[e]) \in Nat
    BY TunnelTyped DEF TunnelInv, PipesTyped
  <1> DEFINE v == Tail(wire[e])
  <1>2. v \in Seq(Frames) /\ Len(v) <= WireCap /\ wire' = [wire EXCEPT ![e] = v]
    BY <1>1, TailOfWire, BoundsOfN
  <1>3. PipesTyped' /\ wire'[e] = v /\ \A d \in Sides : d # e => wire'[d] = wire[d]
    BY <1>1, <1>2, WireSet
  <1> QED BY <1>3 DEF PipeWears

LEMMA PeerClosedStep ==
  ASSUME TunnelInv, NEW e \in Sides, NEW s \in Streams, PeerClosed(e, s),
         wire[Other(e)] # <<>>, Head(wire[Other(e)]).t = "close",
         wire' = [wire EXCEPT ![Other(e)] = Tail(@)],
         UNCHANGED <<tunnelVars, done, shut, sent, got>>
  PROVE  TunnelInv'
  <1>1. /\ end[e][s] \in CoopRows /\ sock[e][s] \in SockStates
        /\ SocketOK(e, s) /\ RowsTyped /\ Len(end[e][s].queue) <= QueueCap
    BY TunnelTyped DEF TunnelInv, StreamsInv, RowsTyped
  <1>2. PipesTyped' /\ \A d \in Sides : PipeWears(d)
    BY ReadsHead, Others
  <1>3. CASE end[e][s].reg
    <2> DEFINE row == end[e][s]
               r == [Closed(row) EXCEPT !.peer = TRUE]
               x == Shut(sock[e][s])
    <2>1. end' = [end EXCEPT ![e][s] = r] /\ sock' = [sock EXCEPT ![e][s] = x]
      BY <1>3 DEF PeerClosed
    <2>2. r \in CoopRows /\ r.at = row.at /\ r.queue = row.queue /\ r.reg = row.reg /\ r.closed
          /\ r.reading = row.reading
      BY <1>1 DEF CoopRows, Closed
    <2>3. x \in SockStates /\ x \notin Usable
      BY <1>1, Shuts
    <2> HIDE DEF r, x
    <2>4. end'[e][s] = r /\ sock'[e][s] = x => Wears(e, s)
      BY <1>1, <1>3, <2>2, <2>3 DEF Wears, SocketOK
    <2> QED BY <1>1, <1>2, <2>1, <2>2, <2>3, <2>4, ControlSame, OneWears
  <1>4. CASE ~end[e][s].reg
    <2>1. end' = end /\ sock' = sock
      BY <1>4 DEF PeerClosed
    <2>2. RowsTyped' /\ \A d \in Sides, q \in Streams : Wears(d, q)
      BY <1>1, <2>1, UnwornSame DEF RowsTyped
    <2> QED BY <1>2, <2>2, ControlSame, WearStep DEF TunnelInv
  <1> QED BY <1>3, <1>4

-----------------------------------------------------------------------------
(* Steps of a whole side, of the launcher and of the relay process.            *)

LEMMA SidesStay ==
  ASSUME TunnelInv, ControlTyped', done \subseteq done', UNCHANGED <<end, sock, sent, got>>,
         PipesTyped', \A d \in Sides : PipeWears(d)
  PROVE  TunnelInv'
  <1>1. RowsTyped'
    BY DEF TunnelInv, RowsTyped
  <1>2. \A d \in Sides, q \in Streams : Wears(d, q)
    BY UnwornSame
  <1> QED BY <1>1, <1>2, WearStep DEF TunnelInv

LEMMA CutPipe ==
  ASSUME TunnelInv, NEW e \in Sides, e \in done', UNCHANGED <<sent, got>>,
         NEW k \in 0..Len(wire[e]), wire' = [wire EXCEPT ![e] = SubSeq(@, 1, k)]
  PROVE  PipesTyped' /\ \A d \in Sides : PipeWears(d)
  <1>1. PipesTyped /\ wire[e] \in Seq(Frames) /\ Len(wire[e]) <= WireCap /\ Len(wire[e]) \in Nat
    BY TunnelTyped DEF TunnelInv, PipesTyped
  <1> DEFINE v == SubSeq(wire[e], 1, k)
  <1>2. v \in Seq(Frames) /\ Len(v) <= WireCap /\ wire' = [wire EXCEPT ![e] = v]
    BY <1>1, CutOfWire, BoundsOfN
  <1>3. PipesTyped' /\ wire'[e] = v /\ \A d \in Sides : d # e => wire'[d] = wire[d]
    BY <1>1, <1>2, WireSet
  <1> QED BY <1>3 DEF PipeWears

LEMMA LauncherSteps ==
  ASSUME TunnelInv, StartCoop \/ StopCoop \/ PumpExits \/ PumpDone \/ Reap
  PROVE  TunnelInv'
  <1>1. ControlTyped' /\ done \subseteq done' /\ UNCHANGED <<end, sock, wire, sent, got>>
    <2>1. ControlTyped /\ "pump" \in Sides
      BY Others DEF TunnelInv
    <2>2. CASE StartCoop
      BY <2>1, <2>2 DEF StartCoop, ControlTyped
    <2>3. CASE StopCoop
      BY <2>1, <2>3 DEF StopCoop, ControlTyped
    <2>4. CASE PumpExits
      BY <2>1, <2>4 DEF PumpExits, ControlTyped
    <2>5. CASE PumpDone
      BY <2>1, <2>5 DEF PumpDone, ControlTyped, tunnelVars
    <2>6. CASE Reap
      BY <2>1, <2>6 DEF Reap, ControlTyped
    <2> QED BY <2>2, <2>3, <2>4, <2>5, <2>6
  <1> QED BY <1>1, PipesSame, SidesStay

LEMMA RelayBootsStep ==
  ASSUME TunnelInv, RelayBoots
  PROVE  TunnelInv'
  <1>1. ControlTyped' /\ done \subseteq done' /\ UNCHANGED <<end, sock, sent, got>>
    BY DEF RelayBoots, TunnelInv, ControlTyped
  <1>2. Frame("ready", 0) \in Frames /\ Frame("ready", 0).t = "ready"
    BY DEF Frame, Frames
  <1>3. PipesTyped' /\ \A d \in Sides : PipeWears(d)
    BY <1>1, <1>2, Enqueues, Others DEF RelayBoots
  <1> QED BY <1>1, <1>3, SidesStay

LEMMA ReadyStep ==
  ASSUME TunnelInv, Ready
  PROVE  TunnelInv'
  <1>1. ControlTyped' /\ done \subseteq done' /\ UNCHANGED <<end, sock, sent, got>>
    BY DEF Ready, TunnelInv, ControlTyped
  <1>2. PipesTyped' /\ \A d \in Sides : PipeWears(d)
    BY <1>1, ReadsHead, Others DEF Ready
  <1> QED BY <1>1, <1>2, SidesStay

LEMMA CloseStdinStep ==
  ASSUME TunnelInv, CloseStdin
  PROVE  TunnelInv'
  <1>1. ControlTyped' /\ done \subseteq done' /\ UNCHANGED <<end, sock, sent, got>>
        /\ "pump" \in done'
    BY DEF CloseStdin, TunnelInv, ControlTyped
  <1>2. PICK k \in 0..Len(wire["pump"]) : wire' = [wire EXCEPT !["pump"] = SubSeq(@, 1, k)]
    BY DEF CloseStdin
  <1>3. PipesTyped' /\ \A d \in Sides : PipeWears(d)
    BY <1>1, <1>2, CutPipe, Others
  <1> QED BY <1>1, <1>3, SidesStay

LEMMA ShutDownWears ==
  ASSUME TunnelInv, NEW e \in Sides, ShutDown(e)
  PROVE  RowsTyped' /\ \A d \in Sides, q \in Streams : Wears(d, q)
  <1>1. RowsTyped /\ \A s \in Streams : /\ end[e][s] \in CoopRows /\ SocketOK(e, s)
                                        /\ sock[e][s] \in SockStates
                                        /\ Len(end[e][s].queue) <= QueueCap
    BY TunnelTyped DEF TunnelInv, StreamsInv, RowsTyped
  <1>2. /\ end' = [end EXCEPT ![e] = [s \in Streams |->
                     IF end[e][s].reg THEN Closed(end[e][s]) ELSE end[e][s]]]
        /\ sock' = [sock EXCEPT ![e] = [s \in Streams |->
                     IF end[e][s].reg THEN Shut(sock[e][s]) ELSE sock[e][s]]]
    BY DEF ShutDown
  <1>3. /\ \A s \in Streams : /\ end'[e][s] = IF end[e][s].reg THEN Closed(end[e][s]) ELSE end[e][s]
                              /\ sock'[e][s] = IF end[e][s].reg THEN Shut(sock[e][s]) ELSE sock[e][s]
        /\ \A d \in Sides, s \in Streams : d # e => end'[d][s] = end[d][s] /\ sock'[d][s] = sock[d][s]
    BY <1>1, <1>2 DEF RowsTyped
  <1>4. ASSUME NEW s \in Streams
        PROVE  /\ end'[e][s] \in CoopRows /\ sock'[e][s] \in SockStates
               /\ Len(end'[e][s].queue) <= QueueCap /\ Wears(e, s)
    <2>1. CASE end[e][s].reg
      <3>1. /\ end'[e][s] \in CoopRows /\ end'[e][s].closed /\ end'[e][s].at = end[e][s].at
            /\ end'[e][s].reg = end[e][s].reg /\ end'[e][s].reading = end[e][s].reading
            /\ end'[e][s].queue = end[e][s].queue
        <4>1. end'[e][s] = Closed(end[e][s]) /\ end[e][s] \in CoopRows
          BY <1>1, <1>3, <2>1
        <4> QED BY <4>1, RowFields
      <3>2. sock'[e][s] \in SockStates /\ sock'[e][s] \notin Usable
        BY <1>1, <1>3, <2>1, Shuts
      <3> QED BY <1>1, <2>1, <3>1, <3>2 DEF Wears, SocketOK
    <2>2. CASE ~end[e][s].reg
      <3>1. end'[e][s] = end[e][s] /\ sock'[e][s] = sock[e][s]
        BY <1>3, <2>2
      <3> QED BY <1>1, <3>1, UnwornSame
    <2> QED BY <2>1, <2>2
  <1>5. /\ end' \in [Sides -> [Streams -> CoopRows]]
        /\ sock' \in [Sides -> [Streams -> SockStates]]
    <2>1. /\ [s \in Streams |-> IF end[e][s].reg THEN Closed(end[e][s]) ELSE end[e][s]]
               \in [Streams -> CoopRows]
          /\ [s \in Streams |-> IF end[e][s].reg THEN Shut(sock[e][s]) ELSE sock[e][s]]
               \in [Streams -> SockStates]
      BY <1>3, <1>4
    <2> QED BY <1>1, <1>2, <2>1 DEF RowsTyped
  <1>6. \A d \in Sides, q \in Streams : Len(end'[d][q].queue) <= QueueCap /\ Wears(d, q)
    <2> SUFFICES ASSUME NEW d \in Sides, NEW q \in Streams
                 PROVE  Len(end'[d][q].queue) <= QueueCap /\ Wears(d, q)
      OBVIOUS
    <2>1. CASE d = e
      BY <1>4, <2>1
    <2>2. CASE d # e
      <3>1. end'[d][q] = end[d][q] /\ sock'[d][q] = sock[d][q] /\ Len(end[d][q].queue) <= QueueCap
        BY <1>1, <1>3, <2>2 DEF RowsTyped
      <3> QED BY <3>1, UnwornSame
    <2> QED BY <2>1, <2>2
  <1> QED BY <1>5, <1>6 DEF RowsTyped

LEMMA RelayStopsStep ==
  ASSUME TunnelInv, RelayStops
  PROVE  TunnelInv'
  <1>1. ControlTyped' /\ done \subseteq done' /\ UNCHANGED <<wire, sent, got>>
    BY Others DEF RelayStops, TunnelInv, ControlTyped
  <1>2. RowsTyped' /\ \A d \in Sides, q \in Streams : Wears(d, q)
    BY ShutDownWears, Others DEF RelayStops
  <1> QED BY <1>1, <1>2, PipesSame, WearStep DEF TunnelInv

LEMMA PumpShutStep ==
  ASSUME TunnelInv, PumpShut
  PROVE  TunnelInv'
  <1>1. ControlTyped' /\ done \subseteq done' /\ UNCHANGED <<wire, sent, got>>
    BY DEF PumpShut, TunnelInv, ControlTyped, tunnelVars
  <1>2. RowsTyped' /\ \A d \in Sides, q \in Streams : Wears(d, q)
    BY ShutDownWears, Others DEF PumpShut
  <1> QED BY <1>1, <1>2, PipesSame, WearStep DEF TunnelInv

LEMMA RelayEndsStep ==
  ASSUME TunnelInv, RelayEnds
  PROVE  TunnelInv'
  <1> DEFINE after(s) == IF end["relay"][s].at = "none" THEN end["relay"][s]
                         ELSE [Absent EXCEPT !.at = "gone", !.closed = TRUE]
  <1>1. RowsTyped /\ PipesTyped /\ "relay" \in Sides /\ "pump" \in Sides
        /\ \A s \in Streams : /\ end["relay"][s] \in CoopRows /\ SocketOK("relay", s)
                              /\ sock["relay"][s] \in SockStates
                              /\ Len(end["relay"][s].queue) <= QueueCap
    BY TunnelTyped, Others DEF TunnelInv, StreamsInv, RowsTyped
  <1>2. ControlTyped' /\ done \subseteq done' /\ "relay" \in done' /\ UNCHANGED <<sent, got>>
    BY Others DEF RelayEnds, TunnelInv, ControlTyped
  <1>3. /\ end' = [end EXCEPT !["relay"] = [s \in Streams |-> after(s)]]
        /\ sock' = [sock EXCEPT !["relay"] = [s \in Streams |-> Shut(sock["relay"][s])]]
    BY DEF RelayEnds
  <1>4. ASSUME NEW s \in Streams
        PROVE  /\ after(s) \in CoopRows /\ Len(after(s).queue) <= QueueCap
               /\ after(s).at \in {"none", "gone"}
               /\ after(s).at = "none" <=> end["relay"][s].at = "none"
               /\ after(s).at = "none" => after(s) = end["relay"][s]
               /\ ~after(s).reg /\ ~after(s).reading
    <2>1. CASE end["relay"][s].at = "none"
      BY <1>1, <2>1 DEF SocketOK
    <2>2. CASE end["relay"][s].at # "none"
      <3>1. <<>> \in Seq(1..MaxData) /\ Len(<<>>) = 0
        OBVIOUS
      <3>2. after(s) = [at |-> "gone", reg |-> FALSE, closed |-> TRUE, peer |-> FALSE,
                        reading |-> FALSE, queue |-> <<>>]
        BY <2>2 DEF Absent
      <3> HIDE DEF after
      <3>3. after(s) \in CoopRows
        BY <3>1, <3>2 DEF CoopRows
      <3>4. after(s).queue = <<>> /\ after(s).at = "gone" /\ ~after(s).reg /\ ~after(s).reading
        BY <3>2
      <3>5. Len(after(s).queue) <= QueueCap
        BY <3>1, <3>4, BoundsOfN
      <3> QED BY <2>2, <3>3, <3>4, <3>5
    <2> QED BY <2>1, <2>2
  <1> HIDE DEF after
  <1>5. /\ \A s \in Streams : end'["relay"][s] = after(s) /\ sock'["relay"][s] = Shut(sock["relay"][s])
        /\ \A s \in Streams : end'["pump"][s] = end["pump"][s] /\ sock'["pump"][s] = sock["pump"][s]
    BY <1>1, <1>3 DEF RowsTyped
  <1>6. \A s \in Streams : sock'["relay"][s] \in SockStates /\ sock'["relay"][s] \notin Usable
    BY <1>1, <1>5, Shuts
  <1>7. RowsTyped'
    <2>1. [s \in Streams |-> after(s)] \in [Streams -> CoopRows]
          /\ [s \in Streams |-> Shut(sock["relay"][s])] \in [Streams -> SockStates]
      BY <1>4, <1>5, <1>6
    <2>2. /\ end' \in [Sides -> [Streams -> CoopRows]]
          /\ sock' \in [Sides -> [Streams -> SockStates]]
      BY <1>1, <1>3, <2>1 DEF RowsTyped
    <2>3. \A s \in Streams : Len(end'["relay"][s].queue) <= QueueCap
      BY <1>4, <1>5
    <2>4. \A s \in Streams : Len(end["pump"][s].queue) <= QueueCap
      BY <1>1 DEF RowsTyped
    <2>5. \A s \in Streams : Len(end'["pump"][s].queue) <= QueueCap
      BY <1>5, <2>4
    <2> QED BY <2>2, <2>3, <2>5, Others DEF RowsTyped
  <1>8. \A d \in Sides, q \in Streams : Wears(d, q)
    <2>1. \A q \in Streams : Wears("relay", q)
      BY <1>4, <1>5, <1>6 DEF Wears
    <2>2. \A q \in Streams : Wears("pump", q)
      BY <1>1, <1>5, UnwornSame
    <2> QED BY <2>1, <2>2, Others
  <1>9. PipesTyped' /\ \A d \in Sides : PipeWears(d)
    <2>1. PICK k \in 0..Len(wire["relay"]) :
            wire' = [wire EXCEPT !["relay"] = SubSeq(@, 1, k), !["pump"] = <<>>]
      BY DEF RelayEnds
    <2>2. /\ wire["relay"] \in Seq(Frames) /\ wire["pump"] \in Seq(Frames)
          /\ Len(wire["relay"]) \in Nat /\ Len(wire["pump"]) \in Nat
          /\ Len(wire["relay"]) <= WireCap
      BY <1>1, TunnelTyped DEF PipesTyped
    <2>3. wire'["relay"] = SubSeq(wire["relay"], 1, k) /\ wire'["pump"] = <<>>
      BY <1>1, <2>1 DEF PipesTyped
    <2>4. SubSeq(wire["relay"], 1, k) \in Seq(Frames) /\ Len(SubSeq(wire["relay"], 1, k)) = k
      BY <2>2, CutOfWire
    <2>5. <<>> \in Seq(Frames) /\ Len(<<>>) = 0 /\ <<>> = SubSeq(wire["pump"], 1, 0)
          /\ 0 \in 0..Len(wire["pump"])
      BY <2>2
    <2>6. wire' \in [Sides -> Seq(Frames)]
      BY <1>1, <2>1, <2>4, <2>5 DEF PipesTyped
    <2>7. Len(wire'["relay"]) <= WireCap /\ Len(wire'["pump"]) <= WireCap
      BY <2>2, <2>3, <2>4, <2>5, BoundsOfN
    <2>8. PipesTyped'
      BY <1>1, <1>2, <2>6, <2>7, Others DEF PipesTyped
    <2>9. PipeWears("relay")
      BY <1>2, <2>3 DEF PipeWears
    <2>10. \A s \in Streams : ~Due("relay", s)'
      BY <1>4, <1>5 DEF Due
    <2>11. PipeWears("pump")
      BY <2>3, <2>5, <2>10, Others DEF PipeWears
    <2> QED BY <2>8, <2>9, <2>11, Others
  <1> QED BY <1>2, <1>7, <1>8, <1>9, WearStep DEF TunnelInv

-----------------------------------------------------------------------------
(* Steps of one stream: the others see nothing of them.                        *)

PipePasses(d, q) ==
  \/ wire'[d] = wire[d]
  \/ \E f \in Frames : ~OpenFrame(f, q) /\ ~DataFrame(f, q) /\ wire'[d] = Append(wire[d], f)
  \/ /\ wire[d] # <<>> /\ ~OpenFrame(Head(wire[d]), q) /\ ~DataFrame(Head(wire[d]), q)
     /\ wire'[d] = Tail(wire[d])

StreamOK(q) ==
  /\ \A d \in Sides : SocketOK(d, q) /\ FreshOK(d, q) /\ FlowOK(d, q) /\ OrderOK(d, q)
  /\ OpeningOK(q)

LEMMA PipePassed ==
  ASSUME TunnelInv, NEW e \in Sides, NEW s \in Streams, PipePasses(e, s)
  PROVE  /\ HasOpen(wire'[e], s) => HasOpen(wire[e], s)
         /\ NoData(wire[e], s) => NoData(wire'[e], s)
         /\ OneOpen(wire[e], s) => OneOpen(wire'[e], s)
         /\ \A taken, n \in Nat : InStep(taken, n, wire[e], s) =>
              /\ InStep(taken, n, wire'[e], s)
              /\ Complete(taken, n, wire[e], s) => Complete(taken, n, wire'[e], s)
  <1> DEFINE w == wire[e]
  <1>1. w \in Seq(Frames) /\ Len(w) \in Nat
    BY TunnelTyped DEF TunnelInv
  <1> HIDE DEF w
  <1>2. CASE wire'[e] = w
    BY <1>2 DEF w
  <1>3. CASE \E f \in Frames : ~OpenFrame(f, s) /\ ~DataFrame(f, s) /\ wire'[e] = Append(w, f)
    <2>1. PICK f \in Frames : ~OpenFrame(f, s) /\ ~DataFrame(f, s) /\ wire'[e] = Append(w, f)
      BY <1>3
    <2>2. \A taken, n \in Nat : InStep(taken, n, w, s) =>
            /\ InStep(taken, n, wire'[e], s)
            /\ Complete(taken, n, w, s) => Complete(taken, n, wire'[e], s)
      BY <1>1, <2>1, InStepAppended
    <2> QED BY <1>1, <2>1, <2>2, OpensAppended DEF w
  <1>4. CASE w # <<>> /\ ~DataFrame(Head(w), s) /\ wire'[e] = Tail(w)
    <2>1. \A taken, n \in Nat : InStep(taken, n, w, s) =>
            /\ InStep(taken, n, wire'[e], s)
            /\ Complete(taken, n, w, s) => Complete(taken, n, wire'[e], s)
      BY <1>1, <1>4, InStepTail
    <2>2. Len(wire'[e]) \in Nat /\ \A i \in 1..Len(wire'[e]) :
            i + 1 \in 1..Len(w) /\ wire'[e][i] = w[i + 1]
      BY <1>1, <1>4, TailOfWire
    <2>3. /\ HasOpen(wire'[e], s) => HasOpen(w, s)
          /\ NoData(w, s) => NoData(wire'[e], s)
          /\ OneOpen(w, s) => OneOpen(wire'[e], s)
      BY <1>1, <2>2, OpensLeft
    <2> QED BY <2>1, <2>3 DEF w
  <1> QED BY <1>2, <1>3, <1>4 DEF PipePasses, w

\* What a stream needs of a pipe that passes, when its own rows stay.
LEMMA FlowStays ==
  ASSUME TunnelInv, NEW e \in Sides, NEW s \in Streams, done \subseteq done',
         PipePasses(Other(e), s), PipePasses("relay", s),
         Taken(e, s)' = Taken(e, s), sent'[Other(e)][s] = sent[Other(e)][s],
         Due(e, s)' => /\ Due(e, s)
                       /\ \A i \in 1..Len(end'[e][s].queue) :
                            end'[e][s].queue[i] = Len(got'[e][s]) + i
  PROVE  FlowOK(e, s)'
  <1> DEFINE o == Other(e)
  <1> SUFFICES ASSUME Due(e, s)'
               PROVE  /\ InStep(Taken(e, s)', sent'[o][s], wire'[o], s)
                      /\ o \in done' \/ Complete(Taken(e, s)', sent'[o][s], wire'[o], s)
    BY DEF FlowOK
  <1>1. o \in Sides /\ sent[o][s] \in Nat /\ Taken(e, s) \in Nat
    BY TunnelTyped, Others DEF TunnelInv
  <1>2. /\ InStep(Taken(e, s), sent[o][s], wire[o], s)
        /\ o \in done \/ Complete(Taken(e, s), sent[o][s], wire[o], s)
    BY DEF FlowOK, TunnelInv, StreamsInv
  <1> HIDE DEF o
  <1>3. /\ InStep(Taken(e, s), sent[o][s], wire'[o], s)
        /\ o \in done \/ Complete(Taken(e, s), sent[o][s], wire'[o], s)
    BY <1>1, <1>2, PipePassed DEF o
  <1> QED BY <1>3 DEF o

LEMMA OthersPass ==
  ASSUME TunnelInv, NEW q \in Streams, done \subseteq done',
         \A d \in Sides : /\ end'[d][q] = end[d][q] /\ sock'[d][q] = sock[d][q]
                          /\ sent'[d][q] = sent[d][q] /\ got'[d][q] = got[d][q]
                          /\ PipePasses(d, q)
  PROVE  StreamOK(q)'
  <1>1. OpeningOK(q) /\ "relay" \in Sides /\ "pump" \in Sides
    BY Others DEF TunnelInv, StreamsInv
  <1>2. /\ HasOpen(wire'["relay"], q) => HasOpen(wire["relay"], q)
        /\ NoData(wire["relay"], q) => NoData(wire'["relay"], q)
        /\ OneOpen(wire["relay"], q) => OneOpen(wire'["relay"], q)
    BY <1>1, PipePassed
  <1>3. OpeningOK(q)'
    BY <1>1, <1>2 DEF OpeningOK
  <1>4. ASSUME NEW d \in Sides
        PROVE  SocketOK(d, q)' /\ FreshOK(d, q)' /\ FlowOK(d, q)' /\ OrderOK(d, q)'
    <2>1. SocketOK(d, q) /\ FreshOK(d, q) /\ FlowOK(d, q) /\ OrderOK(d, q)
      BY DEF TunnelInv, StreamsInv
    <2>2. SocketOK(d, q)' /\ OrderOK(d, q)'
      BY <2>1 DEF SocketOK, OrderOK
    <2>3. FreshOK(d, q)'
      <3>1. NoData(wire[d], q) => NoData(wire'[d], q)
        BY PipePassed
      <3> QED BY <2>1, <3>1 DEF FreshOK
    <2>4. Due(d, q)' => Due(d, q)
      BY <1>2 DEF Due
    <2>5. Taken(d, q)' = Taken(d, q) /\ Other(d) \in Sides
      BY Others DEF Taken
    <2>6. FlowOK(d, q)'
      BY <1>1, <2>1, <2>4, <2>5, FlowStays DEF FlowOK
    <2> QED BY <2>2, <2>3, <2>6
  <1> QED BY <1>3, <1>4 DEF StreamOK

LEMMA OneStream ==
  ASSUME TunnelInv, UNCHANGED <<tunnelVars, done, shut>>, RowsTyped', PipesTyped',
         NEW s \in Streams, StreamOK(s)',
         \A q \in Streams : q # s =>
           \A d \in Sides : /\ end'[d][q] = end[d][q] /\ sock'[d][q] = sock[d][q]
                            /\ sent'[d][q] = sent[d][q] /\ got'[d][q] = got[d][q]
                            /\ PipePasses(d, q)
  PROVE  TunnelInv'
  <1>1. ControlTyped' /\ done \subseteq done'
    BY ControlSame
  <1>2. \A q \in Streams : StreamOK(q)'
    BY <1>1, OthersPass
  <1> QED BY <1>1, <1>2 DEF TunnelInv, StreamsInv, StreamOK

LEMMA PipesPass ==
  ASSUME TunnelInv, wire' = wire
  PROVE  \A d \in Sides, q \in Streams : PipePasses(d, q)
  BY DEF PipePasses

LEMMA AcceptStep ==
  ASSUME TunnelInv, NEW s \in Streams, Accept(s)
  PROVE  TunnelInv'
  <1> DEFINE row == end["relay"][s]
             r == [row EXCEPT !.at = "opening", !.reg = TRUE]
  <1>1. /\ "relay" \in Sides /\ "pump" \in Sides /\ row \in CoopRows /\ Len(row.queue) <= QueueCap
        /\ Other("relay") = "pump" /\ Other("pump") = "relay"
        /\ \A d \in Sides : SocketOK(d, s) /\ FreshOK(d, s) /\ FlowOK(d, s) /\ OrderOK(d, s)
        /\ OpeningOK(s)
    BY TunnelTyped, Others DEF TunnelInv, StreamsInv, RowsTyped
  <1>2. /\ end' = [end EXCEPT !["relay"][s] = r] /\ sock' = [sock EXCEPT !["relay"][s] = "open"]
        /\ row.at = "none" /\ UNCHANGED <<tunnelVars, done, shut, wire, sent, got>>
    BY DEF Accept
  <1>3. r \in CoopRows /\ r.at = "opening" /\ r.reg /\ r.queue = row.queue /\ r.closed = row.closed
        /\ r.reading = row.reading
    BY <1>1 DEF CoopRows
  <1>4. row = Absent /\ ~row.closed /\ ~row.reading /\ row.queue = <<>> /\ got["relay"][s] = <<>>
        /\ sent["relay"][s] = 0
    <2>1. row = Absent /\ got["relay"][s] = <<>> /\ sent["relay"][s] = 0
      BY <1>1, <1>2 DEF FreshOK
    <2> HIDE DEF row
    <2> QED BY <2>1 DEF Absent
  <1>5. end["pump"][s].at = "none" /\ sent["pump"][s] = 0 /\ NoData(wire["pump"], s)
    BY <1>1, <1>2 DEF FreshOK, OpeningOK
  <1> HIDE DEF r
  <1>6. "open" \in SockStates /\ "open" \in Usable
    BY DEF SockStates, Usable
  <1>7. /\ RowsTyped' /\ end'["relay"][s] = r /\ sock'["relay"][s] = "open"
        /\ \A d \in Sides, q \in Streams : d # "relay" \/ q # s =>
             end'[d][q] = end[d][q] /\ sock'[d][q] = sock[d][q]
    <2>1. Len(r.queue) <= QueueCap
      BY <1>1, <1>3
    <2>2. SetsRow("relay", s, r, "open")
      BY <1>2, <1>3, <1>6, <2>1 DEF SetsRow
    <2> QED BY <1>1, <2>2, RowSet
  <1>8. SocketOK("relay", s)' /\ FreshOK("relay", s)' /\ OrderOK("relay", s)'
    BY <1>1, <1>2, <1>3, <1>4, <1>7 DEF SocketOK, FreshOK, OrderOK
  <1>9. FlowOK("relay", s)'
    <2>1. end'["relay"][s].queue = <<>> /\ got'["relay"][s] = <<>> /\ Len(<<>>) = 0
          /\ wire' = wire /\ sent' = sent
      BY <1>2, <1>3, <1>4, <1>7
    <2>2. Taken("relay", s)' = 0
      BY <2>1 DEF Taken
    <2>3. InStep(0, 0, wire["pump"], s) /\ Complete(0, 0, wire["pump"], s)
      BY <1>5 DEF InStep, Complete, NoData
    <2>4. \A i \in 1..0 : FALSE
      OBVIOUS
    <2> QED BY <1>1, <1>5, <2>1, <2>2, <2>3, <2>4 DEF FlowOK
  <1>10. SocketOK("pump", s)' /\ FreshOK("pump", s)' /\ OrderOK("pump", s)' /\ FlowOK("pump", s)'
    <2>1. /\ end'["pump"][s] = end["pump"][s] /\ sock'["pump"][s] = sock["pump"][s]
          /\ wire' = wire /\ sent' = sent /\ got' = got /\ done' = done
      BY <1>1, <1>2, <1>7
    <2>2. SocketOK("pump", s)' /\ FreshOK("pump", s)' /\ OrderOK("pump", s)'
      BY <1>1, <2>1 DEF SocketOK, FreshOK, OrderOK
    <2>3. Taken("pump", s)' = Taken("pump", s) /\ (Due("pump", s)' => Due("pump", s))
      BY <2>1 DEF Taken, Due
    <2> QED BY <1>1, <2>1, <2>2, <2>3, PipesPass, FlowStays DEF FlowOK
  <1>11. OpeningOK(s)'
    BY <1>1, <1>2, <1>3, <1>4, <1>7 DEF OpeningOK
  <1>12. StreamOK(s)'
    BY <1>8, <1>9, <1>10, <1>11, Others DEF StreamOK
  <1>13. PipesTyped' /\ \A d \in Sides, q \in Streams : PipePasses(d, q)
    BY <1>2, PipesSame, PipesPass
  <1> QED BY <1>2, <1>7, <1>12, <1>13, OneStream

\* A frame is appended to a pipe.
LEMMA Appends ==
  ASSUME TunnelInv, NEW e \in Sides, NEW f \in Frames, e \notin done, Enqueue(e, f)
  PROVE  /\ wire' \in [Sides -> Seq(Frames)] /\ \A d \in Sides : Len(wire'[d]) <= WireCap
         /\ wire'[e] = Append(wire[e], f) /\ \A d \in Sides : d # e => wire'[d] = wire[d]
  <1>1. /\ wire \in [Sides -> Seq(Frames)] /\ wire[e] \in Seq(Frames) /\ Len(wire[e]) \in Nat
        /\ \A d \in Sides : Len(wire[d]) <= WireCap
    BY TunnelTyped DEF TunnelInv, PipesTyped
  <1>2. wire' = [wire EXCEPT ![e] = Append(@, f)] /\ Len(wire[e]) < WireCap
    BY DEF Enqueue
  <1>3. Append(wire[e], f) \in Seq(Frames) /\ Len(Append(wire[e], f)) = Len(wire[e]) + 1
    BY <1>1, AppendedWire
  <1>4. /\ wire' \in [Sides -> Seq(Frames)]
        /\ wire'[e] = Append(wire[e], f) /\ \A d \in Sides : d # e => wire'[d] = wire[d]
    BY <1>1, <1>2, <1>3
  <1>5. Len(wire'[e]) <= WireCap
    BY <1>1, <1>2, <1>3, <1>4, BoundsOfN
  <1>6. \A d \in Sides : Len(wire'[d]) <= WireCap
    BY <1>1, <1>4, <1>5
  <1> QED BY <1>4, <1>6

LEMMA SendOpenStep ==
  ASSUME TunnelInv, NEW s \in Streams, SendOpen(s)
  PROVE  TunnelInv'
  <1> DEFINE row == end["relay"][s]
             f == Frame("open", s)
  <1>1. /\ "relay" \in Sides /\ "pump" \in Sides /\ row \in CoopRows /\ Len(row.queue) <= QueueCap
        /\ Other("relay") = "pump" /\ Other("pump") = "relay" /\ RowsTyped
        /\ sock["relay"][s] \in SockStates /\ wire["relay"] \in Seq(Frames)
        /\ \A d \in Sides : SocketOK(d, s) /\ FreshOK(d, s) /\ FlowOK(d, s) /\ OrderOK(d, s)
        /\ OpeningOK(s)
    BY TunnelTyped, Others DEF TunnelInv, StreamsInv, RowsTyped
  <1>2. row.at = "opening" /\ UNCHANGED <<tunnelVars, done, shut, sent, got>> /\ ~row.reading
    BY <1>1 DEF SendOpen, SocketOK
  <1>3. CASE "relay" \in done
    <2> DEFINE r == [Closed(row) EXCEPT !.at = "gone", !.reg = FALSE]
               x == Shut(sock["relay"][s])
    <2>1. /\ end' = [end EXCEPT !["relay"][s] = r] /\ sock' = [sock EXCEPT !["relay"][s] = x]
          /\ wire' = wire
      BY <1>3 DEF SendOpen, Enqueue
    <2>2. r \in CoopRows /\ r.at = "gone" /\ r.queue = row.queue /\ ~r.reg /\ r.closed
          /\ r.reading = row.reading
      BY <1>1 DEF CoopRows, Closed
    <2>3. x \in SockStates /\ x \notin Usable
      BY <1>1, Shuts
    <2>4. Len(r.queue) <= QueueCap
      BY <1>1, <2>2
    <2> HIDE DEF r, x
    <2>5. end'["relay"][s] = r /\ sock'["relay"][s] = x => Wears("relay", s)
      BY <1>1, <1>2, <2>2, <2>3 DEF Wears, SocketOK
    <2> QED BY <1>1, <1>2, <2>1, <2>2, <2>3, <2>4, <2>5, ControlSame, PipesSame, OneWears
  <1>4. CASE "relay" \notin done
    <2> DEFINE r == [row EXCEPT !.at = "serving", !.reading = TRUE]
               x == sock["relay"][s]
    <2>1. end' = [end EXCEPT !["relay"][s] = r] /\ sock' = sock /\ Enqueue("relay", f)
      BY <1>4 DEF SendOpen
    <2>2. r \in CoopRows /\ r.at = "serving" /\ r.queue = row.queue /\ r.reg = row.reg
          /\ r.closed = row.closed /\ r.reading
      BY <1>1 DEF CoopRows
    <2>3. Len(r.queue) <= QueueCap /\ sock' = [sock EXCEPT !["relay"][s] = x] /\ x \in SockStates
      BY <1>1, <2>1, <2>2, SockSame
    <2> HIDE DEF r, x
    <2>4. /\ RowsTyped' /\ end'["relay"][s] = r
          /\ \A d \in Sides, q \in Streams : d # "relay" \/ q # s => end'[d][q] = end[d][q]
      <3>1. /\ RowsTyped' /\ end'["relay"][s] = r /\ sock'["relay"][s] = x
            /\ \A d \in Sides, q \in Streams : d # "relay" \/ q # s =>
                 end'[d][q] = end[d][q] /\ sock'[d][q] = sock[d][q]
        <4>1. /\ "relay" \in Sides /\ r \in CoopRows /\ x \in SockStates /\ Len(r.queue) <= QueueCap
              /\ end' = [end EXCEPT !["relay"][s] = r] /\ sock' = [sock EXCEPT !["relay"][s] = x]
          BY <1>1, <2>1, <2>2, <2>3
        <4>2. SetsRow("relay", s, r, x)
          BY <4>1 DEF SetsRow
        <4> QED BY <4>1, <4>2, RowSet
      <3> QED BY <3>1
    <2>5. /\ f \in Frames /\ OpenFrame(f, s) /\ \A q \in Streams : ~DataFrame(f, q)
          /\ \A q \in Streams : q # s => ~OpenFrame(f, q)
      BY DEF Frame, Frames, OpenFrame, DataFrame
    <2> HIDE DEF f
    <2>6. /\ wire' \in [Sides -> Seq(Frames)] /\ \A d \in Sides : Len(wire'[d]) <= WireCap
          /\ wire'["relay"] = Append(wire["relay"], f) /\ wire'["pump"] = wire["pump"]
      <3>1. "relay" # "pump"
        OBVIOUS
      <3> QED BY <1>1, <1>4, <2>1, <2>5, <3>1, Appends
    <2>7. PipesTyped'
      BY <1>2, <2>6 DEF TunnelInv, PipesTyped
    <2>8. \A q \in Streams : q # s => \A d \in Sides : PipePasses(d, q)
      BY <2>5, <2>6, Others DEF PipePasses
    <2>9. /\ end["pump"][s].at = "none" /\ NoData(wire["relay"], s) /\ ~HasOpen(wire["relay"], s)
          /\ sent["relay"][s] = 0
      BY <1>1, <1>2 DEF OpeningOK
    <2>10. /\ NoData(wire'["relay"], s) /\ OneOpen(wire'["relay"], s)
      BY <1>1, <2>5, <2>6, <2>9, OpensAppended
    <2>11. /\ end'["pump"][s] = end["pump"][s] /\ sock'["pump"][s] = sock["pump"][s]
           /\ sent' = sent /\ got' = got /\ done' = done
      BY <1>1, <1>2, <2>1, <2>4
    <2>12. SocketOK("relay", s)' /\ FreshOK("relay", s)' /\ OrderOK("relay", s)'
      BY <1>1, <1>2, <2>1, <2>2, <2>4 DEF SocketOK, FreshOK, OrderOK
    <2>13. SocketOK("pump", s)' /\ FreshOK("pump", s)' /\ OrderOK("pump", s)'
      BY <1>1, <2>6, <2>11 DEF SocketOK, FreshOK, OrderOK
    <2>14. FlowOK("relay", s)'
      <3>1. Due("relay", s)' => Due("relay", s)
        BY <1>2, <2>2, <2>4 DEF Due
      <3>2. end'["relay"][s].queue = end["relay"][s].queue
        BY <2>2, <2>4
      <3>3. Taken("relay", s)' = Taken("relay", s)
        BY <2>11, <3>2 DEF Taken
      <3> QED BY <1>1, <2>6, <2>11, <3>1, <3>2, <3>3 DEF FlowOK
    <2>15. FlowOK("pump", s)'
      <3>1. end'["pump"][s].queue = <<>> /\ got'["pump"][s] = <<>> /\ Len(<<>>) = 0
        BY <1>1, <2>9, <2>11 DEF FreshOK, Absent
      <3>2. Taken("pump", s)' = 0
        BY <3>1 DEF Taken
      <3>3. InStep(0, 0, wire'["relay"], s) /\ Complete(0, 0, wire'["relay"], s)
        BY <2>10 DEF InStep, Complete, NoData
      <3>4. \A i \in 1..0 : FALSE
        OBVIOUS
      <3> QED BY <1>1, <2>9, <2>11, <3>1, <3>2, <3>3, <3>4 DEF FlowOK
    <2>16. OpeningOK(s)'
      BY <2>2, <2>4, <2>9, <2>10, <2>11 DEF OpeningOK
    <2>17. StreamOK(s)'
      BY <2>12, <2>13, <2>14, <2>15, <2>16, Others DEF StreamOK
    <2>18. \A q \in Streams : q # s =>
             \A d \in Sides : /\ end'[d][q] = end[d][q] /\ sock'[d][q] = sock[d][q]
                              /\ sent'[d][q] = sent[d][q] /\ got'[d][q] = got[d][q]
                              /\ PipePasses(d, q)
      BY <2>1, <2>4, <2>8, <2>11
    <2> QED BY <1>2, <2>4, <2>7, <2>17, <2>18, OneStream
  <1> QED BY <1>3, <1>4

LEMMA TailOfData ==
  ASSUME NEW S, NEW u \in Seq(S), u # <<>>
  PROVE  /\ Tail(u) \in Seq(S) /\ Len(Tail(u)) = Len(u) - 1 /\ Len(u) \in Nat /\ Len(u) > 0
         /\ Len(Tail(u)) \in Nat
         /\ \A i \in 1..Len(Tail(u)) : i + 1 \in 1..Len(u) /\ Tail(u)[i] = u[i + 1]
         /\ Head(u) = u[1] /\ Head(u) \in S /\ 1 \in 1..Len(u)
  <1>0. Len(u) \in Nat /\ \A i \in 1..Len(u) : u[i] \in S
    OBVIOUS
  <1>1. Len(u) \in Nat /\ Len(u) > 0 /\ \A i \in 1..Len(u) : u[i] \in S
    <2>1. Len(u) # 0
      OBVIOUS
    <2> QED BY <1>0, <2>1
  <1>2. Tail(u) \in Seq(S) /\ Len(Tail(u)) = Len(u) - 1
    OBVIOUS
  <1>3. \A i \in 1..Len(Tail(u)) : i + 1 \in 1..Len(u) /\ Tail(u)[i] = u[i + 1]
    OBVIOUS
  <1>4. Head(u) = u[1] /\ 1 \in 1..Len(u)
    BY <1>1
  <1> QED BY <1>1, <1>2, <1>3, <1>4

LEMMA AppendedData ==
  ASSUME NEW g \in Seq(1..MaxData), NEW n \in 1..MaxData
  PROVE  /\ Append(g, n) \in Seq(1..MaxData) /\ Len(Append(g, n)) = Len(g) + 1
         /\ \A i \in 1..Len(Append(g, n)) :
              Append(g, n)[i] = IF i = Len(g) + 1 THEN n ELSE g[i]
         /\ Append(g, n) = [i \in 1..Len(Append(g, n)) |-> Append(g, n)[i]]
  <1>1. Append(g, n) \in Seq(1..MaxData) /\ Len(Append(g, n)) = Len(g) + 1
    OBVIOUS
  <1>2. \A i \in 1..Len(Append(g, n)) : Append(g, n)[i] = IF i = Len(g) + 1 THEN n ELSE g[i]
    OBVIOUS
  <1>3. Append(g, n) = [i \in 1..Len(Append(g, n)) |-> Append(g, n)[i]]
    <2> DEFINE h == Append(g, n)
    <2>1. h \in Seq(1..MaxData)
      BY <1>1
    <2> HIDE DEF h
    <2>2. h = [i \in 1..Len(h) |-> h[i]]
      BY <2>1
    <2> QED BY <2>2 DEF h
  <1> QED BY <1>1, <1>2, <1>3

LEMMA ReadDataStep ==
  ASSUME TunnelInv, NEW e \in Sides, NEW s \in Streams, ReadData(e, s)
  PROVE  TunnelInv'
  <1> DEFINE n == sent[e][s]
             f == [t |-> "data", id |-> s, n |-> n + 1]
             o == Other(e)
  <1>1. /\ "relay" \in Sides /\ "pump" \in Sides /\ wire[e] \in Seq(Frames)
        /\ o \in Sides /\ o # e /\ Other(o) = e /\ RowsTyped /\ PipesTyped
        /\ \A d \in Sides : d = e \/ d = o
        /\ n \in Nat /\ Taken(o, s) \in Nat
        /\ \A d \in Sides : SocketOK(d, s) /\ FreshOK(d, s) /\ FlowOK(d, s) /\ OrderOK(d, s)
        /\ OpeningOK(s)
    BY TunnelTyped, Others DEF TunnelInv, StreamsInv
  <1>2. /\ end[e][s].reading /\ e \notin done /\ n < MaxData
        /\ sent' = [sent EXCEPT ![e][s] = n + 1] /\ Enqueue(e, f)
        /\ UNCHANGED <<tunnelVars, done, shut, end, sock, got>>
    BY DEF ReadData
  <1>3. n + 1 \in 1..MaxData /\ n + 1 \in 0..MaxData
    BY <1>1, <1>2, BoundsOfN
  <1>4. /\ f \in Frames /\ DataFrame(f, s) /\ \A q \in Streams : ~OpenFrame(f, q)
        /\ \A q \in Streams : q # s => ~DataFrame(f, q)
    BY <1>3 DEF Frames, OpenFrame, DataFrame
  <1>5. /\ sent' \in [Sides -> [Streams -> 0..MaxData]] /\ sent'[e][s] = n + 1
        /\ \A d \in Sides, q \in Streams : d # e \/ q # s => sent'[d][q] = sent[d][q]
    <2> HIDE DEF n
    <2> QED BY <1>1, <1>2, <1>3 DEF PipesTyped
  <1> DEFINE g == f
  <1> HIDE DEF g
  <1>6. /\ wire' \in [Sides -> Seq(Frames)] /\ \A d \in Sides : Len(wire'[d]) <= WireCap
        /\ wire'[e] = Append(wire[e], g) /\ \A d \in Sides : d # e => wire'[d] = wire[d]
    BY <1>2, <1>4, Appends DEF g
  <1>7. PipesTyped' /\ RowsTyped'
    BY <1>1, <1>2, <1>5, <1>6 DEF PipesTyped, RowsTyped
  <1>8. \A q \in Streams : q # s => \A d \in Sides : PipePasses(d, q)
    BY <1>4, <1>6 DEF PipePasses, g
  <1>9. end[e][s].at \notin {"none", "opening"}
    BY <1>1, <1>2 DEF SocketOK
  <1>10. /\ HasOpen(wire'[e], s) => HasOpen(wire[e], s)
         /\ OneOpen(wire[e], s) => OneOpen(wire'[e], s)
    BY <1>1, <1>4, <1>6, OpensAppended DEF g
  <1>11. HasOpen(wire'["relay"], s) => HasOpen(wire["relay"], s)
    BY <1>1, <1>6, <1>10
  <1>12. OpeningOK(s)'
    <2>1. CASE e = "relay"
      BY <1>1, <1>2, <1>9, <1>10, <2>1 DEF OpeningOK
    <2>2. CASE e # "relay"
      <3>1. wire'["relay"] = wire["relay"] /\ sent'["relay"][s] = sent["relay"][s]
        BY <1>1, <1>5, <1>6, <2>2
      <3> QED BY <1>1, <1>2, <3>1 DEF OpeningOK
    <2> QED BY <2>1, <2>2
  <1>13. \A d \in Sides : SocketOK(d, s)' /\ OrderOK(d, s)'
    BY <1>1, <1>2 DEF SocketOK, OrderOK
  <1>14. FreshOK(e, s)' /\ FreshOK(o, s)'
    <2>1. FreshOK(e, s)'
      BY <1>2, <1>9 DEF FreshOK
    <2>2. wire'[o] = wire[o] /\ sent'[o][s] = sent[o][s]
      BY <1>1, <1>5, <1>6
    <2> QED BY <1>1, <1>2, <2>1, <2>2 DEF FreshOK
  <1>15. \A d \in Sides : (Due(d, s)' => Due(d, s)) /\ Taken(d, s)' = Taken(d, s)
    BY <1>2, <1>11 DEF Due, Taken
  <1>16. FlowOK(e, s)'
    <2>1. wire'[o] = wire[o] /\ sent'[o][s] = sent[o][s]
      BY <1>1, <1>5, <1>6
    <2> QED BY <1>1, <1>2, <1>15, <2>1 DEF FlowOK
  <1>17. FlowOK(o, s)'
    <2> SUFFICES ASSUME Due(o, s)'
                 PROVE  /\ \A i \in 1..Len(end'[o][s].queue) :
                             end'[o][s].queue[i] = Len(got'[o][s]) + i
                        /\ InStep(Taken(o, s)', sent'[e][s], wire'[e], s)
                        /\ Complete(Taken(o, s)', sent'[e][s], wire'[e], s)
      BY <1>1 DEF FlowOK
    <2>1. /\ \A i \in 1..Len(end[o][s].queue) : end[o][s].queue[i] = Len(got[o][s]) + i
          /\ InStep(Taken(o, s), n, wire[e], s) /\ Complete(Taken(o, s), n, wire[e], s)
      BY <1>1, <1>2, <1>15 DEF FlowOK
    <2>2. g = [t |-> "data", id |-> s, n |-> n + 1] /\ g \in Frames
      BY <1>4 DEF g
    <2> HIDE DEF n
    <2>3. /\ InStep(Taken(o, s), n + 1, Append(wire[e], g), s)
          /\ Complete(Taken(o, s), n + 1, Append(wire[e], g), s)
      BY <1>1, <2>1, <2>2, InStepSent
    <2> QED BY <1>1, <1>2, <1>5, <1>6, <1>15, <2>1, <2>3
  <1>18. StreamOK(s)'
    BY <1>1, <1>12, <1>13, <1>14, <1>16, <1>17 DEF StreamOK
  <1>19. \A q \in Streams : q # s =>
           \A d \in Sides : /\ end'[d][q] = end[d][q] /\ sock'[d][q] = sock[d][q]
                            /\ sent'[d][q] = sent[d][q] /\ got'[d][q] = got[d][q]
                            /\ PipePasses(d, q)
    BY <1>2, <1>5, <1>8
  <1> QED BY <1>2, <1>7, <1>18, <1>19, OneStream

LEMMA WriteDataStep ==
  ASSUME TunnelInv, NEW e \in Sides, NEW s \in Streams, WriteData(e, s)
  PROVE  TunnelInv'
  <1> DEFINE row == end[e][s]
             u == row.queue
             v == Tail(u)
             g == got[e][s]
             h == Append(g, Head(u))
             r == [row EXCEPT !.queue = v]
             x == sock[e][s]
             o == Other(e)
  <1>1. /\ "relay" \in Sides /\ "pump" \in Sides /\ row \in CoopRows /\ Len(u) <= QueueCap
        /\ u \in Seq(1..MaxData) /\ g \in Seq(1..MaxData) /\ x \in SockStates
        /\ o \in Sides /\ o # e /\ Other(o) = e /\ RowsTyped /\ PipesTyped
        /\ \A d \in Sides : d = e \/ d = o
        /\ \A d \in Sides : SocketOK(d, s) /\ FreshOK(d, s) /\ FlowOK(d, s) /\ OrderOK(d, s)
        /\ OpeningOK(s)
    BY TunnelTyped, Others DEF TunnelInv, StreamsInv, RowsTyped
  <1>2. /\ row.at = "serving" /\ u # <<>> /\ x = "open"
        /\ got' = [got EXCEPT ![e][s] = h]
        /\ UNCHANGED <<tunnelVars, done, shut, sock, wire, sent>>
    BY DEF WriteData
  <1>3. end' = [end EXCEPT ![e][s] = r] /\ sock' = [sock EXCEPT ![e][s] = x]
    <2>1. DOMAIN end = Sides /\ DOMAIN end[e] = Streams
      BY <1>1, TunnelTyped
    <2>2. end' = [end EXCEPT ![e][s] = r]
      BY <2>1 DEF WriteData
    <2> QED BY <1>1, <1>2, <2>2, SockSame
  <1>4. /\ v \in Seq(1..MaxData) /\ Len(v) = Len(u) - 1 /\ Len(u) \in Nat /\ Len(u) > 0
        /\ Len(v) \in Nat /\ Len(g) \in Nat
        /\ \A i \in 1..Len(v) : i + 1 \in 1..Len(u) /\ v[i] = u[i + 1]
        /\ Head(u) = u[1] /\ Head(u) \in 1..MaxData /\ 1 \in 1..Len(u)
    <2>1. u \in Seq(1..MaxData) /\ u # <<>> /\ Len(g) \in Nat
      BY <1>1, <1>2
    <2> HIDE DEF u, g
    <2> QED BY <2>1, TailOfData
  <1>5. /\ h \in Seq(1..MaxData) /\ Len(h) = Len(g) + 1
        /\ \A i \in 1..Len(h) : h[i] = IF i = Len(g) + 1 THEN Head(u) ELSE g[i]
        /\ h = [i \in 1..Len(h) |-> h[i]]
    <2> DEFINE y == Head(u)
    <2>1. y \in 1..MaxData /\ g \in Seq(1..MaxData) /\ h = Append(g, y)
      BY <1>1, <1>4
    <2> HIDE DEF y, g
    <2> QED BY <2>1, AppendedData DEF y
  <1>6. r \in CoopRows /\ r.at = row.at /\ r.reg = row.reg /\ r.closed = row.closed
        /\ r.reading = row.reading /\ r.queue = v
    BY <1>1, <1>4 DEF CoopRows
  <1>7. Due(e, s)
    BY <1>1, <1>2 DEF Due, SocketOK, Usable
  <1>8. /\ \A i \in 1..Len(u) : u[i] = Len(g) + i
        /\ g = [i \in 1..Len(g) |-> i]
    BY <1>1, <1>7 DEF FlowOK, OrderOK
  <1>9. \A i \in 1..Len(h) : h[i] = i
    <2> DEFINE k == Len(g)
    <2>1. k \in Nat /\ Len(h) = k + 1 /\ Head(u) = k + 1
      BY <1>4, <1>5, <1>8
    <2>2. \A i \in 1..k : g[i] = i
      BY <1>8
    <2>3. \A i \in 1..Len(h) : h[i] = IF i = k + 1 THEN Head(u) ELSE g[i]
      BY <1>5
    <2> HIDE DEF k, h, g, u
    <2> QED BY <2>1, <2>2, <2>3
  <1> HIDE DEF r, x, h, v
  <1>10. Len(r.queue) <= QueueCap
    <2>1. Len(v) <= QueueCap
      BY <1>1, <1>4, BoundsOfN
    <2> QED BY <1>6, <2>1
  <1>11. /\ RowsTyped' /\ end'[e][s] = r /\ sock'[e][s] = x
         /\ \A d \in Sides, q \in Streams : d # e \/ q # s =>
              end'[d][q] = end[d][q] /\ sock'[d][q] = sock[d][q]
    <2>1. SetsRow(e, s, r, x)
      BY <1>1, <1>3, <1>6, <1>10 DEF SetsRow
    <2> QED BY <2>1, RowSet
  <1>12. /\ got' \in [Sides -> [Streams -> Seq(1..MaxData)]] /\ got'[e][s] = h
         /\ \A d \in Sides, q \in Streams : d # e \/ q # s => got'[d][q] = got[d][q]
    BY <1>1, <1>2, <1>5 DEF PipesTyped
  <1>13. PipesTyped'
    BY <1>1, <1>2, <1>12 DEF PipesTyped
  <1>14. \A d \in Sides, q \in Streams : PipePasses(d, q)
    BY <1>2, PipesPass
  <1>15. OrderOK(e, s)'
    <2>1. h = [i \in 1..Len(h) |-> i]
      BY <1>5, <1>9
    <2> QED BY <1>12, <2>1 DEF OrderOK
  <1>16. SocketOK(e, s)' /\ FreshOK(e, s)'
    BY <1>1, <1>2, <1>6, <1>11 DEF SocketOK, FreshOK, x
  <1>17. Len(h) + Len(v) = Len(g) + Len(u) /\ Len(h) = Len(g) + 1
    <2> DEFINE a == Len(g)
               b == Len(u)
               c == Len(v)
               d == Len(h)
    <2>1. a \in Nat /\ b \in Nat /\ c = b - 1 /\ d = a + 1
      BY <1>4, <1>5
    <2> HIDE DEF a, b, c, d
    <2>2. d + c = a + b /\ d = a + 1
      BY <2>1
    <2> QED BY <2>2 DEF a, b, c, d
  <1>18. FlowOK(e, s)'
    <2>1. Taken(e, s)' = Taken(e, s)
      BY <1>6, <1>11, <1>12, <1>17 DEF Taken
    <2>2. \A i \in 1..Len(v) : v[i] = Len(h) + i
      <3> SUFFICES ASSUME NEW i \in 1..Len(v) PROVE v[i] = Len(h) + i
        OBVIOUS
      <3>1. v[i] = Len(g) + (i + 1)
        BY <1>4, <1>8
      <3> DEFINE a == Len(g)
      <3>2. a \in Nat /\ v[i] = a + (i + 1) /\ Len(h) = a + 1 /\ i \in Int
        BY <1>4, <1>17, <3>1
      <3> HIDE DEF a
      <3> QED BY <3>2
    <2>3. \A i \in 1..Len(end'[e][s].queue) : end'[e][s].queue[i] = Len(got'[e][s]) + i
      BY <1>6, <1>11, <1>12, <2>2
    <2> QED BY <1>1, <1>2, <1>7, <1>14, <2>1, <2>3, FlowStays
  <1>19. SocketOK(o, s)' /\ FreshOK(o, s)' /\ OrderOK(o, s)' /\ FlowOK(o, s)'
    <2>1. /\ end'[o][s] = end[o][s] /\ sock'[o][s] = sock[o][s] /\ got'[o][s] = got[o][s]
          /\ wire' = wire /\ sent' = sent /\ done' = done
      BY <1>1, <1>2, <1>11, <1>12
    <2>2. SocketOK(o, s)' /\ FreshOK(o, s)' /\ OrderOK(o, s)'
      BY <1>1, <2>1 DEF SocketOK, FreshOK, OrderOK
    <2>3. Taken(o, s)' = Taken(o, s) /\ (Due(o, s)' => Due(o, s))
      BY <2>1 DEF Taken, Due
    <2> QED BY <1>1, <2>1, <2>2, <2>3, <1>14, FlowStays DEF FlowOK
  <1>20. OpeningOK(s)'
    <2>1. CASE e = "relay"
      BY <1>1, <1>2, <1>6, <1>11, <2>1, Others DEF OpeningOK
    <2>2. CASE e # "relay"
      <3>1. end'["relay"][s] = end["relay"][s] /\ got'["relay"][s] = got["relay"][s]
            /\ e = "pump" /\ end'["pump"][s].at = end["pump"][s].at
        BY <1>1, <1>6, <1>11, <1>12, <2>2, Others
      <3> QED BY <1>1, <1>2, <3>1 DEF OpeningOK
    <2> QED BY <2>1, <2>2
  <1>21. StreamOK(s)'
    BY <1>1, <1>15, <1>16, <1>18, <1>19, <1>20 DEF StreamOK
  <1>22. \A q \in Streams : q # s =>
           \A d \in Sides : /\ end'[d][q] = end[d][q] /\ sock'[d][q] = sock[d][q]
                            /\ sent'[d][q] = sent[d][q] /\ got'[d][q] = got[d][q]
                            /\ PipePasses(d, q)
    BY <1>2, <1>11, <1>12, <1>14
  <1> QED BY <1>2, <1>11, <1>13, <1>21, <1>22, OneStream

\* A frame of one stream is read.
LEMMA Reads ==
  ASSUME TunnelInv, NEW e \in Sides, wire[e] # <<>>, NEW s \in Streams,
         OpenFrame(Head(wire[e]), s) \/ DataFrame(Head(wire[e]), s),
         wire' = [wire EXCEPT ![e] = Tail(@)], UNCHANGED <<sent, got>>
  PROVE  /\ PipesTyped' /\ wire'[e] = Tail(wire[e]) /\ \A d \in Sides : d # e => wire'[d] = wire[d]
         /\ \A d \in Sides, q \in Streams : q # s => PipePasses(d, q)
  <1>1. PipesTyped /\ wire[e] \in Seq(Frames) /\ Len(wire[e]) <= WireCap /\ Len(wire[e]) \in Nat
    BY TunnelTyped DEF TunnelInv, PipesTyped
  <1> DEFINE v == Tail(wire[e])
  <1>2. v \in Seq(Frames) /\ Len(v) <= WireCap /\ wire' = [wire EXCEPT ![e] = v]
    BY <1>1, TailOfWire, BoundsOfN
  <1>3. PipesTyped' /\ wire'[e] = v /\ \A d \in Sides : d # e => wire'[d] = wire[d]
    BY <1>1, <1>2, WireSet
  <1>4. \A q \in Streams : q # s => ~OpenFrame(Head(wire[e]), q) /\ ~DataFrame(Head(wire[e]), q)
    BY DEF OpenFrame, DataFrame
  <1> QED BY <1>3, <1>4 DEF PipePasses

LEMMA OpenStreamStep ==
  ASSUME TunnelInv, NEW s \in Streams, OpenStream(s),
         wire["relay"] # <<>>, OpenFrame(Head(wire["relay"]), s),
         wire' = [wire EXCEPT !["relay"] = Tail(@)],
         UNCHANGED <<tunnelVars, done, shut, sent, got>>
  PROVE  TunnelInv'
  <1> DEFINE row == end["pump"][s]
             r == [row EXCEPT !.at = "opening", !.reg = TRUE]
             x == sock["pump"][s]
             w == wire["relay"]
  <1>1. /\ "relay" \in Sides /\ "pump" \in Sides /\ row \in CoopRows /\ Len(row.queue) <= QueueCap
        /\ Other("relay") = "pump" /\ Other("pump") = "relay" /\ RowsTyped
        /\ x \in SockStates /\ w \in Seq(Frames)
        /\ \A d \in Sides : SocketOK(d, s) /\ FreshOK(d, s) /\ FlowOK(d, s) /\ OrderOK(d, s)
        /\ OpeningOK(s)
    BY TunnelTyped, Others DEF TunnelInv, StreamsInv, RowsTyped
  <1>2. /\ PipesTyped' /\ wire'["relay"] = Tail(w) /\ wire'["pump"] = wire["pump"]
        /\ \A d \in Sides, q \in Streams : q # s => PipePasses(d, q)
    <2>1. "pump" # "relay"
      OBVIOUS
    <2> QED BY <1>1, <2>1, Reads
  <1>3. /\ Len(w) \in Nat /\ 1 \in 1..Len(w) /\ OpenFrame(w[1], s) /\ ~DataFrame(w[1], s)
        /\ ~DataFrame(Head(w), s)
        /\ Len(Tail(w)) \in Nat
        /\ \A i \in 1..Len(Tail(w)) : i + 1 \in 1..Len(w) /\ Tail(w)[i] = w[i + 1]
    BY <1>1, TailOfWire DEF OpenFrame, DataFrame
  <1>4. HasOpen(w, s) /\ OneOpen(w, s) /\ row.at = "none" /\ row = Absent
    BY <1>1, <1>3 DEF HasOpen, OpeningOK, FreshOK
  <1>5. ~HasOpen(Tail(w), s) /\ OneOpen(Tail(w), s)
    <2>1. OneOpen(Tail(w), s)
      BY <1>1, <1>3, <1>4, OpensLeft
    <2>2. ASSUME NEW i \in 1..Len(Tail(w)), OpenFrame(Tail(w)[i], s) PROVE FALSE
      <3>1. i + 1 \in 1..Len(w) /\ OpenFrame(w[i + 1], s) /\ i \in Nat /\ i > 0
        BY <1>3, <2>2
      <3>2. 1 = i + 1
        BY <1>3, <1>4, <3>1 DEF OneOpen
      <3> QED BY <3>1, <3>2
    <2> QED BY <2>1, <2>2 DEF HasOpen
  <1>6. end["relay"][s].at \notin {"none", "opening"}
    BY <1>1, <1>4 DEF OpeningOK
  <1>7. ~row.reg /\ ~row.closed /\ ~row.reading /\ row.queue = <<>> /\ x \notin Usable
    <2>1. ~row.reg /\ ~row.closed /\ ~row.reading /\ row.queue = <<>>
      <3> HIDE DEF row
      <3> QED BY <1>4 DEF Absent
    <2> QED BY <1>1, <1>4, <2>1 DEF SocketOK
  <1>8. sock' = sock /\ sock' = [sock EXCEPT !["pump"][s] = x]
    BY <1>1, SockSame DEF OpenStream
  <1>9. \/ end' = end /\ end' = [end EXCEPT !["pump"][s] = row]
        \/ end' = [end EXCEPT !["pump"][s] = r]
    BY <1>1, EndSame DEF OpenStream
  <1>10. r \in CoopRows /\ r.at = "opening" /\ r.reg /\ r.queue = row.queue /\ ~r.closed /\ ~r.reading
    BY <1>1, <1>7 DEF CoopRows
  <1>11. PICK y \in CoopRows : (y = row \/ y = r) /\ end' = [end EXCEPT !["pump"][s] = y]
    BY <1>1, <1>9, <1>10
  <1>12. y.queue = <<>> /\ ~y.closed /\ ~y.reading /\ Len(y.queue) <= QueueCap
         /\ (y = row \/ (y.at = "opening" /\ y.reg))
    BY <1>1, <1>7, <1>10, <1>11
  <1> HIDE DEF r, x
  <1>13. /\ RowsTyped' /\ end'["pump"][s] = y /\ sock'["pump"][s] = x
         /\ \A d \in Sides, q \in Streams : d # "pump" \/ q # s =>
              end'[d][q] = end[d][q] /\ sock'[d][q] = sock[d][q]
    <2>1. "pump" \in Sides /\ y \in CoopRows /\ x \in SockStates /\ Len(y.queue) <= QueueCap
      BY <1>1, <1>12
    <2>2. sock' = [sock EXCEPT !["pump"][s] = x]
      BY <1>8
    <2>3. end' = [end EXCEPT !["pump"][s] = y]
      BY <1>11
    <2>4. SetsRow("pump", s, y, x)
      BY <2>1, <2>2, <2>3 DEF SetsRow
    <2> QED BY <2>1, <2>4, RowSet
  <1>14. end'["relay"][s] = end["relay"][s] /\ sock'["relay"][s] = sock["relay"][s]
    BY <1>1, <1>13
  <1>15. OpeningOK(s)'
    BY <1>2, <1>5, <1>6, <1>14 DEF OpeningOK
  <1>16. SocketOK("relay", s)' /\ FreshOK("relay", s)' /\ OrderOK("relay", s)'
    BY <1>1, <1>6, <1>14 DEF SocketOK, FreshOK, OrderOK
  <1>17. FlowOK("relay", s)'
    <2>1. Taken("relay", s)' = Taken("relay", s) /\ (Due("relay", s)' => Due("relay", s))
      BY <1>14 DEF Taken, Due
    <2> QED BY <1>1, <1>2, <1>14, <2>1 DEF FlowOK
  <1>18. SocketOK("pump", s)' /\ FreshOK("pump", s)' /\ OrderOK("pump", s)'
    <2>1. SocketOK("pump", s)'
      BY <1>1, <1>7, <1>12, <1>13 DEF SocketOK
    <2>2. FreshOK("pump", s)'
      BY <1>1, <1>2, <1>4, <1>12, <1>13 DEF FreshOK
    <2> QED BY <1>1, <2>1, <2>2 DEF OrderOK
  <1>19. FlowOK("pump", s)'
    <2>1. Due("pump", s) /\ sent["relay"][s] \in Nat /\ Taken("pump", s) \in Nat
      BY <1>1, <1>4, TunnelTyped DEF Due, TunnelInv
    <2>2. Taken("pump", s)' = Taken("pump", s)
      BY <1>7, <1>12, <1>13 DEF Taken
    <2>3. /\ InStep(Taken("pump", s), sent["relay"][s], w, s)
          /\ "relay" \in done \/ Complete(Taken("pump", s), sent["relay"][s], w, s)
      BY <1>1, <2>1 DEF FlowOK
    <2>4. w # <<>>
      OBVIOUS
    <2> HIDE DEF w
    <2>5. /\ InStep(Taken("pump", s), sent["relay"][s], Tail(w), s)
          /\ Complete(Taken("pump", s), sent["relay"][s], w, s) =>
               Complete(Taken("pump", s), sent["relay"][s], Tail(w), s)
      BY <1>1, <1>3, <2>1, <2>3, <2>4, InStepTail
    <2>6. \A i \in 1..Len(end'["pump"][s].queue) : FALSE
      <3>1. Len(<<>>) = 0
        OBVIOUS
      <3> QED BY <1>12, <1>13, <3>1
    <2> QED BY <1>1, <1>2, <2>2, <2>3, <2>5, <2>6 DEF FlowOK
  <1>20. StreamOK(s)'
    BY <1>15, <1>16, <1>17, <1>18, <1>19, Others DEF StreamOK
  <1>21. \A q \in Streams : q # s =>
           \A d \in Sides : /\ end'[d][q] = end[d][q] /\ sock'[d][q] = sock[d][q]
                            /\ sent'[d][q] = sent[d][q] /\ got'[d][q] = got[d][q]
                            /\ PipePasses(d, q)
    BY <1>2, <1>13
  <1> QED BY <1>2, <1>13, <1>20, <1>21, OneStream

LEMMA ServeStreamStep ==
  ASSUME TunnelInv, NEW s \in Streams, ServeStream(s)
  PROVE  TunnelInv'
  <1> DEFINE row == end["pump"][s]
             x == sock["pump"][s]
  <1>1. /\ "relay" \in Sides /\ "pump" \in Sides /\ row \in CoopRows /\ Len(row.queue) <= QueueCap
        /\ Other("relay") = "pump" /\ Other("pump") = "relay" /\ RowsTyped /\ x \in SockStates
        /\ DOMAIN end = Sides /\ DOMAIN end["pump"] = Streams
        /\ \A d \in Sides : SocketOK(d, s) /\ FreshOK(d, s) /\ FlowOK(d, s) /\ OrderOK(d, s)
        /\ OpeningOK(s)
    BY TunnelTyped, Others DEF TunnelInv, StreamsInv, RowsTyped
  <1>2. /\ row.at = "opening" /\ UNCHANGED <<tunnelVars, done, shut, wire, sent, got>>
        /\ x \notin Usable
    <2>1. row.at = "opening" /\ UNCHANGED <<tunnelVars, done, shut, wire, sent, got>>
      BY DEF ServeStream
    <2> QED BY <1>1, <2>1 DEF SocketOK
  <1> HIDE DEF x
  <1>3. ASSUME NEW r \in CoopRows, r.at = "ending", r.reg = row.reg, r.reading = row.reading,
               r.queue = row.queue,
               end' = [end EXCEPT !["pump"][s] = r], sock' = [sock EXCEPT !["pump"][s] = x]
        PROVE  TunnelInv'
    <2>1. end'["pump"][s] = r /\ sock'["pump"][s] = x => Wears("pump", s)
      BY <1>1, <1>2, <1>3 DEF Wears, SocketOK, x
    <2>2. Len(r.queue) <= QueueCap
      BY <1>1, <1>3
    <2> QED BY <1>1, <1>2, <1>3, <2>1, <2>2, ControlSame, PipesSame, OneWears
  <1>4. CASE SetConn(s) /\ row.closed
    <2> DEFINE r == [row EXCEPT !.at = "ending"]
    <2>1. end' = [end EXCEPT !["pump"][s] = r] /\ sock' = sock
      BY <1>1, <1>4 DEF SetConn
    <2>2. r \in CoopRows /\ r.at = "ending" /\ r.reg = row.reg /\ r.reading = row.reading
          /\ r.queue = row.queue
      BY <1>1 DEF CoopRows
    <2>3. sock' = [sock EXCEPT !["pump"][s] = x]
      BY <1>1, <2>1, SockSame DEF x
    <2> HIDE DEF r, row
    <2> QED BY <1>3, <2>1, <2>2, <2>3
  <1>5. CASE end' = [end EXCEPT !["pump"][s] = [@ EXCEPT !.at = "ending", !.peer = FALSE]]
             /\ UNCHANGED sock
    <2> DEFINE r == [row EXCEPT !.at = "ending", !.peer = FALSE]
    <2>1. end' = [end EXCEPT !["pump"][s] = r] /\ sock' = sock
      BY <1>1, <1>5
    <2>2. r \in CoopRows /\ r.at = "ending" /\ r.reg = row.reg /\ r.reading = row.reading
          /\ r.queue = row.queue
      BY <1>1 DEF CoopRows
    <2>3. sock' = [sock EXCEPT !["pump"][s] = x]
      BY <1>1, <2>1, SockSame DEF x
    <2> HIDE DEF r, row
    <2> QED BY <1>3, <2>1, <2>2, <2>3
  <1>6. CASE SetConn(s) /\ ~row.closed
    <2> DEFINE r == [row EXCEPT !.at = "serving", !.reading = TRUE]
    <2>1. end' = [end EXCEPT !["pump"][s] = r] /\ sock' = [sock EXCEPT !["pump"][s] = "open"]
      BY <1>6 DEF SetConn
    <2>2. r \in CoopRows /\ r.at = "serving" /\ r.reg = row.reg /\ r.reading
          /\ r.queue = row.queue /\ ~r.closed
      BY <1>1, <1>6 DEF CoopRows
    <2>3. "open" \in SockStates /\ Len(r.queue) <= QueueCap
      BY <1>1, <2>2 DEF SockStates
    <2> HIDE DEF r
    <2>4. /\ RowsTyped' /\ end'["pump"][s] = r /\ sock'["pump"][s] = "open"
          /\ \A d \in Sides, q \in Streams : d # "pump" \/ q # s =>
               end'[d][q] = end[d][q] /\ sock'[d][q] = sock[d][q]
      <3>1. /\ "pump" \in Sides /\ r \in CoopRows /\ "open" \in SockStates /\ Len(r.queue) <= QueueCap
            /\ end' = [end EXCEPT !["pump"][s] = r] /\ sock' = [sock EXCEPT !["pump"][s] = "open"]
        BY <1>1, <2>1, <2>2, <2>3
      <3>2. SetsRow("pump", s, r, "open")
        BY <3>1 DEF SetsRow
      <3> QED BY <3>1, <3>2, RowSet
    <2>5. end'["relay"][s] = end["relay"][s] /\ sock'["relay"][s] = sock["relay"][s]
          /\ wire' = wire /\ sent' = sent /\ got' = got /\ done' = done
      BY <1>1, <1>2, <2>4
    <2>6. OpeningOK(s)'
      BY <1>1, <1>2, <2>5 DEF OpeningOK
    <2>7. SocketOK("relay", s)' /\ FreshOK("relay", s)' /\ OrderOK("relay", s)'
      BY <1>1, <2>5 DEF SocketOK, FreshOK, OrderOK
    <2>8. FlowOK("relay", s)'
      <3>1. Taken("relay", s)' = Taken("relay", s) /\ (Due("relay", s)' => Due("relay", s))
        BY <2>5 DEF Taken, Due
      <3> QED BY <1>1, <2>5, <3>1 DEF FlowOK
    <2>9. SocketOK("pump", s)' /\ FreshOK("pump", s)' /\ OrderOK("pump", s)'
      BY <1>1, <1>2, <2>2, <2>4, <2>5 DEF SocketOK, FreshOK, OrderOK
    <2>10. FlowOK("pump", s)'
      <3>1. Due("pump", s)
        BY <1>2, <1>6 DEF Due
      <3>2. Taken("pump", s)' = Taken("pump", s)
        BY <2>2, <2>4, <2>5 DEF Taken
      <3> QED BY <1>1, <2>2, <2>4, <2>5, <3>1, <3>2 DEF FlowOK
    <2>11. StreamOK(s)'
      BY <2>6, <2>7, <2>8, <2>9, <2>10, Others DEF StreamOK
    <2>12. \A q \in Streams : q # s =>
             \A d \in Sides : /\ end'[d][q] = end[d][q] /\ sock'[d][q] = sock[d][q]
                              /\ sent'[d][q] = sent[d][q] /\ got'[d][q] = got[d][q]
                              /\ PipePasses(d, q)
      BY <2>4, <2>5, PipesPass
    <2> QED BY <1>2, <2>4, <2>11, <2>12, OneStream, PipesSame
  <1> QED BY <1>4, <1>5, <1>6 DEF ServeStream

\* A frame that carries data is passed on, skipped, or sheds its stream.
LEMMA DeliverStep ==
  ASSUME TunnelInv, NEW e \in Sides, NEW s \in Streams, NEW n, Deliver(e, s, n),
         wire[Other(e)] # <<>>, DataFrame(Head(wire[Other(e)]), s), n = Head(wire[Other(e)]).n,
         wire' = [wire EXCEPT ![Other(e)] = Tail(@)],
         UNCHANGED <<tunnelVars, done, shut, sent, got>>
  PROVE  TunnelInv'
  <1> DEFINE o == Other(e)
             row == end[e][s]
             x == sock[e][s]
             w == wire[o]
             k == Taken(e, s)
             m == sent[o][s]
  <1>1. /\ "relay" \in Sides /\ "pump" \in Sides /\ row \in CoopRows /\ Len(row.queue) <= QueueCap
        /\ o \in Sides /\ o # e /\ Other(o) = e /\ RowsTyped /\ x \in SockStates /\ w \in Seq(Frames)
        /\ \A d \in Sides : d = e \/ d = o
        /\ row.queue \in Seq(1..MaxData) /\ k \in Nat /\ m \in Nat
        /\ \A d \in Sides : SocketOK(d, s) /\ FreshOK(d, s) /\ FlowOK(d, s) /\ OrderOK(d, s)
        /\ OpeningOK(s)
    BY TunnelTyped, Others DEF TunnelInv, StreamsInv, RowsTyped
  <1>2. /\ PipesTyped' /\ wire'[o] = Tail(w) /\ wire'[e] = wire[e]
        /\ \A d \in Sides, q \in Streams : q # s => PipePasses(d, q)
    BY <1>1, Reads
  <1>3. /\ Len(w) \in Nat /\ 1 \in 1..Len(w) /\ DataFrame(w[1], s) /\ Head(w) = w[1]
        /\ w # <<>> /\ Len(Tail(w)) \in Nat
        /\ \A i \in 1..Len(Tail(w)) : i + 1 \in 1..Len(w) /\ Tail(w)[i] = w[i + 1]
    BY <1>1, TailOfWire
  <1>4. n \in 1..MaxData
    <2>1. w[1] \in Frames /\ n = w[1].n
      BY <1>1, <1>3, WireTyped
    <2> QED BY <1>3, <2>1, FrameNumber
  <1>5. /\ HasOpen(Tail(w), s) => HasOpen(w, s)
        /\ NoData(w, s) => NoData(Tail(w), s)
        /\ OneOpen(w, s) => OneOpen(Tail(w), s)
    <2> HIDE DEF w
    <2> QED BY <1>1, <1>3, OpensLeft
  <1>6. ~NoData(w, s) /\ (OneOpen(w, s) => ~HasOpen(w, s))
    <2>1. ~NoData(w, s)
      BY <1>3 DEF NoData
    <2>2. ASSUME OneOpen(w, s), NEW i \in 1..Len(w), OpenFrame(w[i], s) PROVE FALSE
      <3>1. i < 1
        BY <1>3, <2>2 DEF OneOpen
      <3> QED BY <1>3, <3>1
    <2> QED BY <2>1, <2>2 DEF HasOpen
  <1>7. HasOpen(wire'["relay"], s) => HasOpen(wire["relay"], s)
    BY <1>1, <1>2, <1>5
  <1>8. Due(e, s) => row.reg /\ ~row.closed
    <2> SUFFICES ASSUME Due(e, s) PROVE row.reg /\ ~row.closed
      OBVIOUS
    <2>1. CASE e = "pump" /\ row.at = "none" /\ HasOpen(wire["relay"], s)
      <3>1. o = "relay"
        BY <2>1, Others
      <3> QED BY <1>1, <1>6, <2>1, <3>1 DEF OpeningOK
    <2>2. CASE row.at \in {"opening", "serving"} /\ ~row.closed
      BY <1>1, <2>2 DEF SocketOK
    <2> QED BY <2>1, <2>2 DEF Due
  <1>9. Due(e, s) =>
          /\ n = k + 1 /\ InStep(k + 1, m, Tail(w), s)
          /\ o \in done \/ Complete(k + 1, m, Tail(w), s)
    <2> SUFFICES ASSUME Due(e, s)
                 PROVE  /\ n = k + 1 /\ InStep(k + 1, m, Tail(w), s)
                        /\ o \in done \/ Complete(k + 1, m, Tail(w), s)
      OBVIOUS
    <2>1. InStep(k, m, w, s) /\ (o \in done \/ Complete(k, m, w, s))
      BY <1>1 DEF FlowOK
    <2>2. n = Head(w).n /\ DataFrame(Head(w), s)
      OBVIOUS
    <2> HIDE DEF k, m, w, o
    <2> QED BY <1>1, <1>3, <2>1, <2>2, InStepTaken
  \* What the step leaves to prove, when the row is y and its socket z.
  <1>10. ASSUME NEW y \in CoopRows, NEW z \in SockStates, Len(y.queue) <= QueueCap,
                end' = [end EXCEPT ![e][s] = y], sock' = [sock EXCEPT ![e][s] = z],
                y.at = row.at, y.reg = row.reg, y.reading = row.reading,
                row.reg \/ y.queue = row.queue, row.closed => y.closed,
                z \in Usable => ~y.closed /\ x \in Usable,
                y = row \/ row.reg,
                row.reg /\ ~row.closed /\ ~y.closed => y.queue = Append(row.queue, n)
         PROVE  TunnelInv'
    <2>1. /\ RowsTyped' /\ end'[e][s] = y /\ sock'[e][s] = z
          /\ \A d \in Sides, q \in Streams : d # e \/ q # s =>
               end'[d][q] = end[d][q] /\ sock'[d][q] = sock[d][q]
      <3>1. SetsRow(e, s, y, z)
        BY <1>10 DEF SetsRow
      <3> QED BY <3>1, RowSet
    <2> HIDE DEF x
    <2>2. /\ end'[o][s] = end[o][s] /\ sock'[o][s] = sock[o][s]
          /\ sent' = sent /\ got' = got /\ done' = done
      BY <1>1, <2>1
    <2>3. row.reg => row.at \in {"opening", "serving", "ending"}
      BY <1>1 DEF SocketOK
    <2>4. OpeningOK(s)'
      <3>1. CASE e = "relay"
        <4>1. o = "pump"
          BY <3>1, Others
        <4>2. row.at \notin {"none", "opening"}
          BY <1>1, <1>6, <3>1, <4>1 DEF OpeningOK, FreshOK
        <4> QED BY <1>1, <1>2, <1>10, <2>1, <2>2, <3>1, <4>1, <4>2 DEF OpeningOK
      <3>2. CASE e # "relay"
        <4>1. o = "relay" /\ e = "pump"
          BY <1>1, <3>2, Others
        <4> QED BY <1>1, <1>2, <1>5, <1>10, <2>1, <2>2, <4>1 DEF OpeningOK
      <3> QED BY <3>1, <3>2
    <2>5. SocketOK(o, s)' /\ FreshOK(o, s)' /\ OrderOK(o, s)'
      BY <1>1, <1>2, <1>5, <2>2 DEF SocketOK, FreshOK, OrderOK
    <2>6. FlowOK(o, s)'
      <3>1. Taken(o, s)' = Taken(o, s) /\ (Due(o, s)' => Due(o, s))
        BY <1>7, <2>2 DEF Taken, Due
      <3> QED BY <1>1, <1>2, <2>2, <3>1 DEF FlowOK
    <2>7. SocketOK(e, s)' /\ FreshOK(e, s)' /\ OrderOK(e, s)'
      <3>1. SocketOK(e, s)'
        BY <1>1, <1>10, <2>1 DEF SocketOK, x
      <3>2. FreshOK(e, s)'
        BY <1>1, <1>2, <1>10, <2>1, <2>2, <2>3 DEF FreshOK
      <3> QED BY <1>1, <2>2, <3>1, <3>2 DEF OrderOK
    <2>8. FlowOK(e, s)'
      <3> SUFFICES ASSUME Due(e, s)'
                   PROVE  /\ \A i \in 1..Len(y.queue) : y.queue[i] = Len(got[e][s]) + i
                          /\ InStep(Taken(e, s)', m, Tail(w), s)
                          /\ o \in done \/ Complete(Taken(e, s)', m, Tail(w), s)
        BY <1>1, <1>2, <2>1, <2>2 DEF FlowOK
      <3>1. Due(e, s) /\ ~y.closed
        <4>1. CASE e = "pump" /\ y.at = "none" /\ HasOpen(wire'["relay"], s)
          <5>1. Due(e, s)
            BY <1>7, <1>10, <4>1 DEF Due
          <5>2. row.reg
            BY <1>8, <5>1
          <5> QED BY <1>10, <2>3, <4>1, <5>2
        <4>2. CASE y.at \in {"opening", "serving"} /\ ~y.closed
          BY <1>10, <4>2 DEF Due
        <4> QED BY <2>1, <4>1, <4>2 DEF Due
      <3>2. y.queue = Append(row.queue, n) /\ n = k + 1
        BY <1>8, <1>9, <1>10, <3>1
      <3> DEFINE u == row.queue
                 g == Len(got[e][s])
      <3>3. /\ u \in Seq(1..MaxData) /\ g \in Nat /\ k = g + Len(u)
            /\ \A i \in 1..Len(u) : u[i] = g + i
        BY <1>1, <3>1, TunnelTyped DEF FlowOK, Taken, TunnelInv
      <3> HIDE DEF u, g, k
      <3>4. /\ Len(y.queue) = Len(u) + 1 /\ Len(u) \in Nat
            /\ \A i \in 1..Len(y.queue) : y.queue[i] = IF i = Len(u) + 1 THEN n ELSE u[i]
        BY <1>4, <3>2, <3>3, AppendedData DEF u
      <3>5. \A i \in 1..Len(y.queue) : y.queue[i] = g + i
        <4> SUFFICES ASSUME NEW i \in 1..Len(y.queue) PROVE y.queue[i] = g + i
          OBVIOUS
        <4> DEFINE a == Len(u)
                   b == Len(y.queue)
        <4>1. a \in Nat /\ b = a + 1 /\ k = g + a /\ i \in 1..b
          BY <3>3, <3>4
        <4>2. y.queue[i] = IF i = a + 1 THEN n ELSE u[i]
          BY <3>4
        <4>3. i # a + 1 => i \in 1..a /\ u[i] = g + i
          <5>1. \A j \in 1..a : u[j] = g + j
            BY <3>3
          <5> HIDE DEF a, b
          <5> QED BY <4>1, <5>1
        <4>4. CASE i = a + 1
          <5>1. y.queue[i] = n
            BY <4>2, <4>4
          <5>2. n = g + a + 1 /\ g \in Nat /\ a \in Nat
            BY <3>2, <3>3, <4>1
          <5> HIDE DEF a
          <5> QED BY <4>4, <5>1, <5>2
        <4>5. CASE i # a + 1
          <5> HIDE DEF a, b
          <5> QED BY <4>2, <4>3, <4>5
        <4> QED BY <4>4, <4>5
      <3>6. g + Len(y.queue) = k + 1
        <4> DEFINE a == Len(u)
                   b == Len(y.queue)
        <4>1. a \in Nat /\ b = a + 1 /\ k = g + a
          BY <3>3, <3>4
        <4> HIDE DEF a, b
        <4>2. g + b = k + 1
          BY <3>3, <4>1
        <4> QED BY <4>2 DEF b
      <3>7. Taken(e, s)' = k + 1
        BY <2>1, <2>2, <3>6 DEF Taken, g
      <3> QED BY <1>9, <3>1, <3>5, <3>7 DEF g, k
    <2>9. StreamOK(s)'
      BY <1>1, <2>4, <2>5, <2>6, <2>7, <2>8 DEF StreamOK
    <2>10. \A q \in Streams : q # s =>
             \A d \in Sides : /\ end'[d][q] = end[d][q] /\ sock'[d][q] = sock[d][q]
                              /\ sent'[d][q] = sent[d][q] /\ got'[d][q] = got[d][q]
                              /\ PipePasses(d, q)
      BY <1>2, <2>1, <2>2
    <2> QED BY <1>2, <2>1, <2>9, <2>10, OneStream
  <1>11. CASE (~row.reg \/ row.closed) /\ UNCHANGED <<end, sock>>
    <2>1. end' = [end EXCEPT ![e][s] = row] /\ sock' = [sock EXCEPT ![e][s] = x]
      BY <1>1, <1>11, EndSame, SockSame
    <2>2. x \in Usable => ~row.closed
      BY <1>1 DEF SocketOK
    <2> HIDE DEF row, x
    <2> QED BY <1>1, <1>10, <1>11, <2>1, <2>2
  <1>12. CASE /\ row.reg /\ Len(row.queue) < QueueCap
              /\ end' = [end EXCEPT ![e][s].queue = Append(@, n)] /\ UNCHANGED sock
    <2> DEFINE v == Append(row.queue, n)
               y == [row EXCEPT !.queue = v]
    <2>1. v \in Seq(1..MaxData) /\ Len(v) = Len(row.queue) + 1 /\ Len(row.queue) \in Nat
      BY <1>1, <1>4, AppendedData
    <2>2. /\ y \in CoopRows /\ y.at = row.at /\ y.reg = row.reg /\ y.reading = row.reading
          /\ y.closed = row.closed /\ y.queue = v
      BY <1>1, <2>1 DEF CoopRows
    <2>3. end' = [end EXCEPT ![e][s] = y] /\ sock' = [sock EXCEPT ![e][s] = x]
      <3>1. DOMAIN end = Sides /\ DOMAIN end[e] = Streams
        BY <1>1 DEF RowsTyped
      <3>2. end' = [end EXCEPT ![e][s] = y]
        BY <1>1, <1>12, <3>1
      <3> QED BY <1>1, <1>12, <3>2, SockSame
    <2>4. Len(v) <= QueueCap
      BY <1>12, <2>1, BoundsOfN
    <2>5. x \in Usable => ~row.closed
      BY <1>1 DEF SocketOK
    <2>6. v = Append(row.queue, n)
      OBVIOUS
    <2> HIDE DEF row, x, y, v
    <2>7. Len(y.queue) <= QueueCap
      BY <2>2, <2>4
    <2> QED BY <1>1, <1>10, <1>12, <2>2, <2>3, <2>5, <2>6, <2>7
  <1>13. CASE /\ row.reg /\ Len(row.queue) = QueueCap /\ ~row.closed
              /\ end' = [end EXCEPT ![e][s] = Closed(@)]
              /\ sock' = [sock EXCEPT ![e][s] = Shut(@)]
    <2> DEFINE y == Closed(row)
               z == Shut(x)
    <2>1. /\ y \in CoopRows /\ y.at = row.at /\ y.reg = row.reg /\ y.reading = row.reading
          /\ y.closed /\ y.queue = row.queue
      BY <1>1, RowFields
    <2>2. z \in SockStates /\ z \notin Usable
      BY <1>1, Shuts
    <2>3. end' = [end EXCEPT ![e][s] = y] /\ sock' = [sock EXCEPT ![e][s] = z]
      BY <1>13
    <2> HIDE DEF row, x, y, z
    <2>4. Len(y.queue) <= QueueCap
      BY <1>1, <2>1
    <2> QED BY <1>1, <1>10, <1>13, <2>1, <2>2, <2>3, <2>4
  <1> QED BY <1>11, <1>12, <1>13 DEF Deliver

LEMMA RelayDemuxStep ==
  ASSUME TunnelInv, RelayDemux
  PROVE  TunnelInv'
  <1> DEFINE f == Head(wire["pump"])
  <1>1. /\ "relay" \in Sides /\ Other("relay") = "pump" /\ "pump" \in Sides
        /\ wire["pump"] # <<>> /\ wire' = [wire EXCEPT !["pump"] = Tail(@)]
        /\ UNCHANGED <<tunnelVars, done, shut, sent, got>> /\ wire["pump"] \in Seq(Frames)
    BY TunnelTyped, Others DEF RelayDemux, TunnelInv
  <1>2. f \in Frames
    BY <1>1, TailOfWire
  <1>3. f.t \in {"data", "close"} => f.id \in Streams
    BY <1>2 DEF Frames
  <1>4. CASE f.t = "data" /\ Deliver("relay", f.id, f.n)
    <2>1. DataFrame(f, f.id)
      BY <1>4 DEF DataFrame
    <2> QED BY <1>1, <1>3, <1>4, <2>1, DeliverStep
  <1>5. CASE f.t = "close" /\ PeerClosed("relay", f.id)
    BY <1>1, <1>3, <1>5, PeerClosedStep
  <1> QED BY <1>4, <1>5 DEF RelayDemux

LEMMA PumpRunStep ==
  ASSUME TunnelInv, PumpRun
  PROVE  TunnelInv'
  <1> DEFINE f == Head(wire["relay"])
  <1>1. /\ "pump" \in Sides /\ Other("pump") = "relay" /\ "relay" \in Sides
        /\ wire["relay"] # <<>> /\ wire' = [wire EXCEPT !["relay"] = Tail(@)]
        /\ UNCHANGED <<tunnelVars, done, shut, sent, got>> /\ wire["relay"] \in Seq(Frames)
    BY TunnelTyped, Others DEF PumpRun, TunnelInv
  <1>2. f \in Frames
    BY <1>1, TailOfWire
  <1>3. f.t \in {"open", "data", "close"} => f.id \in Streams
    BY <1>2 DEF Frames
  <1>4. CASE f.t = "open" /\ OpenStream(f.id)
    <2>1. OpenFrame(f, f.id)
      BY <1>4 DEF OpenFrame
    <2> QED BY <1>1, <1>3, <1>4, <2>1, OpenStreamStep
  <1>5. CASE f.t = "data" /\ Deliver("pump", f.id, f.n)
    <2>1. DataFrame(f, f.id)
      BY <1>5 DEF DataFrame
    <2> QED BY <1>1, <1>3, <1>5, <2>1, DeliverStep
  <1>6. CASE f.t = "close" /\ PeerClosed("pump", f.id)
    BY <1>1, <1>3, <1>6, PeerClosedStep
  <1> QED BY <1>4, <1>5, <1>6 DEF PumpRun

LEMMA TunnelStep ==
  ASSUME TunnelInv, [CoopNext]_coopVars
  PROVE  TunnelInv'
  <1>1. CASE StartCoop \/ StopCoop
    BY <1>1, LauncherSteps
  <1>2. CASE RelayMain
    BY <1>2, RelayBootsStep, RelayDemuxStep, RelayStopsStep, RelayEndsStep DEF RelayMain
  <1>3. CASE PumpMain
    BY <1>3, ReadyStep, PumpRunStep, LauncherSteps DEF PumpMain
  <1>4. CASE Launcher
    BY <1>4, LauncherSteps, PumpShutStep, CloseStdinStep DEF Launcher
  <1>5. CASE RelayEnds
    BY <1>5, RelayEndsStep
  <1>6. ASSUME NEW s \in Streams, Accept(s) \/ SendOpen(s) \/ ServeStream(s)
        PROVE  TunnelInv'
    BY <1>6, AcceptStep, SendOpenStep, ServeStreamStep
  <1>7. ASSUME NEW s \in Streams, NEW e \in Sides,
               Goroutine(e, s) \/ ReadData(e, s) \/ WriteData(e, s) \/ HangUp(e, s)
        PROVE  TunnelInv'
    BY <1>7, ReadEndsStep, WriteEndsStep, RemoveStep, SendCloseStep, ReadDataStep, WriteDataStep,
       HangUpStep DEF Goroutine
  <1>8. CASE UNCHANGED coopVars
    <2>1. UNCHANGED <<tunnelVars, done, shut>> /\ UNCHANGED <<end, sock, wire, sent, got>>
      BY <1>8 DEF coopVars
    <2> QED BY <2>1, ControlSame, PipesSame, SidesStay
  <1> QED BY <1>1, <1>2, <1>3, <1>4, <1>5, <1>6, <1>7, <1>8 DEF CoopNext

LEMMA TunnelCoop == TunnelInv => CoopInv
  <1> SUFFICES ASSUME TunnelInv PROVE CoopInv
    OBVIOUS
  <1>1. NoSocketLeaks
    BY DEF NoSocketLeaks, TunnelInv, StreamsInv, SocketOK, Usable
  <1>2. InOrder
    BY DEF InOrder, TunnelInv, StreamsInv, OrderOK
  <1>3. \A e \in Sides, s \in Streams :
          /\ end[e][s].at \in {"none", "opening", "serving", "ending", "closing", "gone"}
          /\ {end[e][s].reg, end[e][s].closed, end[e][s].peer, end[e][s].reading} \subseteq BOOLEAN
    <2> SUFFICES ASSUME NEW e \in Sides, NEW s \in Streams, NEW r \in CoopRows, r = end[e][s]
                 PROVE  /\ r.at \in {"none", "opening", "serving", "ending", "closing", "gone"}
                        /\ {r.reg, r.closed, r.peer, r.reading} \subseteq BOOLEAN
      BY TunnelTyped DEF TunnelInv
    <2> QED BY DEF CoopRows
  <1>4. \A e \in Sides, s \in Streams : Len(end[e][s].queue) <= QueueCap
    BY DEF TunnelInv, RowsTyped
  <1>5. sock \in [Sides -> [Streams -> {"none", "open", "hungup", "closed"}]]
    BY DEF TunnelInv, RowsTyped, SockStates
  <1>6. /\ \A e \in Sides : Len(wire[e]) <= WireCap /\ \A i \in 1..Len(wire[e]) : wire[e][i] \in Frames
        /\ sent \in [Sides -> [Streams -> 0..MaxData]]
    <2>1. \A e \in Sides : wire[e] \in Seq(Frames) /\ Len(wire[e]) <= WireCap
      BY DEF TunnelInv, PipesTyped
    <2> QED BY <2>1, WireTyped DEF TunnelInv, PipesTyped
  <1>7. \A e \in Sides, s \in Streams : got[e][s] \in Seq(1..MaxData)
    BY DEF TunnelInv, PipesTyped
  <1>8. CoopTypeOK
    BY <1>3, <1>4, <1>5, <1>6, <1>7 DEF CoopTypeOK, TunnelInv, ControlTyped
  <1> QED BY <1>1, <1>2, <1>8 DEF CoopInv

\* However connections of an adapter come and go, frames are shed, and relay and pump end: each
\* socket of a stream is given what was read from the other, in order and without a gap, until
\* it closes, and none stays open when its stream is gone (serveConn, setConn, dispatchData).
THEOREM StreamsInOrder == CoopSpec => []CoopInv
  <1>1. CoopInit => TunnelInv
    BY TunnelInitially
  <1>2. TunnelInv /\ [CoopNext]_coopVars => TunnelInv'
    BY TunnelStep
  <1> QED BY <1>1, <1>2, TunnelCoop, PTL DEF CoopSpec
==============================================================================
