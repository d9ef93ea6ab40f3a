----------------------------- MODULE FencedLock -----------------------------
(* What the lease ledger promises to everything built on it: per key at most  *)
(* one holder, a holder that nobody displaces before its deadline, and an     *)
(* epoch (the fence) that grows at each change of hands that was not          *)
(* volunteered.  There are no rows, queues, statements or handlers here.      *)
EXTENDS Naturals

CONSTANTS Keys, Sessions, NoHolder

VARIABLES holder, deadline, epoch, now

vars == <<holder, deadline, epoch, now>>

Init ==
  /\ holder = [k \in Keys |-> NoHolder]
  /\ deadline = [k \in Keys |-> 0]
  /\ epoch = [k \in Keys |-> 0]
  /\ now = 0

\* Changes only the deadline of k, to some instant.
NewDeadline(k) ==
  /\ deadline'[k] \in Nat
  /\ deadline' = [deadline EXCEPT ![k] = deadline'[k]]

Advance ==
  /\ now' \in Nat /\ now' > now
  /\ UNCHANGED <<holder, deadline, epoch>>

\* The lock changes hands only when it is free or past its deadline.
Grant(k, s) ==
  /\ holder[k] = NoHolder \/ deadline[k] <= now
  /\ holder' = [holder EXCEPT ![k] = s]
  /\ epoch' = [epoch EXCEPT ![k] = @ + 1]
  /\ NewDeadline(k)
  /\ UNCHANGED now

Extend(k) ==
  /\ holder[k] \in Sessions
  /\ NewDeadline(k)
  /\ UNCHANGED <<holder, epoch, now>>

Yield(k) ==
  /\ holder[k] \in Sessions
  /\ holder' = [holder EXCEPT ![k] = NoHolder]
  /\ deadline' = [deadline EXCEPT ![k] = 0]
  /\ UNCHANGED <<epoch, now>>

\* Taking the lock from a holder needs an elapsed deadline and fences it out.
Revoke(k) ==
  /\ holder[k] \in Sessions /\ deadline[k] <= now
  /\ holder' = [holder EXCEPT ![k] = NoHolder]
  /\ deadline' = [deadline EXCEPT ![k] = 0]
  /\ epoch' = [epoch EXCEPT ![k] = @ + 1]
  /\ UNCHANGED now

Next ==
  \/ Advance
  \/ \E k \in Keys :
       \/ \E s \in Sessions : Grant(k, s)
       \/ Extend(k)
       \/ Yield(k)
       \/ Revoke(k)

Spec == Init /\ [][Next]_vars
=============================================================================
