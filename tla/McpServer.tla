------------------------------ MODULE McpServer ------------------------------
(* The MCP servers that agents' hosts run (internal/mcp over                    *)
(* internal/coopclient and internal/rpcclient): a builder claims paths and      *)
(* keeps the claims renewed, an integrator holds a slot of the integrator pool, *)
(* and each is one process with three goroutines that share one daemon client:  *)
(* the loop that answers tool calls, the one that renews, the one that keeps    *)
(* the integrator's presence.  The daemon may go away and return and a          *)
(* connection may break; a server's identity at the daemon is its connection's, *)
(* unless a session token restores the session it was launched in.              *)
EXTENDS Naturals, FiniteSets

CONSTANTS
  Builders, Integrators,  \* server processes by role
  Tokened,                \* servers launched with a session token
  Pools,                  \* the sizes MAD_INTEGRATOR_POOL may give the integrator pool
  Paths,                  \* convergent paths
  TTL,                    \* a lease's time to live; servers renew once per unit of time
  MaxBreaks,              \* bound: daemon outages and broken connections
  Nobody, Rival           \* no holder; any other session that claims paths

Servers == Builders \cup Integrators
\* Slot 0 is the singleton's key, the others are those of a pool.
Slots == {0} \cup UNION {1..n : n \in Pools}
Keys == Slots \cup Paths

ASSUME RolesAssumption ==
  /\ Builders \cap Integrators = {} /\ Tokened \subseteq Servers
  /\ {Nobody, Rival} \cap Servers = {} /\ Nobody # Rival
ASSUME BoundsAssumption ==
  /\ Pools \subseteq 1..99 /\ Pools # {}
  /\ TTL \in Nat \ {0, 1} /\ MaxBreaks \in Nat

VARIABLES
  up, breaks,        \* the daemon answers; outages and broken connections so far
  lease,             \* the daemon's lease rows
  link,              \* per server: its client's connection and the identity it gives
  phase, cancelled, eof,  \* per server: its life; its context; its standard input
  call,              \* what its tool loop is doing
  claimed,           \* builders' tracked claims (server.claimed)
  due,               \* servers whose tickers have fired
  pass, stale, drop, \* the renewal under way: its keys, on a replaced client, the path to drop
  size, slot, pres,  \* the pool's size; integrators' presenceKey; the presence goroutine
  pidfile, wrote,    \* the pidfile of each slot; server.presencePidfile
  severed, forgotten \* history: servers whose presence or identity was interrupted; live
                     \* claims that a renewal stopped tracking, and slots whose grant got lost

daemonVars == <<up, breaks>>
lifeVars == <<phase, cancelled, eof>>
renewVars == <<pass, stale, drop>>
presenceVars == <<size, slot, pres, pidfile, wrote>>
serverVars == <<daemonVars, lease, link, lifeVars, call, claimed, due, renewVars, presenceVars,
                severed, forgotten>>

Connected == {"session", "minted"}
Idle == [op |-> "idle"]
Review == [op |-> "review"]
ToolCall == [op : {"claim"}, path : Paths, at : {"try", "granted", "denied"}, again : BOOLEAN]
            \cup [op : {"release"}, path : Paths, at : {"untrack", "try"}, again : BOOLEAN]

ServerTypeOK ==
  /\ up \in BOOLEAN /\ breaks \in 0..MaxBreaks
  /\ lease \in [Keys -> [who : Servers \cup {Nobody, Rival}, as : Connected \cup {"lost"},
                         left : 0..TTL]]
  /\ link \in [Servers -> Connected \cup {"none", "broken", "dropped"}]
  /\ phase \in [Servers -> {"unborn", "joining", "granted", "serving", "ending", "refused",
                            "gone", "killed"}]
  /\ cancelled \subseteq Servers /\ eof \subseteq Servers /\ due \subseteq Servers
  /\ call \in [Servers -> ToolCall \cup {Idle, Review}]
  /\ claimed \in [Builders -> SUBSET Paths] /\ pass \in [Builders -> SUBSET Paths]
  /\ stale \subseteq Builders /\ drop \in [Builders -> Paths \cup {Nobody}]
  /\ size \in Pools /\ slot \in [Integrators -> Slots]
  /\ pres \in [Integrators -> {"off", "loop", "released", "done"}]
  /\ pidfile \in [Slots -> Integrators \cup {Nobody}]
  /\ wrote \in [Integrators -> Slots \cup {Nobody}]
  /\ severed \subseteq Servers /\ forgotten \subseteq Servers \X Keys

FirstSlot == IF size = 1 THEN 0 ELSE 1
LastSlot == IF size = 1 THEN 0 ELSE size

Free == [who |-> Nobody, as |-> "lost", left |-> 0]
Held(p, as) == [who |-> p, as |-> as, left |-> TTL]

ServerInit ==
  /\ up = TRUE /\ breaks = 0
  /\ lease = [k \in Keys |-> Free]
  /\ link = [p \in Servers |-> "none"]
  /\ phase = [p \in Servers |-> "unborn"]
  /\ cancelled = {} /\ eof = {} /\ due = {}
  /\ call = [p \in Servers |-> Idle]
  /\ claimed = [p \in Builders |-> {}]
  /\ pass = [p \in Builders |-> {}] /\ stale = {} /\ drop = [p \in Builders |-> Nobody]
  /\ size \in Pools /\ slot = [p \in Integrators |-> FirstSlot]
  /\ pres = [p \in Integrators |-> "off"]
  /\ pidfile = [s \in Slots |-> Nobody] /\ wrote = [p \in Integrators |-> Nobody]
  /\ severed = {} /\ forgotten = {}

-----------------------------------------------------------------------------
(* The daemon client.                                                           *)

\* The identity p holds key k under is the one its calls are made in.
Holds(p, k, as) == lease[k].who = p /\ lease[k].as = as /\ lease[k].left > 0

\* The lease after its release; a holder under another identity releases nothing.
AfterRelease(p, k, as) == IF Holds(p, k, as) THEN [lease EXCEPT ![k] = Free] ELSE lease

\* The daemon grants a free or expired lease, and no other: not the caller's own either.
Grantable(k) == lease[k].left = 0

AfterGrant(p, k, as) == [lease EXCEPT ![k] = Held(p, as)]

Mine(p, k) == link[p] \in Connected /\ Holds(p, k, link[p])

\* A call succeeds on a live connection; one that an error dropped is dialled again by the
\* next call, without attaching.
Reaches(p) == link[p] \in Connected \/ (link[p] = "dropped" /\ up)

As(p) == IF link[p] \in Connected THEN link[p] ELSE "minted"

\* Dial attaches with the token, and keeps the minted identity when that fails.
Identities(p) == IF p \in Tokened THEN Connected ELSE {"minted"}

\* redial replaces the client; a renewal under way keeps the one it started with.
Redial(p) ==
  /\ up
  /\ \E as \in Identities(p) : link' = [link EXCEPT ![p] = as]
  /\ stale' = IF p \in Builders /\ pass[p] # {} THEN stale \cup {p} ELSE stale

\* The minted identity ends with its connection.
Orphaned(row, p) == IF row.who = p /\ row.as = "minted" THEN [row EXCEPT !.as = "lost"] ELSE row

Alive(p) == phase[p] \notin {"unborn", "refused", "gone", "killed"}

Use(p) == link' = [link EXCEPT ![p] = As(p)]

-----------------------------------------------------------------------------
(* Starting, and the integrator's presence.                                     *)

Start(p) ==
  /\ phase[p] = "unborn"
  /\ phase' = [phase EXCEPT ![p] = IF p \in Integrators THEN "joining" ELSE "serving"]
  /\ IF up THEN \E as \in Identities(p) : link' = [link EXCEPT ![p] = as]
           ELSE UNCHANGED link
  /\ UNCHANGED <<daemonVars, lease, cancelled, eof, call, claimed, due, renewVars,
                 presenceVars, severed, forgotten>>

\* Without an answer from the daemon the integrator serves unverified, on the first slot,
\* also when it was the answer to a grant that got lost.
Advisory(p) ==
  /\ phase' = [phase EXCEPT ![p] = "serving"]
  /\ slot' = [slot EXCEPT ![p] = FirstSlot]
  /\ pres' = [pres EXCEPT ![p] = "loop"]
  /\ severed' = severed \cup {p}
  /\ forgotten' = IF slot[p] # FirstSlot /\ lease[slot[p]].who = p
                  THEN forgotten \cup {<<p, slot[p]>>} ELSE forgotten

JoinUnverified(p) ==
  /\ phase[p] \in {"joining", "granted"}
  /\ IF link[p] = "none" THEN ~up /\ UNCHANGED link
     ELSE link[p] = "broken" /\ link' = [link EXCEPT ![p] = "dropped"]
  /\ Advisory(p)
  /\ UNCHANGED <<daemonVars, lease, cancelled, eof, call, claimed, due, renewVars, size,
                 pidfile, wrote>>

JoinRedials(p) ==
  /\ phase[p] = "joining" /\ link[p] = "none"
  /\ Redial(p)
  /\ UNCHANGED <<daemonVars, lease, lifeVars, call, claimed, due, pass, drop, presenceVars,
                 severed, forgotten>>

JoinSlot(p) ==
  /\ phase[p] = "joining" /\ link[p] \in Connected
  /\ Grantable(slot[p])
  /\ lease' = AfterGrant(p, slot[p], link[p])
  /\ phase' = [phase EXCEPT ![p] = "granted"]
  /\ UNCHANGED <<daemonVars, link, cancelled, eof, call, claimed, due, renewVars,
                 presenceVars, severed, forgotten>>

\* Every slot is held: the server answers nothing and ends.
Refuse(p) ==
  /\ slot[p] = LastSlot
  /\ phase' = [phase EXCEPT ![p] = "refused"] /\ link' = [link EXCEPT ![p] = "none"]
  /\ UNCHANGED slot

SlotTaken(p) ==
  /\ phase[p] = "joining" /\ link[p] \in Connected
  /\ lease[slot[p]].left > 0
  /\ \/ Refuse(p)
     \/ /\ slot[p] < LastSlot
        /\ slot' = [slot EXCEPT ![p] = @ + 1] /\ UNCHANGED <<phase, link>>
  /\ UNCHANGED <<daemonVars, lease, cancelled, eof, call, claimed, due, renewVars, size, pres,
                 pidfile, wrote, severed, forgotten>>

WritePidfile(p) ==
  /\ phase[p] = "granted"
  /\ pidfile' = [pidfile EXCEPT ![slot[p]] = p]
  /\ wrote' = [wrote EXCEPT ![p] = slot[p]]
  /\ phase' = [phase EXCEPT ![p] = "serving"]
  /\ pres' = [pres EXCEPT ![p] = "loop"]
  /\ UNCHANGED <<daemonVars, lease, link, cancelled, eof, call, claimed, due, renewVars, size,
                 slot, severed, forgotten>>

\* Fault: the tick acquires only, which does not extend a lease the server holds.
PresenceTickAcquires(p) ==
  /\ pres[p] = "loop" /\ p \in due /\ p \notin cancelled
  /\ due' = due \ {p}
  /\ IF Reaches(p) /\ Grantable(slot[p])
     THEN Use(p) /\ lease' = AfterGrant(p, slot[p], As(p))
     ELSE UNCHANGED <<link, lease>>
  /\ UNCHANGED <<daemonVars, lifeVars, call, claimed, renewVars, presenceVars, severed,
                 forgotten>>

\* Renew, else Acquire: what the acquire answers is not looked at, and it is made in the
\* identity of a new connection when the renew found the old one broken.
PresenceTick(p) ==
  /\ pres[p] = "loop" /\ p \in due /\ p \notin cancelled
  /\ due' = due \ {p}
  /\ IF up
     THEN \E as \in (IF link[p] = "none" THEN Identities(p) ELSE {As(p)}) :
            /\ link' = [link EXCEPT ![p] = as]
            /\ IF Holds(p, slot[p], as) \/ Grantable(slot[p])
               THEN lease' = AfterGrant(p, slot[p], as) /\ severed' = severed \ {p}
               ELSE UNCHANGED <<lease, severed>>
     ELSE /\ link' = [link EXCEPT ![p] = IF @ = "none" THEN @ ELSE "dropped"]
          /\ UNCHANGED <<lease, severed>>
  /\ UNCHANGED <<daemonVars, lifeVars, call, claimed, renewVars, presenceVars, forgotten>>

\* The end of the presence goroutine: the lease first, then the pidfile, whoever wrote it.
ReleaseSlot(p) ==
  /\ pres[p] = "loop" /\ p \in cancelled
  /\ pres' = [pres EXCEPT ![p] = "released"]
  /\ \/ /\ link[p] = "none" /\ up
        /\ \E as \in Identities(p) :
             /\ link' = [link EXCEPT ![p] = as]
             /\ lease' = AfterRelease(p, slot[p], as)
     \/ /\ Reaches(p) /\ Use(p)
        /\ lease' = AfterRelease(p, slot[p], As(p))
     \/ /\ ~Reaches(p) /\ (link[p] = "none" => ~up)
        /\ link' = [link EXCEPT ![p] = IF @ = "none" THEN @ ELSE "dropped"]
        /\ UNCHANGED lease
  /\ UNCHANGED <<daemonVars, lifeVars, call, claimed, due, renewVars, size, slot, pidfile, wrote,
                 severed, forgotten>>

RemovePidfile(p) ==
  /\ pres[p] = "released"
  /\ pres' = [pres EXCEPT ![p] = "done"]
  /\ pidfile' = IF wrote[p] = Nobody THEN pidfile ELSE [pidfile EXCEPT ![wrote[p]] = Nobody]
  /\ wrote' = [wrote EXCEPT ![p] = Nobody]
  /\ UNCHANGED <<daemonVars, lease, link, lifeVars, call, claimed, due, renewVars, size,
                 slot, severed, forgotten>>

-----------------------------------------------------------------------------
(* Tool calls, one at a time; withBackend makes each at most twice.             *)

InFlight(p) == call[p].op = "claim" /\ call[p].at \in {"granted", "denied"}

Begin(p) ==
  /\ phase[p] = "serving" /\ call[p] = Idle
  /\ IF p \in Integrators THEN call' = [call EXCEPT ![p] = Review]
     ELSE \E f \in Paths :
            \/ call' = [call EXCEPT ![p] = [op |-> "claim", path |-> f, at |-> "try",
                                            again |-> FALSE]]
            \/ call' = [call EXCEPT ![p] = [op |-> "release", path |-> f, at |-> "untrack",
                                            again |-> FALSE]]
  /\ UNCHANGED <<daemonVars, lease, link, lifeVars, claimed, due, renewVars, presenceVars,
                 severed, forgotten>>

\* A review merges over a connection of its own and may take minutes.
EndReview(p) ==
  /\ call[p] = Review
  /\ call' = [call EXCEPT ![p] = Idle]
  /\ UNCHANGED <<daemonVars, lease, link, lifeVars, claimed, due, renewVars, presenceVars,
                 severed, forgotten>>

Trying(p) == call[p].op \in {"claim", "release"} /\ call[p].at \in {"untrack", "try"}

FirstBackend(p) ==
  /\ Trying(p) /\ link[p] = "none"
  /\ \/ Redial(p) /\ UNCHANGED call
     \/ ~up /\ call' = [call EXCEPT ![p] = Idle] /\ UNCHANGED <<link, stale>>
  /\ UNCHANGED <<daemonVars, lease, lifeVars, claimed, due, pass, drop, presenceVars, severed,
                 forgotten>>

\* A transport error: dial again and make the whole call once more, or give the note that
\* proceeding is safe.
Retry(p) ==
  /\ \/ Trying(p) /\ link[p] # "none" /\ ~Reaches(p)
     \/ InFlight(p) /\ link[p] \notin Connected
  /\ \/ /\ ~call[p].again
        /\ Redial(p)
        /\ call' = [call EXCEPT ![p].again = TRUE,
                                ![p].at = IF call[p].op = "claim" THEN "try" ELSE "untrack"]
     \/ /\ call[p].again \/ ~up
        /\ link' = [link EXCEPT ![p] = "dropped"]
        /\ call' = [call EXCEPT ![p] = Idle]
        /\ UNCHANGED stale
  /\ UNCHANGED <<daemonVars, lease, lifeVars, claimed, due, pass, drop, presenceVars, severed,
                 forgotten>>

Claim(p) ==
  /\ call[p].op = "claim" /\ call[p].at = "try" /\ Reaches(p)
  /\ Use(p)
  /\ LET f == call[p].path IN
       IF Grantable(f)
       THEN /\ lease' = AfterGrant(p, f, As(p))
            /\ call' = [call EXCEPT ![p].at = "granted"]
            /\ forgotten' = forgotten \ {<<p, f>>}
       ELSE call' = [call EXCEPT ![p].at = "denied"] /\ UNCHANGED <<lease, forgotten>>
  /\ UNCHANGED <<daemonVars, lifeVars, claimed, due, renewVars, presenceVars, severed>>

Answer(p) ==
  /\ InFlight(p) /\ link[p] \in Connected
  /\ claimed' = IF call[p].at = "granted" THEN [claimed EXCEPT ![p] = @ \cup {call[p].path}]
                                          ELSE claimed
  /\ call' = [call EXCEPT ![p] = Idle]
  /\ UNCHANGED <<daemonVars, lease, link, lifeVars, due, renewVars, presenceVars, severed,
                 forgotten>>

\* Stop renewing before releasing.
StopRenewing(p) ==
  /\ call[p].op = "release" /\ call[p].at = "untrack" /\ Reaches(p)
  /\ Use(p)
  /\ claimed' = [claimed EXCEPT ![p] = @ \ {call[p].path}]
  /\ call' = [call EXCEPT ![p].at = "try"]
  /\ UNCHANGED <<daemonVars, lease, lifeVars, due, renewVars, presenceVars, severed, forgotten>>

Release(p) ==
  /\ call[p].op = "release" /\ call[p].at = "try" /\ Reaches(p)
  /\ Use(p)
  /\ lease' = AfterRelease(p, call[p].path, As(p))
  /\ call' = [call EXCEPT ![p] = Idle]
  /\ UNCHANGED <<daemonVars, lifeVars, claimed, due, renewVars, presenceVars, severed,
                 forgotten>>

-----------------------------------------------------------------------------
(* renewAll: a snapshot of the claims, renewed one at a time.                   *)

RenewBegin(p) ==
  /\ p \in Builders /\ p \in due /\ p \notin cancelled /\ phase[p] = "serving"
  /\ due' = due \ {p}
  /\ pass' = [pass EXCEPT ![p] = IF link[p] = "none" THEN {} ELSE claimed[p]]
  /\ stale' = stale \ {p}
  /\ UNCHANGED <<daemonVars, lease, link, lifeVars, call, claimed, drop, presenceVars, severed,
                 forgotten>>

\* Fault: a claim that was not renewed is left to the next renewal.
RenewedLater(p, f, as) ==
  /\ lease' = IF Holds(p, f, as) THEN [lease EXCEPT ![f].left = TTL] ELSE lease
  /\ pass' = [pass EXCEPT ![p] = @ \ {f}] /\ UNCHANGED drop

Renewed(p, f, as) ==
  IF Holds(p, f, as)
  THEN /\ lease' = [lease EXCEPT ![f].left = TTL]
       /\ pass' = [pass EXCEPT ![p] = @ \ {f}] /\ UNCHANGED drop
  ELSE drop' = [drop EXCEPT ![p] = f] /\ UNCHANGED <<lease, pass>>

RenewOne(p) ==
  /\ p \in Builders /\ drop[p] = Nobody
  /\ \E f \in pass[p] :
       \/ /\ p \notin stale /\ ~InFlight(p) /\ Reaches(p)
          /\ Use(p) /\ Renewed(p, f, As(p))
       \/ /\ p \notin stale /\ ~InFlight(p) /\ ~Reaches(p) /\ up
          /\ \E as \in Identities(p) : link' = [link EXCEPT ![p] = as] /\ Renewed(p, f, as)
       \/ /\ p \notin stale /\ ~InFlight(p) /\ ~Reaches(p) /\ ~up
          /\ link' = [link EXCEPT ![p] = "dropped"]
          /\ drop' = [drop EXCEPT ![p] = f] /\ UNCHANGED <<lease, pass>>
       \/ \* the replaced client has a new identity, or no connection
          /\ p \in stale
          /\ drop' = [drop EXCEPT ![p] = f] /\ UNCHANGED <<lease, link, pass>>
  /\ UNCHANGED <<daemonVars, lifeVars, call, claimed, due, stale, presenceVars, severed,
                 forgotten>>

\* A claim that was not renewed is not shown as held any more, one that was claimed again
\* in between included.
Untrack(p) ==
  /\ p \in Builders /\ drop[p] # Nobody
  /\ claimed' = [claimed EXCEPT ![p] = @ \ {drop[p]}]
  /\ pass' = [pass EXCEPT ![p] = @ \ {drop[p]}]
  /\ drop' = [drop EXCEPT ![p] = Nobody]
  /\ forgotten' = IF drop[p] \in claimed[p] /\ lease[drop[p]].who = p
                  THEN forgotten \cup {<<p, drop[p]>>} ELSE forgotten
  /\ UNCHANGED <<daemonVars, lease, link, lifeVars, call, due, stale, presenceVars, severed>>

-----------------------------------------------------------------------------
(* The end of a server.                                                         *)

Leave(p) ==
  /\ phase[p] = "serving" /\ call[p] = Idle /\ p \in cancelled \cup eof
  /\ phase' = [phase EXCEPT ![p] = "ending"]
  /\ cancelled' = cancelled \cup {p}
  /\ UNCHANGED <<daemonVars, lease, link, eof, call, claimed, due, renewVars, presenceVars,
                 severed, forgotten>>

\* Fault: shutdown does not wait for the goroutines.
GoroutinesDoneUnawaited(p) == TRUE

GoroutinesDone(p) == IF p \in Builders THEN pass[p] = {} ELSE pres[p] = "done"

Released(p) ==
  IF p \in Builders /\ Reaches(p)
  THEN [k \in Keys |-> IF k \in claimed[p] /\ Holds(p, k, As(p)) THEN Free ELSE lease[k]]
  ELSE lease

Shutdown(p) ==
  /\ phase[p] = "ending" /\ GoroutinesDone(p)
  /\ lease' = Released(p)
  /\ claimed' = IF p \in Builders THEN [claimed EXCEPT ![p] = {}] ELSE claimed
  /\ phase' = [phase EXCEPT ![p] = "gone"] /\ link' = [link EXCEPT ![p] = "none"]
  /\ due' = due \ {p} /\ cancelled' = cancelled \ {p} /\ eof' = eof \ {p}
  /\ UNCHANGED <<daemonVars, call, renewVars, presenceVars, severed, forgotten>>

Kill(p) ==
  /\ Alive(p)
  /\ phase' = [phase EXCEPT ![p] = "killed"] /\ link' = [link EXCEPT ![p] = "none"]
  /\ call' = [call EXCEPT ![p] = Idle] /\ due' = due \ {p}
  /\ IF p \in Builders
     THEN /\ claimed' = [claimed EXCEPT ![p] = {}] /\ pass' = [pass EXCEPT ![p] = {}]
          /\ drop' = [drop EXCEPT ![p] = Nobody] /\ UNCHANGED pres
     ELSE pres' = [pres EXCEPT ![p] = "off"] /\ UNCHANGED <<claimed, pass, drop>>
  /\ stale' = stale \ {p} /\ severed' = severed \ {p}
  /\ cancelled' = cancelled \ {p} /\ eof' = eof \ {p}
  /\ UNCHANGED <<daemonVars, lease, size, slot, pidfile, wrote, forgotten>>

-----------------------------------------------------------------------------
(* The daemon, the other sessions and time.                                     *)

Outage ==
  /\ up /\ breaks < MaxBreaks
  /\ up' = FALSE /\ breaks' = breaks + 1
  /\ lease' = [k \in Keys |-> Orphaned(lease[k], lease[k].who)]
  /\ link' = [p \in Servers |-> IF link[p] \in Connected THEN "broken" ELSE link[p]]
  /\ severed' = severed \cup {p \in Servers : link[p] \in Connected}
  /\ UNCHANGED <<lifeVars, call, claimed, due, renewVars, presenceVars, forgotten>>

Return ==
  /\ ~up /\ up' = TRUE
  /\ UNCHANGED <<breaks, lease, link, lifeVars, call, claimed, due, renewVars, presenceVars,
                 severed, forgotten>>

\* A call that the daemon answers too late, too.
Sever(p) ==
  /\ link[p] \in Connected /\ breaks < MaxBreaks
  /\ breaks' = breaks + 1
  /\ link' = [link EXCEPT ![p] = "broken"]
  /\ lease' = [k \in Keys |-> Orphaned(lease[k], p)]
  /\ severed' = severed \cup {p}
  /\ UNCHANGED <<up, lifeVars, call, claimed, due, renewVars, presenceVars, forgotten>>

Compete ==
  /\ \E f \in Paths :
       \/ /\ lease[f].left = 0
          /\ lease' = [lease EXCEPT ![f] = [who |-> Rival, as |-> "lost", left |-> TTL]]
       \/ lease[f].who = Rival /\ lease' = [lease EXCEPT ![f] = Free]
  /\ UNCHANGED <<daemonVars, link, lifeVars, call, claimed, due, renewVars, presenceVars,
                 severed, forgotten>>

Aged(row) == IF row.left <= 1 THEN Free ELSE [row EXCEPT !.left = @ - 1]

\* Half of LeaseTTL (30 s): within it every ticker's work is done and every call answered.
Tick ==
  /\ due \subseteq cancelled
  /\ \A p \in Servers : phase[p] # "granted" /\ ~InFlight(p)
  /\ \A p \in Builders : pass[p] = {}
  /\ lease' = [k \in Keys |-> Aged(lease[k])]
  /\ due' = {p \in Servers : phase[p] = "serving" /\ p \notin cancelled}
  /\ UNCHANGED <<daemonVars, link, lifeVars, call, claimed, renewVars, presenceVars, severed,
                 forgotten>>

Signal(p) == cancelled' = cancelled \cup {p}

\* The host ends, and with it the server's standard input.
HostEnds(p) ==
  /\ Alive(p) /\ p \notin eof
  /\ eof' = eof \cup {p}
  /\ UNCHANGED <<daemonVars, lease, link, phase, cancelled, call, claimed, due, renewVars,
                 presenceVars, severed, forgotten>>

Join(p) == JoinUnverified(p) \/ JoinRedials(p) \/ JoinSlot(p) \/ SlotTaken(p) \/ WritePidfile(p)
ToolStep(p) == FirstBackend(p) \/ Retry(p) \/ Claim(p) \/ Answer(p) \/ StopRenewing(p)
               \/ Release(p) \/ EndReview(p) \/ Leave(p) \/ Shutdown(p)
Renewal(p) == RenewBegin(p) \/ RenewOne(p) \/ Untrack(p)
Presence(p) == PresenceTick(p) \/ ReleaseSlot(p) \/ RemovePidfile(p)

ServerNext ==
  \/ \E p \in Servers : Start(p) \/ Begin(p) \/ ToolStep(p) \/ HostEnds(p) \/ Kill(p)
                         \/ Sever(p)
  \/ \E p \in Builders : Renewal(p)
  \/ \E p \in Integrators : Join(p) \/ Presence(p)
  \/ Outage \/ Return \/ Compete \/ Tick

\* Goroutines run, a started integrator joins, a call ends; the daemon need not return.
\* Time passes whatever the calls do, and the client's lock is fair to the renewal.
ServerFairness ==
  /\ \A p \in Servers : WF_serverVars(ToolStep(p))
  /\ \A p \in Builders : SF_serverVars(Renewal(p))
  /\ \A p \in Integrators : WF_serverVars(Join(p)) /\ WF_serverVars(Presence(p))
  /\ SF_serverVars(Tick)

-----------------------------------------------------------------------------

\* A server whose connection has not broken holds what it says it holds: an integrator its
\* slot, a builder every path it tracks (the renewal loops against the time to live, a
\* release or a new claim beside a renewal under way, refusals in acquireIntegratorPresence).
KeptWhileLinked ==
  \A p \in Servers : phase[p] = "serving" /\ p \notin severed \cup cancelled =>
    IF p \in Integrators THEN Mine(p, slot[p]) ELSE \A f \in claimed[p] : Mine(p, f)

\* A server that ends in order and with its connection leaves no lease behind, but for a
\* live claim that a renewal had stopped tracking, and for a slot granted in an answer that
\* got lost (the order of wg.Wait, the presence goroutine's release and shutdown's).
CleanExitFrees ==
  \A p \in Servers, k \in Keys : phase[p] = "gone" /\ p \notin severed /\ lease[k].who = p
    => <<p, k>> \in forgotten

\* A claim that was lost while the daemon was away is not shown as held for ever (renewAll
\* drops what it cannot renew).
LostClaimsDropped ==
  \A p \in Builders, f \in Paths :
    (f \in claimed[p] /\ ~Mine(p, f) /\ p \notin cancelled)
      ~> (f \notin claimed[p] \/ Mine(p, f) \/ p \in cancelled)

Keeper(p) == phase[p] = "serving" /\ slot[p] = FirstSlot /\ p \notin cancelled

\* A slot that its integrator lost (the first stands for all) is taken again, by it or by
\* another, while it serves and the daemon answers (presenceRenewLoop acquires when it
\* cannot renew).
SlotReadopted ==
  (lease[FirstSlot].left = 0 /\ \E p \in Integrators : Keeper(p))
    ~> (lease[FirstSlot].left > 0 \/ ~up \/ \A p \in Integrators : ~Keeper(p))

\* What an outage took is given up or taken again (renewAll, presenceRenewLoop).
LostLeasesSettle == LostClaimsDropped /\ SlotReadopted
==============================================================================
