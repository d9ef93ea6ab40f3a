------------------------------- MODULE Daemon --------------------------------
(* One daemon per socket (internal/daemon and the commands that start and stop  *)
(* it).  Three files stand beside each other: the lock, which a daemon holds by *)
(* flock for its whole life, the socket and the pidfile, which it makes and     *)
(* removes while it holds the lock.  Launchers look at the lock by taking it,   *)
(* start a daemon when they could, and wait until one answers; `daemon stop`    *)
(* signals the process the pidfile names.                                       *)
EXTENDS Naturals, FiniteSets

CONSTANTS
  NProcs,     \* bound: daemon processes
  Launchers,  \* launches that call ensureDaemon
  Ctl,        \* the command `daemon stop` or `daemon status`
  MaxConns,   \* connections a daemon serves at once (256)
  MaxKills,   \* bound: daemons killed
  None

Procs == 1..NProcs
Probers == Launchers \cup {Ctl}

ASSUME DaemonAssumption ==
  /\ NProcs \in Nat \ {0} /\ MaxConns \in Nat \ {0} /\ MaxKills \in Nat
  /\ Procs \cap Probers = {} /\ Ctl \notin Launchers /\ None \notin Procs \cup Probers

VARIABLES
  proc,              \* per process: how far Build, Start, Serve and Close have come
  lock,              \* who holds the flock
  listening,         \* processes whose listener is open
  sockfile, pidfile, \* the process that made the file that is there
  nameless,          \* processes that could not write their pidfile
  conns,             \* per process: connections under way
  signalled,         \* processes that were sent SIGTERM
  at, pid, kills,    \* per prober: where it is; the process stop has read; kills so far
  disturbed          \* history: launches during which a daemon was stopped or killed, or the
                     \* last that was starting met the command's probe

fileVars == <<lock, sockfile, pidfile, nameless>>
serveVars == <<listening, conns, signalled>>
proberVars == <<at, pid, kills, disturbed>>
daemonVars == <<proc, fileVars, serveVars, proberVars>>

DaemonTypeOK ==
  /\ proc \in [Procs -> {"unborn", "building", "locked", "listening", "serving", "closing",
                         "unnamed", "closed", "gone"}]
  /\ lock \in Procs \cup Probers \cup {None}
  /\ listening \subseteq Procs /\ nameless \subseteq Procs /\ signalled \subseteq Procs
  /\ sockfile \in Procs \cup {None} /\ pidfile \in Procs \cup {None}
  /\ conns \in [Procs -> 0..MaxConns]
  /\ at \in [Probers -> {"idle", "probe", "clean", "unlock", "held", "free", "wait", "ready",
                         "failed", "read", "signal", "poll"}]
  /\ pid \in Procs \cup {None} /\ kills \in 0..MaxKills
  /\ disturbed \subseteq Launchers

DaemonInit ==
  /\ proc = [p \in Procs |-> "unborn"]
  /\ lock = None /\ sockfile = None /\ pidfile = None
  /\ listening = {} /\ nameless = {} /\ signalled = {} /\ disturbed = {}
  /\ conns = [p \in Procs |-> 0]
  /\ at = [x \in Probers |-> "idle"] /\ pid = None /\ kills = 0

Waiting == {l \in Launchers : at[l] \notin {"idle", "ready", "failed"}}
Running(p) == proc[p] \notin {"unborn", "gone"}
Holder(p) == lock = p

-----------------------------------------------------------------------------
(* A daemon's life.                                                             *)

\* app.Build opens the ledger and the trunk before the lock is asked for, and may fail on
\* another daemon that starts at the same time and creates them.
Spawn(p) ==
  /\ proc[p] = "unborn" /\ \A q \in 1..(p - 1) : proc[q] # "unborn"
  /\ proc' = [proc EXCEPT ![p] = "building"]

OthersStart(p) == \E q \in Procs \ {p} : proc[q] \in {"building", "locked", "listening"}

BuildFails(p) ==
  /\ proc[p] = "building" /\ OthersStart(p)
  /\ proc' = [proc EXCEPT ![p] = "gone"]
  /\ UNCHANGED <<fileVars, serveVars, proberVars>>

\* ErrAlreadyRunning, when it is a probe that holds the lock, too.
Flock(p) ==
  /\ proc[p] = "building"
  /\ IF lock = None
     THEN proc' = [proc EXCEPT ![p] = "locked"] /\ lock' = p
     ELSE proc' = [proc EXCEPT ![p] = "gone"] /\ UNCHANGED lock
  /\ disturbed' = IF lock = Ctl /\ ~OthersStart(p) THEN disturbed \cup Waiting ELSE disturbed
  /\ UNCHANGED <<sockfile, pidfile, nameless, serveVars, at, pid, kills>>

\* Fault: a socket that a killed daemon left behind makes the listen fail.
ListenOnce(p) ==
  /\ proc[p] = "locked"
  /\ IF sockfile = None
     THEN /\ proc' = [proc EXCEPT ![p] = "listening"] /\ UNCHANGED lock
          /\ sockfile' = p /\ listening' = listening \cup {p}
     ELSE /\ proc' = [proc EXCEPT ![p] = "gone"] /\ lock' = None
          /\ UNCHANGED <<sockfile, listening>>
  /\ UNCHANGED <<pidfile, nameless, conns, signalled, proberVars>>

\* The socket of a killed daemon is removed first.
Listen(p) ==
  /\ proc[p] = "locked"
  /\ proc' = [proc EXCEPT ![p] = "listening"]
  /\ sockfile' = p /\ listening' = listening \cup {p}
  /\ UNCHANGED <<lock, pidfile, nameless, conns, signalled, proberVars>>

\* When the pidfile cannot be written, what is there stays, or is left empty.
Named(p) ==
  /\ proc[p] = "listening"
  /\ proc' = [proc EXCEPT ![p] = "serving"]
  /\ \/ pidfile' = p /\ UNCHANGED nameless
     \/ pidfile' \in {pidfile, None} /\ nameless' = nameless \cup {p}
  /\ UNCHANGED <<lock, sockfile, serveVars, proberVars>>

Full(p) == conns[p] = MaxConns

AcceptConn(p) ==
  /\ proc[p] = "serving" /\ ~Full(p)
  /\ conns' = [conns EXCEPT ![p] = @ + 1]
  /\ UNCHANGED <<proc, fileVars, listening, signalled, proberVars>>

\* A connection ends when its client does: a daemon that was closed goes on serving it.
ConnEnds(p) ==
  /\ Running(p) /\ conns[p] > 0
  /\ conns' = [conns EXCEPT ![p] = @ - 1]
  /\ UNCHANGED <<proc, fileVars, listening, signalled, proberVars>>

\* Closing the listener unlinks the path of the socket.
CloseListener(p) ==
  /\ proc[p] = "serving" /\ p \in signalled
  /\ proc' = [proc EXCEPT ![p] = "closing"]
  /\ listening' = listening \ {p} /\ sockfile' = None
  /\ UNCHANGED <<lock, pidfile, nameless, conns, signalled, proberVars>>

RemovePid(p) ==
  /\ proc[p] = "closing"
  /\ proc' = [proc EXCEPT ![p] = "unnamed"]
  /\ pidfile' = None
  /\ UNCHANGED <<lock, sockfile, nameless, serveVars, proberVars>>

Unlock(p) ==
  /\ proc[p] = "unnamed"
  /\ proc' = [proc EXCEPT ![p] = "closed"]
  /\ lock' = IF Holder(p) THEN None ELSE lock
  /\ UNCHANGED <<sockfile, pidfile, nameless, serveVars, proberVars>>

Exit(p) ==
  /\ proc' = [proc EXCEPT ![p] = "gone"]
  /\ conns' = [conns EXCEPT ![p] = 0]
  /\ signalled' = signalled \ {p}
  /\ listening' = listening \ {p}
  /\ lock' = IF Holder(p) THEN None ELSE lock

\* Serve returns when its Accept fails; at the limit it does not accept but waits for a
\* connection to end, closed or not.  The process ends when Close is through, too.
ServeReturns(p) ==
  /\ proc[p] = "closed" /\ ~Full(p)
  /\ Exit(p)
  /\ UNCHANGED <<sockfile, pidfile, nameless, proberVars>>

\* SIGKILL, or SIGTERM before the handler is there: the files stay.
Kill(p) ==
  /\ Running(p)
  /\ \/ kills < MaxKills /\ kills' = kills + 1
     \/ p \in signalled /\ proc[p] \in {"building", "locked", "listening", "serving"}
        /\ UNCHANGED kills
  /\ Exit(p)
  /\ disturbed' = disturbed \cup Waiting
  /\ UNCHANGED <<sockfile, pidfile, nameless, at, pid>>

-----------------------------------------------------------------------------
(* IsRunning: the probe of the lock.                                            *)

Go(x, s) == at' = [at EXCEPT ![x] = s]

\* Fault: the probe gives the lock back before it cleans up.
ProbeReleased(x) ==
  /\ at[x] \in {"probe", "poll"}
  /\ IF lock = None THEN Go(x, "clean") ELSE Go(x, "held")
  /\ UNCHANGED <<proc, fileVars, serveVars, pid, kills, disturbed>>

Probe(x) ==
  /\ at[x] \in {"probe", "poll"}
  /\ IF lock = None THEN Go(x, "clean") /\ lock' = x ELSE Go(x, "held") /\ UNCHANGED lock
  /\ UNCHANGED <<proc, sockfile, pidfile, nameless, serveVars, pid, kills, disturbed>>

\* No daemon lives: the pidfile is one that a killed daemon left behind.
ProbeClean(x) ==
  /\ at[x] = "clean"
  /\ pidfile' = None
  /\ Go(x, "unlock")
  /\ UNCHANGED <<proc, lock, sockfile, nameless, serveVars, pid, kills, disturbed>>

ProbeUnlock(x) ==
  /\ at[x] = "unlock"
  /\ lock' = IF lock = x THEN None ELSE lock
  /\ Go(x, "free")
  /\ UNCHANGED <<proc, sockfile, pidfile, nameless, serveVars, pid, kills, disturbed>>

-----------------------------------------------------------------------------
(* ensureDaemon.                                                                *)

\* Dialled through the socket's path, diag.health is answered.
Responsive == sockfile # None /\ proc[sockfile] = "serving" /\ ~Full(sockfile)

Launch(l) ==
  /\ l \in Launchers /\ at[l] = "idle"
  /\ Go(l, "probe")
  /\ UNCHANGED <<proc, fileVars, serveVars, pid, kills, disturbed>>

\* Someone holds the lock: it answers, or the launch fails; a second daemon is not tried.
CheckHolder(l) ==
  /\ l \in Launchers /\ at[l] = "held"
  /\ \/ Responsive /\ Go(l, "ready")
     \/ ~Responsive /\ Go(l, "failed")
  /\ UNCHANGED <<proc, fileVars, serveVars, pid, kills, disturbed>>

Autostart(l) ==
  /\ l \in Launchers /\ at[l] = "free"
  /\ \E p \in Procs : Spawn(p)
  /\ Go(l, "wait")
  /\ UNCHANGED <<fileVars, serveVars, pid, kills, disturbed>>

\* Whoever's daemon it is.
BecomesReady(l) ==
  /\ at[l] = "wait" /\ Responsive
  /\ Go(l, "ready")
  /\ UNCHANGED <<proc, fileVars, serveVars, pid, kills, disturbed>>

GivesUp(l) ==
  /\ at[l] = "wait" /\ ~Responsive
  /\ l \in disturbed \/ \E p \in Procs : Full(p)
  /\ Go(l, "failed")
  /\ UNCHANGED <<proc, fileVars, serveVars, pid, kills, disturbed>>

-----------------------------------------------------------------------------
(* daemon stop.                                                                 *)

StopBegins ==
  /\ at[Ctl] = "idle"
  /\ Go(Ctl, "probe")
  /\ UNCHANGED <<proc, fileVars, serveVars, pid, kills, disturbed>>

\* status ends here; stop reads the pidfile, or asks the daemon when there is none.
StopReads ==
  /\ at[Ctl] = "held" /\ pid = None
  /\ \/ Go(Ctl, "ready") /\ UNCHANGED pid
     \/ pidfile # None /\ pid' = pidfile /\ Go(Ctl, "signal")
     \/ pidfile = None /\ Responsive /\ pid' = sockfile /\ Go(Ctl, "signal")
     \/ pidfile = None /\ ~Responsive /\ UNCHANGED pid /\ Go(Ctl, "failed")
  /\ UNCHANGED <<proc, fileVars, serveVars, kills, disturbed>>

\* A pid that is gone is taken for a daemon that has stopped, after one more probe.
StopSignals ==
  /\ at[Ctl] = "signal"
  /\ IF Running(pid)
     THEN signalled' = signalled \cup {pid} /\ disturbed' = disturbed \cup Waiting
     ELSE UNCHANGED <<signalled, disturbed>>
  /\ Go(Ctl, "poll")
  /\ UNCHANGED <<proc, fileVars, listening, conns, pid, kills>>

\* It polls the lock for five seconds.
StopPolls ==
  /\ at[Ctl] = "held" /\ pid # None
  /\ Go(Ctl, "poll") \/ Go(Ctl, "failed")
  /\ UNCHANGED <<proc, fileVars, serveVars, pid, kills, disturbed>>

-----------------------------------------------------------------------------

\* Bound: enough processes are left for the launches.
UserStarts(p) ==
  /\ Cardinality({q \in Procs : proc[q] = "unborn"})
       > Cardinality({l \in Launchers : at[l] \in {"idle", "probe", "clean", "unlock", "free"}})
  /\ Spawn(p)
  /\ UNCHANGED <<fileVars, serveVars, proberVars>>

Start(p) == Flock(p) \/ Listen(p) \/ Named(p)
Close(p) == CloseListener(p) \/ RemovePid(p) \/ Unlock(p) \/ ServeReturns(p)
IsRunning(x) == Probe(x) \/ ProbeClean(x) \/ ProbeUnlock(x)
Ensure(l) == IsRunning(l) \/ CheckHolder(l) \/ Autostart(l) \/ BecomesReady(l) \/ GivesUp(l)

DaemonNext ==
  \/ \E p \in Procs : Start(p) \/ Close(p) \/ BuildFails(p) \/ AcceptConn(p) \/ ConnEnds(p)
                       \/ Kill(p) \/ UserStarts(p)
  \/ \E l \in Launchers : Launch(l) \/ Ensure(l)
  \/ IsRunning(Ctl) \/ StopBegins \/ StopReads \/ StopSignals \/ StopPolls

\* Processes run; connections need not end, and nobody need start, stop or kill.
DaemonFairness ==
  /\ \A p \in Procs : WF_daemonVars(Start(p)) /\ WF_daemonVars(Close(p))
  /\ \A l \in Launchers : WF_daemonVars(Ensure(l))
  /\ WF_daemonVars(IsRunning(Ctl))

DaemonSpec == DaemonInit /\ [][DaemonNext]_daemonVars /\ DaemonFairness

-----------------------------------------------------------------------------

OneListens == Cardinality(listening) <= 1 /\ \A p \in listening : Holder(p)

\* A daemon that serves is found: nobody removes or replaces its socket or its pidfile, not
\* a predecessor that closes, a rival that starts or a probe that cleans up.
HolderFound ==
  \A p \in Procs : proc[p] = "serving" => sockfile = p /\ (pidfile = p \/ p \in nameless)

\* Types; of all processes only the holder of the lock listens, and it is found (acquireSocket,
\* Close, IsRunning).
DaemonInv == DaemonTypeOK /\ OneListens /\ HolderFound

\* A launch that starts a daemon gets one, though launches, their daemons and their probes
\* take the lock from each other (ensureDaemon), unless one is stopped, killed or full, or
\* the last that was starting found the lock in the hands of the command's probe.
LaunchReady ==
  \A l \in Launchers :
    at[l] = "wait" ~> (at[l] = "ready" \/ l \in disturbed \/ \E p \in Procs : Full(p))
==============================================================================
