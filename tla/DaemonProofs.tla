----------------------------- MODULE DaemonProofs -----------------------------
(* One daemon per socket, for any numbers of processes, launches, connections   *)
(* and kills.                                                                   *)
EXTENDS Daemon, TLAPS, FiniteSetTheorems

HasLock == {"locked", "listening", "serving", "closing", "unnamed"}

\* From the flock to its release a daemon has the lock, as a probe has while it cleans up.
LockKept ==
  /\ \A p \in Procs : proc[p] \in HasLock => lock = p
  /\ \A x \in Probers : at[x] \in {"clean", "unlock"} => lock = x

\* Who has its listener open, and what the files name.
SocketKept ==
  /\ \A p \in Procs : p \in listening <=> proc[p] \in {"listening", "serving"}
  /\ \A p \in Procs : proc[p] \in {"listening", "serving"} => sockfile = p

\* stop signals a process it has read.
PidKnown == at[Ctl] = "signal" => pid # None

HolderInv == DaemonTypeOK /\ PidKnown /\ LockKept /\ SocketKept /\ HolderFound

-----------------------------------------------------------------------------

\* A step keeps the types.
LEMMA TypeStep ==
  ASSUME DaemonTypeOK, PidKnown, [DaemonNext]_daemonVars
  PROVE  DaemonTypeOK'
<1> USE DaemonAssumption
<1>1. ASSUME NEW p \in Procs, Start(p) PROVE DaemonTypeOK'
  <2>1. CASE Flock(p)
    BY <2>1 DEF DaemonTypeOK, Flock, Waiting, serveVars
  <2>2. CASE Listen(p)
    BY <2>2 DEF DaemonTypeOK, Listen, proberVars
  <2>3. CASE Named(p)
    BY <2>3 DEF DaemonTypeOK, Named, serveVars, proberVars
  <2>4. QED BY <1>1, <2>1, <2>2, <2>3 DEF Start
<1>2. ASSUME NEW p \in Procs, Close(p) PROVE DaemonTypeOK'
  <2>1. CASE CloseListener(p)
    BY <2>1 DEF DaemonTypeOK, CloseListener, proberVars
  <2>2. CASE RemovePid(p)
    BY <2>2 DEF DaemonTypeOK, RemovePid, serveVars, proberVars
  <2>3. CASE Unlock(p)
    BY <2>3 DEF DaemonTypeOK, Unlock, serveVars, proberVars
  <2>4. CASE ServeReturns(p)
    BY <2>4 DEF DaemonTypeOK, ServeReturns, Exit, proberVars
  <2>5. QED BY <1>2, <2>1, <2>2, <2>3, <2>4 DEF Close
<1>3. ASSUME NEW p \in Procs,
             BuildFails(p) \/ AcceptConn(p) \/ ConnEnds(p) \/ Kill(p) \/ UserStarts(p)
      PROVE  DaemonTypeOK'
  <2>1. CASE BuildFails(p)
    BY <2>1 DEF DaemonTypeOK, BuildFails, fileVars, serveVars, proberVars
  <2>2. CASE AcceptConn(p)
    BY <2>2 DEF DaemonTypeOK, AcceptConn, Full, fileVars, proberVars
  <2>3. CASE ConnEnds(p)
    BY <2>3 DEF DaemonTypeOK, ConnEnds, fileVars, proberVars
  <2>4. CASE Kill(p)
    BY <2>4 DEF DaemonTypeOK, Kill, Exit, Waiting
  <2>5. CASE UserStarts(p)
    BY <2>5 DEF DaemonTypeOK, UserStarts, Spawn, fileVars, serveVars, proberVars
  <2>6. QED BY <1>3, <2>1, <2>2, <2>3, <2>4, <2>5
<1>4. ASSUME NEW x \in Probers, IsRunning(x) PROVE DaemonTypeOK'
  <2>1. CASE Probe(x)
    BY <2>1 DEF DaemonTypeOK, Probe, Go, Waiting, fileVars, serveVars
  <2>2. CASE ProbeClean(x)
    BY <2>2 DEF DaemonTypeOK, ProbeClean, Go, serveVars
  <2>3. CASE ProbeUnlock(x)
    BY <2>3 DEF DaemonTypeOK, ProbeUnlock, Go, serveVars
  <2>4. QED BY <1>4, <2>1, <2>2, <2>3 DEF IsRunning
<1>5. ASSUME NEW l \in Launchers,
             Launch(l) \/ CheckHolder(l) \/ Autostart(l) \/ BecomesReady(l) \/ GivesUp(l)
      PROVE  DaemonTypeOK'
  <2>1. CASE Launch(l)
    BY <2>1 DEF DaemonTypeOK, Launch, Go, fileVars, serveVars, Probers
  <2>2. CASE CheckHolder(l)
    BY <2>2 DEF DaemonTypeOK, CheckHolder, Go, fileVars, serveVars, Probers
  <2>3. CASE Autostart(l)
    BY <2>3 DEF DaemonTypeOK, Autostart, Spawn, Go, fileVars, serveVars, Probers
  <2>4. CASE BecomesReady(l)
    BY <2>4 DEF DaemonTypeOK, BecomesReady, Go, fileVars, serveVars, Probers
  <2>5. CASE GivesUp(l)
    BY <2>5 DEF DaemonTypeOK, GivesUp, Go, fileVars, serveVars, Probers
  <2>6. QED BY <1>5, <2>1, <2>2, <2>3, <2>4, <2>5
<1>6. CASE StopBegins \/ StopReads \/ StopSignals \/ StopPolls
  <2>1. CASE StopBegins
    BY <2>1 DEF DaemonTypeOK, StopBegins, Go, fileVars, serveVars, Probers
  <2>2. CASE StopReads
    BY <2>2 DEF DaemonTypeOK, StopReads, Responsive, Go, fileVars, serveVars, Probers
  <2>3. CASE StopSignals
    <3>1. pid \in Procs
      BY <2>3 DEF DaemonTypeOK, PidKnown, StopSignals
    <3>2. signalled' \subseteq Procs
      BY <2>3, <3>1 DEF StopSignals, DaemonTypeOK, Running
    <3>3. QED BY <2>3, <3>2 DEF DaemonTypeOK, StopSignals, Waiting, Go, fileVars, Probers
  <2>4. CASE StopPolls
    BY <2>4 DEF DaemonTypeOK, StopPolls, Go, fileVars, serveVars, Probers
  <2>5. QED BY <1>6, <2>1, <2>2, <2>3, <2>4
<1>7. CASE UNCHANGED daemonVars
  BY <1>7 DEF DaemonTypeOK, daemonVars, fileVars, serveVars, proberVars
<1>8. QED
  BY <1>1, <1>2, <1>3, <1>4, <1>5, <1>6, <1>7 DEF DaemonNext, Ensure, Probers
-----------------------------------------------------------------------------

\* A process and a prober are not the same, and neither is None.
LEMMA Apart ==
  /\ \A p \in Procs, x \in Probers : p # x
  /\ \A p \in Procs : p # None
  /\ \A x \in Probers : x # None
  BY DaemonAssumption

\* A daemon that is past the flock excludes all others and all probes.
LEMMA HolderAlone ==
  ASSUME LockKept, NEW p \in Procs, proc[p] \in HasLock
  PROVE  /\ lock = p
         /\ \A q \in Procs : proc[q] \in HasLock => q = p
         /\ \A x \in Probers : at[x] \notin {"clean", "unlock"}
  BY Apart DEF LockKept

\* What keeps every part that speaks of locks and files: a step that leaves them, and moves
\* no process and no prober to where it would have to have the lock.
LEMMA Untouched ==
  ASSUME DaemonTypeOK, LockKept, SocketKept, HolderFound,
         UNCHANGED <<fileVars, listening>>,
         \A p \in Procs : proc'[p] = proc[p] \/ (proc[p] \notin HasLock /\ proc'[p] \notin HasLock),
         \A x \in Probers : at'[x] = at[x] \/ at'[x] \notin {"clean", "unlock"}
  PROVE  LockKept' /\ SocketKept' /\ HolderFound'
<1>1. LockKept'
  BY DEF LockKept, fileVars
<1>2. SocketKept'
  BY DEF SocketKept, HasLock, fileVars
<1>3. HolderFound'
  BY DEF HolderFound, HasLock, fileVars
<1>4. QED BY <1>1, <1>2, <1>3

\* A step of a daemon's start.
LEMMA StartStep ==
  ASSUME HolderInv, NEW p \in Procs, Start(p)
  PROVE  LockKept' /\ SocketKept' /\ HolderFound'
<1> USE DEF HolderInv
<1>1. CASE Flock(p)
  <2>1. LockKept'
    BY <1>1, Apart DEF Flock, LockKept, HasLock, DaemonTypeOK, proberVars
  <2>2. SocketKept'
    BY <1>1 DEF Flock, SocketKept, DaemonTypeOK, serveVars
  <2>3. HolderFound'
    BY <1>1 DEF Flock, HolderFound, DaemonTypeOK
  <2>4. QED BY <2>1, <2>2, <2>3
<1>2. CASE Listen(p)
  <2>1. proc[p] \in HasLock
    BY <1>2 DEF Listen, HasLock
  <2>2. \A q \in Procs \ {p} : proc[q] \notin HasLock
    BY <2>1, HolderAlone
  <2>3. LockKept'
    BY <1>2, <2>1 DEF Listen, LockKept, HasLock, DaemonTypeOK, proberVars
  <2>4. SocketKept'
    BY <1>2, <2>2 DEF Listen, SocketKept, HasLock, DaemonTypeOK
  <2>5. HolderFound'
    BY <1>2, <2>2 DEF Listen, HolderFound, HasLock, DaemonTypeOK
  <2>6. QED BY <2>3, <2>4, <2>5
<1>3. CASE Named(p)
  <2>1. proc[p] \in HasLock
    BY <1>3 DEF Named, HasLock
  <2>2. \A q \in Procs \ {p} : proc[q] \notin HasLock
    BY <2>1, HolderAlone
  <2>3. LockKept'
    BY <1>3, <2>1 DEF Named, LockKept, HasLock, DaemonTypeOK, proberVars
  <2>4. SocketKept'
    BY <1>3 DEF Named, SocketKept, DaemonTypeOK, serveVars
  <2>5. HolderFound'
    BY <1>3, <2>2 DEF Named, HolderFound, SocketKept, HasLock, DaemonTypeOK
  <2>6. QED BY <2>3, <2>4, <2>5
<1>4. QED BY <1>1, <1>2, <1>3 DEF Start

\* A step of a daemon's end.
LEMMA CloseStep ==
  ASSUME HolderInv, NEW p \in Procs, Close(p)
  PROVE  LockKept' /\ SocketKept' /\ HolderFound'
<1> USE DEF HolderInv
<1>1. CASE CloseListener(p)
  <2>1. proc[p] \in HasLock
    BY <1>1 DEF CloseListener, HasLock
  <2>2. \A q \in Procs \ {p} : proc[q] \notin HasLock
    BY <2>1, HolderAlone
  <2>3. LockKept'
    BY <1>1, <2>1 DEF CloseListener, LockKept, HasLock, DaemonTypeOK, proberVars
  <2>4. SocketKept' /\ HolderFound'
    BY <1>1, <2>2 DEF CloseListener, SocketKept, HolderFound, HasLock, DaemonTypeOK
  <2>5. QED BY <2>3, <2>4
<1>2. CASE RemovePid(p)
  <2>1. proc[p] \in HasLock
    BY <1>2 DEF RemovePid, HasLock
  <2>2. \A q \in Procs \ {p} : proc[q] \notin HasLock
    BY <2>1, HolderAlone
  <2>3. LockKept'
    BY <1>2, <2>1 DEF RemovePid, LockKept, HasLock, DaemonTypeOK, proberVars
  <2>4. SocketKept' /\ HolderFound'
    BY <1>2, <2>2 DEF RemovePid, SocketKept, HolderFound, HasLock, DaemonTypeOK, serveVars
  <2>5. QED BY <2>3, <2>4
<1>3. CASE Unlock(p)
  <2>1. proc[p] \in HasLock
    BY <1>3 DEF Unlock, HasLock
  <2>2. /\ \A q \in Procs \ {p} : proc[q] \notin HasLock
        /\ \A x \in Probers : at[x] \notin {"clean", "unlock"}
    BY <2>1, HolderAlone
  <2>3. LockKept'
    BY <1>3, <2>2 DEF Unlock, LockKept, HasLock, DaemonTypeOK, proberVars
  <2>4. SocketKept' /\ HolderFound'
    BY <1>3, <2>2 DEF Unlock, SocketKept, HolderFound, HasLock, DaemonTypeOK, serveVars
  <2>5. QED BY <2>3, <2>4
<1>4. CASE ServeReturns(p)
  <2>1. LockKept'
    BY <1>4, Apart DEF ServeReturns, Exit, Holder, LockKept, HasLock, DaemonTypeOK, proberVars
  <2>2. SocketKept' /\ HolderFound'
    BY <1>4 DEF ServeReturns, Exit, SocketKept, HolderFound, DaemonTypeOK
  <2>3. QED BY <2>1, <2>2
<1>5. QED BY <1>1, <1>2, <1>3, <1>4 DEF Close

\* The end of a process frees the lock, and its files stay.
LEMMA KillStep ==
  ASSUME HolderInv, NEW p \in Procs, Kill(p)
  PROVE  LockKept' /\ SocketKept' /\ HolderFound'
<1> USE DEF HolderInv
<1>1. LockKept'
  BY Apart DEF Kill, Exit, Holder, LockKept, HasLock, DaemonTypeOK
<1>2. SocketKept' /\ HolderFound'
  BY DEF Kill, Exit, SocketKept, HolderFound, DaemonTypeOK
<1>3. QED BY <1>1, <1>2

\* A probe touches the files only while nobody serves.
LEMMA ProbeStep ==
  ASSUME HolderInv, NEW x \in Probers, IsRunning(x)
  PROVE  LockKept' /\ SocketKept' /\ HolderFound'
<1> USE DEF HolderInv
<1>1. CASE Probe(x)
  <2>1. LockKept'
    BY <1>1, Apart DEF Probe, Go, LockKept, HasLock, DaemonTypeOK
  <2>2. SocketKept' /\ HolderFound'
    BY <1>1 DEF Probe, SocketKept, HolderFound, serveVars
  <2>3. QED BY <2>1, <2>2
<1>2. CASE ProbeClean(x)
  <2>1. \A p \in Procs : proc[p] \notin HasLock
    BY <1>2, HolderAlone DEF ProbeClean
  <2>2. LockKept'
    BY <1>2 DEF ProbeClean, Go, LockKept, DaemonTypeOK
  <2>3. SocketKept' /\ HolderFound'
    BY <1>2, <2>1 DEF ProbeClean, SocketKept, HolderFound, HasLock, serveVars
  <2>4. QED BY <2>2, <2>3
<1>3. CASE ProbeUnlock(x)
  <2>1. \A p \in Procs : proc[p] \notin HasLock
    BY <1>3, HolderAlone DEF ProbeUnlock
  <2>2. \A y \in Probers \ {x} : at[y] \notin {"clean", "unlock"}
    BY <1>3 DEF ProbeUnlock, LockKept
  <2>3. LockKept'
    BY <1>3, <2>1, <2>2 DEF ProbeUnlock, Go, LockKept, DaemonTypeOK
  <2>4. SocketKept' /\ HolderFound'
    BY <1>3, <2>1 DEF ProbeUnlock, SocketKept, HolderFound, serveVars
  <2>5. QED BY <2>3, <2>4
<1>4. QED BY <1>1, <1>2, <1>3 DEF IsRunning

\* All other steps touch neither lock nor files.
LEMMA OtherStep ==
  ASSUME HolderInv,
         \/ \E p \in Procs : BuildFails(p) \/ AcceptConn(p) \/ ConnEnds(p) \/ UserStarts(p)
         \/ \E l \in Launchers :
              Launch(l) \/ CheckHolder(l) \/ Autostart(l) \/ BecomesReady(l) \/ GivesUp(l)
         \/ StopBegins \/ StopReads \/ StopSignals \/ StopPolls
         \/ UNCHANGED daemonVars
  PROVE  LockKept' /\ SocketKept' /\ HolderFound'
<1> USE DEF HolderInv
<1>1. ASSUME NEW p \in Procs, BuildFails(p) \/ AcceptConn(p) \/ ConnEnds(p) \/ UserStarts(p)
      PROVE  LockKept' /\ SocketKept' /\ HolderFound'
  <2>1. UNCHANGED <<fileVars, listening, at>>
    BY <1>1 DEF BuildFails, AcceptConn, ConnEnds, UserStarts, serveVars, proberVars
  <2>2. \A q \in Procs :
          proc'[q] = proc[q] \/ (proc[q] \notin HasLock /\ proc'[q] \notin HasLock)
    BY <1>1 DEF BuildFails, AcceptConn, ConnEnds, UserStarts, Spawn, HasLock, DaemonTypeOK
  <2>3. QED BY <2>1, <2>2, Untouched
<1>2. ASSUME NEW l \in Launchers,
             Launch(l) \/ CheckHolder(l) \/ Autostart(l) \/ BecomesReady(l) \/ GivesUp(l)
      PROVE  LockKept' /\ SocketKept' /\ HolderFound'
  <2>1. UNCHANGED <<fileVars, listening>>
    BY <1>2 DEF Launch, CheckHolder, Autostart, BecomesReady, GivesUp, serveVars
  <2>2. \A q \in Procs :
          proc'[q] = proc[q] \/ (proc[q] \notin HasLock /\ proc'[q] \notin HasLock)
    BY <1>2 DEF Launch, CheckHolder, Autostart, BecomesReady, GivesUp, Spawn, HasLock,
                DaemonTypeOK
  <2>3. \A x \in Probers : at'[x] = at[x] \/ at'[x] \notin {"clean", "unlock"}
    BY <1>2 DEF Launch, CheckHolder, Autostart, BecomesReady, GivesUp, Go, DaemonTypeOK
  <2>4. QED BY <2>1, <2>2, <2>3, Untouched
<1>3. CASE StopBegins \/ StopReads \/ StopSignals \/ StopPolls
  <2>1. UNCHANGED <<fileVars, listening, proc>>
    BY <1>3 DEF StopBegins, StopReads, StopSignals, StopPolls, serveVars
  <2>2. \A x \in Probers : at'[x] = at[x] \/ at'[x] \notin {"clean", "unlock"}
    BY <1>3 DEF StopBegins, StopReads, StopSignals, StopPolls, Go, DaemonTypeOK
  <2>3. QED BY <2>1, <2>2, Untouched
<1>4. CASE UNCHANGED daemonVars
  BY <1>4, Untouched DEF daemonVars, serveVars, proberVars
<1>5. QED BY <1>1, <1>2, <1>3, <1>4

\* stop reads a process before it signals one.
LEMMA PidStep ==
  ASSUME HolderInv, [DaemonNext]_daemonVars
  PROVE  PidKnown'
<1> USE DEF HolderInv, PidKnown
<1>1. ASSUME NEW p \in Procs,
             \/ Start(p) \/ Close(p) \/ BuildFails(p) \/ AcceptConn(p) \/ ConnEnds(p) \/ Kill(p)
             \/ UserStarts(p)
      PROVE  PidKnown'
  <2>1. UNCHANGED <<at, pid>>
    BY <1>1 DEF Start, Flock, Listen, Named, Close, CloseListener, RemovePid, Unlock,
                ServeReturns, BuildFails, AcceptConn, ConnEnds, Kill, UserStarts, proberVars
  <2>2. QED BY <2>1
<1>2. ASSUME NEW x \in Probers, IsRunning(x) PROVE PidKnown'
  <2>1. UNCHANGED pid /\ Ctl \in Probers
    BY <1>2 DEF IsRunning, Probe, ProbeClean, ProbeUnlock, Probers
  <2>2. at'[Ctl] = at[Ctl] \/ at'[Ctl] # "signal"
    BY <1>2, <2>1 DEF IsRunning, Probe, ProbeClean, ProbeUnlock, Go, DaemonTypeOK
  <2>3. QED BY <2>1, <2>2
<1>3. ASSUME NEW l \in Launchers,
             Launch(l) \/ CheckHolder(l) \/ Autostart(l) \/ BecomesReady(l) \/ GivesUp(l)
      PROVE  PidKnown'
  BY <1>3, DaemonAssumption DEF Launch, CheckHolder, Autostart, BecomesReady, GivesUp, Go,
                                DaemonTypeOK, Probers
<1>4. CASE StopReads
  <2>1. CASE pidfile # None /\ pid' = pidfile
    BY <2>1
  <2>2. CASE pidfile = None /\ Responsive /\ pid' = sockfile
    BY <2>2 DEF Responsive
  <2>3. CASE at' = [at EXCEPT ![Ctl] = "ready"] \/ at' = [at EXCEPT ![Ctl] = "failed"]
    BY <2>3 DEF DaemonTypeOK, Probers
  <2>4. QED BY <1>4, <2>1, <2>2, <2>3 DEF StopReads, Go
<1>5. CASE StopBegins \/ StopSignals \/ StopPolls
  BY <1>5 DEF StopBegins, StopSignals, StopPolls, Go, DaemonTypeOK, Probers
<1>6. CASE UNCHANGED daemonVars
  BY <1>6 DEF daemonVars, proberVars
<1>7. QED
  BY <1>1, <1>2, <1>3, <1>4, <1>5, <1>6 DEF DaemonNext, Ensure, Probers
-----------------------------------------------------------------------------

LEMMA HolderStart == DaemonInit => HolderInv
<1> SUFFICES ASSUME DaemonInit PROVE HolderInv
  OBVIOUS
<1>1. DaemonTypeOK
  BY DaemonAssumption DEF DaemonInit, DaemonTypeOK
<1>2. PidKnown
  BY DEF DaemonInit, PidKnown, Probers
<1>3. LockKept /\ SocketKept /\ HolderFound
  BY DEF DaemonInit, LockKept, SocketKept, HolderFound, HasLock
<1>4. QED BY <1>1, <1>2, <1>3 DEF HolderInv

LEMMA HolderStep == HolderInv /\ [DaemonNext]_daemonVars => HolderInv'
<1> SUFFICES ASSUME HolderInv, [DaemonNext]_daemonVars PROVE HolderInv'
  OBVIOUS
<1>1. DaemonTypeOK'
  BY TypeStep DEF HolderInv
<1>2. PidKnown'
  BY PidStep
<1>3. LockKept' /\ SocketKept' /\ HolderFound'
  <2>1. ASSUME NEW p \in Procs, Start(p) \/ Close(p) \/ Kill(p)
        PROVE  LockKept' /\ SocketKept' /\ HolderFound'
    BY <2>1, StartStep, CloseStep, KillStep
  <2>2. ASSUME NEW x \in Probers, IsRunning(x)
        PROVE  LockKept' /\ SocketKept' /\ HolderFound'
    BY <2>2, ProbeStep
  <2>3. QED
    BY <2>1, <2>2, OtherStep DEF DaemonNext, Ensure, Probers
<1>4. QED BY <1>1, <1>2, <1>3 DEF HolderInv

LEMMA HolderAlways == DaemonSpec => []HolderInv
  BY HolderStart, HolderStep, PTL DEF DaemonSpec

\* Whoever listens has the lock: there is one at most.
LEMMA ListenerAlone == HolderInv => OneListens
<1> SUFFICES ASSUME HolderInv PROVE OneListens
  OBVIOUS
<1>1. \A p \in listening : p \in Procs /\ lock = p
  BY DEF HolderInv, DaemonTypeOK, SocketKept, LockKept, HasLock
<1>2. listening \subseteq {lock}
  BY <1>1
<1>3. IsFiniteSet({lock}) /\ Cardinality({lock}) = 1
  BY FS_Singleton
<1>4. Cardinality(listening) <= Cardinality({lock})
  BY <1>2, <1>3, FS_Subset
<1>5. QED BY <1>1, <1>3, <1>4 DEF OneListens, Holder

\* Types, and of all processes only the holder of the lock listens (acquireSocket, Close).
THEOREM OneDaemon == DaemonSpec => []DaemonInv
<1>1. HolderInv => DaemonInv
  BY ListenerAlone DEF HolderInv, DaemonInv
<1>2. QED BY <1>1, HolderAlways, PTL

\* A daemon that serves is found through its socket and its pidfile, whatever starts, probes,
\* stops and dies around it (acquireSocket, Close, IsRunning).
THEOREM DaemonFound == DaemonSpec => []HolderFound
<1>1. HolderInv => HolderFound
  BY DEF HolderInv
<1>2. QED BY <1>1, HolderAlways, PTL
===============================================================================
