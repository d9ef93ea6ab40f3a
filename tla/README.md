# mad-trellis: verification development

mad-trellis runs several coding agents on one repository. One daemon per repository, the
*arbiter*, owns every decision they could race for: who holds a lease, what reaches trunk, which
request is being reviewed, who is dead. Agents are launched in sandboxes of their own and reach the
daemon over a Unix socket by JSON-RPC.

This directory models the daemon, and the launchers, servers and commands around it, where
interleavings, failures and time decide correctness. TLC checks the models on small instances; TLAPS
proves their safety properties for every instance. Paths below are relative to `src/`.

## 1. Inventory

| Component | State it keeps | Operations | What is hard about it | What makes it correct |
|---|---|---|---|---|
| **Lease ledger** `internal/lease` | tables `leases` (key, holder, expires_at, fence) and `lease_waiters` | acquire, renew, release, enqueue, dequeue, queue; `ReclaimIfExpired`, `LiveHolders` for the scan | an acquire is up to four statements, each atomic, the call is not; clock readings age while a call stalls; holders and waiters die | exclusion until the deadline a holder was told; fences grow; places in a queue are kept; nobody waits forever for the dead |
| **Trunk integrator** `internal/integrator` | table `integrations`, the git refs of trunk and branches | Submit, Promote, Abort, AbortAs, Status | git and SQLite are not one transaction; the trunk lease can lapse during a promote; crash after `update-ref`; ignored errors of the marking statement | what is promoted is on trunk, once, validated on exactly the trunk below it; nothing stays in flight |
| **Review queue** `internal/integration` | tables `integration_requests`, `events`, `event_cursors` | Request, Claim, Verdict, Cancel, Status, Pending, List, Events; `ReclaimStaleClaims`, `GCStale` for the scan | row and event are written apart; cursors are per session, the audience of an event depends on the row; read-then-write in Request and in the sweep | no wake-up is lost except to a fault; verdicts are not clobbered; no request is stranded behind a dead claimer |
| **Sandbox life cycle** `internal/substrate`, `internal/worktree`, `internal/liveness`, `internal/session`, `internal/launcher/{launcher,keepalive}.go` | slugs, port blocks, worktrees, clones, containers, tokens, the session's liveness lease | provision with rollback, teardown, orphan reclaim, harvest of a clone; mint, attach, prune; keepalive with re-attach and re-acquisition; `Scan` | several handlers and the scan at once, each a long sequence of best-effort steps; a daemon that restarts under live launchers, perhaps with the other grain | no two sandboxes share a slug or a port; a live launcher keeps its session and boundary; no committed work is deleted; what the dead leave is cleaned up |
| **Convergence** `internal/conductor`, `cmd/mad-trellis` (`integrate`, `despawn`) | the user's checkout, branches `nm/<slug>`, clones, the trunk lease | fetch, guard, gate, lease, re-check, merge; despawn's look, check, remove, branch deletion | processes that share one checkout with a user; checks made before a wait for the lease | merges are alone; a merge reported is on the target; commits are not discarded |
| **MCP server** `internal/mcp`, `internal/coopclient`, `internal/rpcclient`; `cmd/mad-trellis/integrator.go` | tracked claims, the integrator's slot and pidfile, the connection and its identity | claim, release, renewal, presence, shutdown; `integrator start`, `run`, `stop` | three goroutines share one connection whose identity changes when it is dialled again; a renewal races a release; slots of a pool | at most `pool` integrators serve; a clean exit gives everything up; a lease lost is noticed or regained |
| **Review tools** `internal/mcp/tools.go` | what an approve has merged and not yet recorded | request, claim, approve, reject, cancel | the merge and its verdict are two calls | what is recorded as approved is on trunk |
| **Event inbox** `internal/mcp/mcp.go` | inbox of lines, last line put in | poll, enqueue, drain | lines are put in one by one while a tool call empties the inbox | told once, in order |
| **Nudges** `internal/launcher/{nudge,inject,pty}.go` | pending events, whether a goroutine delivers, the terminal's lock | poll, wait for quiet, type body and Enter | the user types too; the deliverer ends as a poll brings more | lines are typed whole; events are delivered |
| **Cooperation tunnel** `cmd/mad-trellis-relay`, `internal/launcher/coop.go` | streams by number at both ends, frames on one pipe | open, data, close, shutdown of both ends | half-open streams, a full queue, hang-ups from four sides, a demultiplexer that may not block | no socket outlives its stream; data in order; both ends of a stream end |
| **Daemon** `internal/daemon`, `cmd/mad-trellis/{main,autostart}.go` | flock, socket file, pidfile, connections | start, autostart, stop, accept, serve, close | two starts at once, files of a dead daemon, close while calls run, the connection limit | one daemon listens, and it can be found; a launch gets a daemon |
| **Gate and classifier** `internal/manifest`, `internal/singular`, `internal/substrate` (routing) | policy in memory, grants as leases | classify, route, request, renew, release | precedence of declarations, globs; grants that lapse and outlive the policy | one writer per resource; a resource is treated at least as strictly as declared |
| **Watch** `internal/watch` | one connection, a snapshot, offsets | poll, snapshot, resize, keys | goroutines pile up on a slow daemon; a dropped connection under a running call | the view recovers; the layout fits |
| **Wiring** `internal/coopwiring` | files in a worktree or in the user's checkout, git's exclude file | merge or write, then exclude | files are written one by one, git may not answer, the exclude file is shared | generated files are not committed; the user's are not lost |

How they interact. RPC handlers run one goroutine per connection and share the components; every
store is a SQLite database behind one connection, so a *statement* (or an explicit transaction) is
atomic and everything coarser interleaves. The scan calls into the ledger (expired leases, live
holders), the integrator (abort of stuck promotes), the substrate (teardown) and the review queue
(reclaim, collection). The integrator takes the trunk lease from the ledger, the gate its grants.
Launchers, MCP servers and commands are other processes: they keep sessions, presence and claims alive
by renewing leases and wake up by polling events. A daemon crash loses all calls in flight and all
connections, and keeps tables, refs and files.

## 2. Modules

| Module | What it is |
|---|---|
| `FencedLock` | abstract specification: a lock per key with a deadline and an epoch that every grant and revocation raises |
| `LeaseLedger`, `LeaseLedgerProofs` | the ledger, statement by statement; its theorems |
| `SerialTrunk` | abstract specification: integrations go onto trunk one after another, each once and merged with all below it; each is decided once, and called promoted only when it is there |
| `TrunkIntegrator`, `TrunkIntegratorProofs` | the integrator, step by step; its theorems |
| `ReviewQueue`, `ReviewQueueProofs` | the review queue and its event log, statement by statement; its theorems |
| `Sandbox`, `SandboxProofs` | launchers, substrate, liveness scan, tokens and leases, over restarts of the daemon; its theorems |
| `Converge`, `ConvergeProofs` | conductors, `integrate` and `despawn` in the user's checkout; its theorems |
| `McpServer`; `IntegratorRun`, which extends it | MCP servers of builders and integrators; the commands that run, start and stop an integrator |
| `ReviewTools`, `EventInbox` | the review tools of an MCP server; its inbox of event lines |
| `CoopRelay` | the tunnel between a container and the daemon |
| `Daemon`, `DaemonProofs` | start, stop and autostart of the daemon; its theorems |
| `Nudge` | the delivery of events into an agent's terminal |
| `SingularGate` | manifest, classifier, routing of a boundary's resources, and the gate with its grants |
| `WatchClient`, `WatchView` | the watch command: its goroutines and connection; its layout |
| `Wiring` | the files written for an agent, and git's exclude file |
| `ClientsProofs` | theorems about `ReviewTools`, `EventInbox`, `SingularGate`, `WatchView`, `Wiring`, `McpServer` and `IntegratorRun` |
| `ServicesProofs` | theorems about `Nudge` and `CoopRelay` |
| `MCLeaseLedger`, `MCTrunkIntegrator`, `MCReviewQueue`, `MCSandbox`, `MCConverge` | finite instances for TLC |
| `MCBranches` (of `MCReviewQueue` and `MCConverge`), `MCClients`, `MCServices` | several modules side by side |

One action is one statement, one git command or one remote call with everything the code does up to
the next point where another goroutine can run; a goroutine's place in its operation, with the local
variables that later steps still use, is part of the state. A definition whose comment starts with
*Faulty* or *Fault* is not part of a model: it is the body that a plausible bug would give to the
definition after it, and each checked property fails when it is put in place.

### LeaseLedger

| Code | Model |
|---|---|
| rows of `leases`, `lease_waiters` | `leases[key]`, the set `waiters` |
| the clock read by the handler, then used in SQL | `Begin` stores it in `at`/`until`; `Tick` may come before the statement |
| `Acquire`: prune, head of queue, upsert, delete of the waiter's row | `Prune`, `ReadQueue`, `Cas`, `Retire` |
| `Enqueue`, `Dequeue`, `Queue`, `Renew`, `Release` | `Prune` then `Insert`; `Dequeue`; `Prune`; `Renew`; `Release` |
| scan: `ExpiredLeases` and the transaction of `ReclaimIfExpired` | `ReclaimIfExpired(k, t)`, with a clock reading `t` that may be old |
| a statement returns an error; the daemon restarts | `StatementFails`, `DaemonRestart` |

`told` is not in the code: it is the deadline each connection was last told, which is what
exclusion means to a caller.

### TrunkIntegrator

| Code | Model |
|---|---|
| table `integrations`; trunk's first-parent history; branch refs | `rows`, `trunk`, `branch` |
| the trunk lease while it runs | `lease`; `LeaseExpires` is its ttl, which a promote never renews |
| `Promote`: row, reconcile, tip, gate and `merge-tree`, `setValidating`, lease, reload, landed?, stale?, `update-ref`, mark, deferred release | `BeginPromote`, `Reconcile`, `ReadTip`, `Gate`, `SetValidating`, `Acquire`, `Reload`, `CheckLanded`, `CheckFresh`, `Advance`, `Mark`/`MarkFails`, `Release` |
| `Abort`, `AbortAs`, the scan's abort of stuck promotes | `BeginAbortAs`, `BeginScanAbort`, then `AbortLanded`, `Mark`/`MarkFails` |
| an error of git or the store; a push; the daemon dying | `StepFails`, `MoveBranch`, `Crash` |

A commit is the triple (integration, branch version, base), since a merge commit is determined by
them; whether a merge is clean is the constant relation `Conflicts`. The sandboxed gate command is
its outcome, pass or fail. `Lapsed` are the sessions the scan may find without a live lease.

### ReviewQueue

| Code | Model |
|---|---|
| tables `integration_requests`, `events`, `event_cursors` | `rows`, `events` and `lastId`, `cursor` |
| `Request`: read the row, then insert or update it, then append an event | `BeginRequest`, `Insert` or `Update`, `Announce` |
| `Claim`, `Verdict`: one conditional update, then an event | `Claim`, `Verdict`, then `Announce` |
| `Cancel`: one conditional update, no event | `Cancel` |
| `Events`: one transaction that reads a batch and moves the cursor | `Poll`; `PollReplyLost` when the reply is lost |
| `Pending`, `Status` | `Look` |
| scan: live set, claimed rows, one conditional update per row, then the events of all | `BeginScan`, `Query`, `Sweep`, `EndSweep`, `AnnounceRequeued`; `ScanFails` |
| `GCStale`: two deletes and the delete of old events | `CollectSettled`, `CollectAbandoned`, `CollectEvents` |
| an event that cannot be appended, a call that errors, the daemon dying | `CallFails`, `Crash` |

`woken`, `aware` and `unannounced` are not in the code. They say what clients know: a session that
got something from a poll and has not looked since; the sessions that read the row as it is; and
the branches about whose present row a wake-up was lost to a fault (a failed append, a lost reply,
an error in the middle of the sweep, a crash, the retention of events). The code accepts these
losses (`appendEventBestEffort`; `integration.go:246-249` makes the rows the recovery authority).
A session polls either for one branch (a builder) or for the queue (a reviewer): `Watched`.
Titles, feedback and merge oids are data and left out. Age is abstracted: the collection may take
any row of the right state. One sweep runs at a time; a second scan, called by RPC, is represented
by its collection, which may come in the middle of the sweep.

### Sandbox

| Code | Model |
|---|---|
| `Substrate.live`, `.reserving`; `portAllocator.reserved` | `live` (each boundary's ports), `reserving`, `reserved` |
| worktree or clone, local state directory, container | `tree`, `state`, `box` |
| session-liveness leases, the trunk lease, `session_tokens` | `beat`, `trunk` in ticks left, `tokens` |
| any other lease under the session's name: path claims, grants, presence | `claims`, without a time: while the agent's MCP server renews them they stay, and `ClaimsEnd` is a release or a lapse |
| `Provision`: grain, ports, state, commit; its rollback | `ProvisionGrain`/`GrainFails`, `AllocatePorts`, `ProvisionState`, `Commit`, `Unreserve`, `Undo` |
| `Teardown`, and the reclaim of an orphan known only by its directory | `BeginTeardown`, `Wipe`, `RemoveWorktree`, `RemoveContainer` (which may fail, and the teardown goes on), `Harvest`, `RemoveClone`, `EndTeardown` |
| launcher: open, provision, mint, lease, agent, release, teardown | `Open`, `CallProvision`, `CallMint`, `CallAcquire`, `LeaveAgent`, `ReleaseOwnLeases`, `CallTeardown`, `Crash` |
| the agent's side: it commits; its server attaches by token, claims paths, asks for a promote | `AgentCommits`; `AgentAttaches`, `AgentClaims`, `ClaimsEnd`, `AgentTakesTrunk`, `TrunkReleased` |
| keepalive: renew, or attach again and re-acquire | `Renew`, `Reattach`; `GoAstray` is a connection that lost its session |
| one scan: expired leases, live holders, teardowns | `ScanReclaim`, `ScanLook`, `ScanTear`, `ScanEnd` |
| the daemon stops at any step and starts again, perhaps dialled to the other grain | `DaemonStops`, `DaemonStarts` |

Time is in ticks. `Tick` may not pass while a launcher that can reach the daemon has a renewal due,
which says that a renewal is done within its interval (a third of the ttl), and the daemon is away for
less than a ttl (`MaxOutage < Ttl`). `work` is where the agent's commits are: lost with its clone
unless they were harvested or left on a branch. `late`, `spared` and `blinded` are history: who committed
between a harvest and the removal of its clone, which it can only in a container whose `rm` failed; whose
session lease was reclaimed in a pass that skipped it for another live lease; whom a pass tore down
without having read the live holders. An agent, its server and its leases outlive a launcher that is killed.

### Converge

| Code | Model |
|---|---|
| the user's checkout: branch, uncommitted changes; what each branch contains | `head`, `wip`, `has` |
| `refs/heads/nm/<slug>`, in the repository and in a container's clone | `ref`, `clone` |
| the trunk lease; a lease whose holder can no longer release it | `lease`, `adrift`, lapsing in `Lapse` |
| `Converge`: fetch, guard, gate, acquire and re-check, merge, release | `ConvergeFetch`, `ConvergeGuard`, `ConvergeGate`, `Acquire`/`Wait`/`GiveUp`, `ConvergeRecheck`, `Merge`, `Release` |
| `integrate`, `despawn` | `Integrate`, `IntegrateFetch`; `Despawn`, `DespawnLook`, `DespawnCheck`, `DespawnRemove`, `DespawnBranch` |
| agents; the user; the launcher's own teardown; faults | `AgentCommits`, `AgentExits`, `AgentLeaves`; `UserSwitches`, `UserEdits`; `LauncherTeardown`; `Killed`, `DaemonRestarts` |

An agent's branch is the number of its commits. `moved`, `waived` and `disturbed` are history: a checkout
changed under a conductor that had looked at it, the reasons for which the code allows that commits are
discarded (`--force`, and the stale ref shown below), and whether anything came between.

### McpServer, IntegratorRun, ReviewTools, EventInbox

| Code | Model |
|---|---|
| `rpcclient.Client`: connection, the lazy dial after an error; token and attach | `link`: the identity the connection gives; `Redial`, `Use` |
| `server.claimed`; the ticker; `renewAll` and `untrack` | `claimed`; `due`; `RenewBegin`, `RenewOne`, `Untrack` |
| `claim` and `release` tools, with one retry on a broken connection | `Begin`, `FirstBackend`, `Retry`, `Claim`, `Answer`, `StopRenewing`, `Release` |
| joining the pool, keeping the slot, giving it up; pidfile | `Join...`, `SlotTaken`, `PresenceTick`, `ReleaseSlot`, `WritePidfile`, `RemovePidfile` |
| `integrator run` with its crash loop; `start`; the launch's question; `stop` | `RunOnce`, `AgentCrashes`, `Park`, `Inspect`; `StartInspects`, `StartIntegrator`; `PromptInspects`; `StopReads`, `StopSweeps`, `StopSignals`, `StopWaits` |
| the daemon goes away, a connection breaks, a process is killed | `Outage`, `Return`, `Sever`, `Kill` |
| review tools: the merge, then the verdict | `ApproveMerges`, `ApproveRecords`, `RejectRequest`, `ClaimRequest`, ... |
| `eventLoop`, `enqueueNudge`, `drainNudges` | `PollEvents`, `EnqueueNudge`, `DrainNudges` |

`ReviewTools` sees the rows of the queue call by call: what happens inside a call is `ReviewQueue`.
The daemon in `McpServer` grants, renews and releases as `LeaseLedger` does, without queues.

### CoopRelay, Daemon, Nudge

| Code | Model |
|---|---|
| `relayConn`, `pumpStream`: registered, closed, queue, goroutines | `end[side][stream]`; `sock` is the connection behind it |
| outbound channel and pipe; a demultiplexer that drops a stream whose queue is full | `wire`, `RelayDemux`, `PumpRun`, `Deliver` |
| reader, writer and removal of a stream | `ReadData`/`ReadEnds`, `WriteData`/`WriteEnds`, `Remove`, `SendClose` |
| `startCoop`, its stop function, the end of the relay's process | `StartCoop`, `StopCoop`, `PumpDone`, `PumpShut`, `CloseStdin`, `Reap`, `RelayStops` |
| `Daemon.Start`, `Serve`, `Close` | `Flock`, `Listen`, `Named`, `AcceptConn`, `CloseListener`, `RemovePid`, `Unlock`, `Exit` |
| `IsRunning`: takes the lock, cleans up, gives it back | `Probe`, `ProbeClean`, `ProbeUnlock` |
| `ensureDaemon`; `daemon stop` | `Launch`, `CheckHolder`, `Autostart`, `BecomesReady`, `GivesUp`; `StopBegins`, `StopReads`, `StopSignals`, `StopPolls` |
| `nudgeDeliveryState`, the delivering goroutine, the injector | `pending`, `delivering`; `WaitQuiet`, `TakeBatch`, `WriteBody`, `Submit`, `WriteFails` |

### SingularGate, WatchClient, WatchView, Wiring

| Code | Model |
|---|---|
| `manifest.Load` and its default; `Classify` (singular over convergent over forkable) | `LoadManifest`, `DefaultManifest`; `Classify` |
| `matchSegs` | `MatchSegs`, a recursive function over segments; a segment's glob is the set of names it matches |
| lease keys and their display; `classify.route` | `ConvergentPathKey`, ..., `DescribeLeaseKey`; `RouteHandler` |
| `routeResources` of a provision | `RouteResources`, `ValidEnvNames`, `Isolated` |
| `Gate.Request`, `Renew`, `Release`; leases lapse, the manifest is edited, the daemon restarts | `Request`, `RequestRenews`, `RenewGrant`, `ReleaseSupervised`; `GrantsAge`, `EditManifest`, `DaemonEnds` |
| `watch.Client.call` under its mutex, with a deadline; the tick and its goroutine | `LockAndSend`, `DialFails`, `Receive`, `CallFails`; `PollTick`, `SnapshotMsg` |
| `layoutBudget`, `windowedRegion`, `clampOffsets`, keys and resizes | `LayoutBudget`, `WindowedRegion`, `ClampOffsets`, `ScrollFocused`, `FocusKey`, `WindowSizeMsg` |
| `Wire`: each file merged or written, then named in `info/exclude` | `LookAndWrite`, `ResolveExclude`, `AddExclude`, `GuardExclude` |

A file's content in `Wiring` is who it is from: the user, the wiring, both, or unreadable. `Commit` is a
`git add --all` and a commit: it takes every file that git tracks, whatever `info/exclude` says, and every
other file that is not excluded. `added` collects the files committed with generated content in them;
`gaveUp`, `known` and `removed` are the reasons for which the code lets that happen or loses a file: git
did not answer or a write failed, git tracked the file already, it could not be excluded.

## 3. What the runs check

| Run | Shows |
|---|---|
| `lease_safety` | `LedgerInv` (inductive invariant), `ExclusiveUntilDeadline`, `PlaceKept`, the refinement `IsFencedLock`, and `PollerServed`: who keeps polling is eventually granted the key |
| `integrator_safety` | `IntegratorInv`, `PromotedIsLanded`, `ValidatedOnThisTrunk`, `TrunkGrows`, the refinement `IsSerialTrunk`, and `InFlightResolved`: what is in flight is resolved |
| `branches` | review queue: `QueueInv`, `NoLostWakeup`, `SettledStands`, and `StrandedRequeued`: a dead claimer's request is requeued; checkout: `ConvergeInv` (merges are alone; converged is on the target), `NothingDiscarded`, `Converges` |
| `sandbox` | `SandboxInv` (slugs and ports exclusive, the pool's books), `StaysAlive` and `KeptWhileRunning` (neither a restart nor the scan ends a running session), `NoWorkLost`, `Reclaimed` |
| `clients` | servers: `IntegratorInv` (no more serve than the pool has slots; a clean exit frees all), `KeptWhileLinked`, `LostLeasesSettle`, `CrashAnswered`; tools: `ApprovedIsMerged`; inbox: `ToldOnceInOrder`; gate: `GrantsExclusive`, `ClassifiedUpward`; watch: `WatchRecovers`, `ViewFits`; wiring: `WiringSafe` |
| `services` | tunnel: `CoopInv` (no socket leaks; data in order), `StreamsEndTogether`; daemon: `DaemonInv`, `LaunchReady`; nudges: `NudgeInv`, `NudgesArrive` |
| `lease_barging`, `integrator_abort_race`, `review_request_lost`, `review_reclaim_stale`, `despawn_stale_ref`, `integrator_gives_way_to_itself` | violations: see below |

`branches`, `clients` and `services` hold modules that share no state. Each step is one part's, and only while all
others are in their initial states, where nothing of theirs that is fair is enabled (but the queue's scan: see
fairness): the behaviours of each part are all there, and those of two parts are not multiplied with each other.

**Bounds.** Each instance is small in its numbers and complete in its kinds of event.

- *Ledger.* One key, two sessions, a ttl of 2 and a clock to 3, so that a lease can be granted, lapse,
  be taken over and be claimed back by a stalled call of its first holder; fences are bounded per session
  and the first session's time ends earlier, so that the poller's wait has an end. Keys do not interact but for the
  pruning of waiters, which touches dead rows.
- *Integrator.* Two conflicting integrations and two sessions: either both promote and abort the first,
  with pushes and the scan, or each has one of its own. Two versions of a branch make two promotes build
  different commits; a conflict makes one stale. All races are between one read and write and one
  other writer.
- *Review queue.* One branch, as no statement relates two rows. `MaxEvents` counts announcements that
  succeed, and the sweep's come on top; with a batch of one a cursor skips, stops and moves on. Builder
  and reviewer act together for fewer events, the builder alone for more. `Gone` is all sessions, which
  includes whatever the scan may do with a live set.
- *Sandbox.* Two sessions, ports for two boundaries, one stop of the daemon, and both grains before
  and after it. Two launchers at once meet neither the restart nor the container grain; one alone
  meets everything, its boundary against the scan's teardown. `LowestPorts` fixes which free ports the
  probes return: no action tells ports apart. An agent whose launcher was killed holds its claims and the
  trunk lease through any number of scans; with one launcher, a container's `rm` and a fetch fail at any
  step, a read of the live holders at any step after the last restart, and claims are not held beside the
  trunk lease.
- *Converge.* Either one boundary and two commands, beside each other, the user and the faults; or two
  boundaries whose conductors queue for the lease. Two commits let a branch move between any two looks.
- *Servers.* One builder and a rival; or two integrators that share a pool, with an outage, a broken
  connection or a kill, or that are stopped, or that run under a wrapper. One outage or broken
  connection: a second finds what the first found.
  The time to live is two periods of renewal, as in the code.
- *Others.* Streams: one with data in both directions, or two that compete for the pipe, queues of one
  frame, so that every queue is full at some time. Daemons: three processes, two launches and the stop
  command. Nudges: three events of which one has no line, two keys. Gate: two manifests, the default
  and a broken one, whose patterns put `**` at each place. Watch: every number of lines against
  heights at which a budget changes. Wiring: an agent's directory and the user's checkout, each with what
  its owner has in it, or both empty; one file is given up or removed.

**Time.** Where a model has ticks, `Tick` waits for what the code does within an interval: a keepalive
renews while it can reach the daemon; a server's tickers have fired and their calls are answered; a merge
is shorter than the trunk lease (2 min). The last is not enforced by the code.

**Fairness.** Nothing is assumed of users, agents and faults: nobody need start, commit, type, release
or close, and a crash may come at any point. Goroutines and calls under way go on (WF), and time passes.
Strong fairness is assumed in three places. The scan's steps in `TrunkIntegrator` and `ReviewQueue`:
crashes and errors may interrupt any one scan, and `Recoverer.Loop` runs one every five seconds and starts
anew after a restart. `PollerServed`'s client, which keeps retrying as `acquire` with a queue is made for.
In `McpServer`, `Tick` and `Renewal`: tool calls may keep the client's lock busy, which is a Go mutex and
does not starve a waiter. In `CoopRelay` the adapter and the daemon at the ends are unfair, a slow one never
reads. In `Nudge` a user who does not type falls quiet.
In `IntegratorRun` a wrapper goes on, and the waits between its rounds end; the operator need not press a
key. In `MCBranches` the fairness of the queue's scan holds while the checkout is not looked at, which is
all the time if the queue is what a behaviour is about; with one branch it is that of `ReviewQueue`.

**What the violations show.** Each is a statement of the code's comments or documents that an interleaving contradicts.

- `NoBarging` (`lease/ledger.go:227`): the queue is read and the key taken by two statements, so a
  session that saw no queue takes the key past a waiter that came in between. The lock itself stays
  exclusive.
- `AbortedIsNotLanded` (`integrator/integrator.go:340`, `store.go:22`): an abort decides that
  nothing landed, a promote that reloaded its row before lands it, the abort writes its verdict. The
  integration is on trunk and recorded as aborted.
- `RequestLands` (`integration/store.go:117`): a re-request reads its row, the collection deletes
  the row, the update writes nothing, and the caller is told that the request is recorded.
- `LiveClaimsKept` (`integration/store.go:249`): the sweep reads a dead claimer's claim, the row is
  requested anew and claimed by a live session, and the sweep, whose statement checks the state and
  not the claimer, takes it away.
- `DespawnRefusesUnintegrated` (`cmd/mad-trellis/despawn.go`): the check looks at the repository's copy of
  a container boundary's branch. A copy that an earlier `integrate` fetched is behind the clone, is
  found integrated, and the clone goes with the newer commits, without `--force`.
- `GivesWayToAnother` (`docs/0007-event-nudges.md:91-97`, `cmd/mad-trellis/integrator.go:407`): after a
  crash of its agent the wrapper asks whether the slot is held, and it is, by the server of that agent,
  which has not yet seen its end of input. The wrapper exits as if another integrator were live, and
  nobody runs one.

**Exemptions.** Some properties name a fault they do not hold under; each is a behaviour of the code
a reader should know. `KeptWhileRunning` exempts a pass that could not read the live holders: it goes on with an empty
set (`recover.go:158`, `:316-326`). `AtMostPoolServe` exempts an integrator that was signalled in a review
and goes on merging without its slot. `ApprovedIsMerged` exempts a late verdict on a request that another
integrator claims by then. `CleanExitFrees` exempts a claim that a renewal stopped tracking while it was
renewed by another call, and a slot whose grant was lost on its way back. `ClassifiedUpward` exempts a path spelled `external:x`, whose key is the
resource's. `ViewFits` exempts regions of one row.

- `NoWorkLost` exempts commits made between the harvest and the removal of a clone by an agent whose container
  could not be removed (`late`): the teardown goes on and deletes them (`container.go:688-715`, `:730-737`).
- `Reclaimed` exempts a session whose lease was reclaimed by a pass that skipped it because another of its
  leases was live (`spared`): the signal is used up, and when that other lease goes, nothing tells.
- `WiringSafe` exempts, for commits, files that git tracked when they were excluded (`known`), and files that
  git did not answer for within its time or a write of which failed (`gaveUp`), and the moment between a
  file's write and its exclusion; for the user's files, a failed write, and the removal of a file
  that could not be excluded (`removed`).
- `LaunchReady` exempts a daemon whose connections are all taken; launches during which a daemon is stopped or
  killed; and launches whose last starting daemon found the lock in the hands of `daemon status` or
  `daemon stop`, took the probe for a daemon and ended. It is about launches that start a daemon and wait:
  one that meets a held lock before that may fail at once (§5).
- `CrashAnswered` lets the wrapper give way to any live lease, also that of its own dead agent's server
  (the violation `GivesWayToAnother`), and wait when the bound on servers leaves it none to run.

## 4. What is proved

Every safety property of the runs that pass has a theorem. They hold for any number of keys, sessions,
connections, integrations, branches, commits, events, streams, ports, processes and resources and any
bound; the assumptions are the named `ASSUME`s of the modules (types of the constants, names that are
different) and what is said here. A proof is mostly that of an inductive invariant, named below, whose
parts say why the property survives each action; the invariant is preserved action by action.

**LeaseLedgerProofs.** `LedgerInvariant`: `LedgerInv` is inductive. Its core is `BackedByRow`: a
deadline a connection still counts on is covered by the row of the key, with its session as holder.
Neither exclusion nor type correctness is inductive alone: a call in flight must also carry a clock
reading of the past (`ReadingsPast`), or a takeover could precede the deadline it violates, and a
connection that is releasing must count on nothing (`ReleasingCountsOnNothing`). `MutualExclusion`
follows. Both assume `OneConnPerSession`: a release frees the lease by holder, so a second connection
of the same session can free it under the first. `ImplementsFencedLock`: every step of the ledger
is a step of `FencedLock` or leaves it alone, which needs the invariant only for types. `PlacesStay`:
a session has one row in a queue (`OneRowEach`, the table's key), and a step that leaves it there leaves
the time it was enqueued (`WaitsOn`), so that nobody is put before anybody. These need no assumption on
connections.

**TrunkIntegratorProofs.** `IntegratorInvariant`: trunk consists of the rows' merge commits, each at
its base (`TrunkOfRows`); a row has a merge commit, built on its recorded base, from `validating` on
(`RowsBuilt`); and a call that carries a merge commit carries its row's (`CallsFollowRows`, which is
what makes the promote that lost `setValidating` harmless). From it: `PromotedLands`,
`NothingMergesSilently`, `AtMostOnce` (`LandedOnce`: no integration is on trunk twice) and
`TrunkOnlyGrows`. The proofs never use the trunk lease: the compare-and-swap of `update-ref` alone carries
safety, and the lease only saves work. So a lapsed lease is harmless. `ImplementsSerialTrunk`: an
`Advance` that succeeds is `Land`, a write of `promoted` or `aborted` is `Decide`, and all else leaves
trunk and verdicts alone. That it lands *once* uses that a commit's base says its place: trunk, being
longer than the base of every commit in it, takes none of them again. That it conflicts with nothing below
uses that it was built there. `Land` does not look at the verdict, since the code does not either
(the violation `AbortedIsNotLanded` of §3): with that guard the refinement would be false.

**ReviewQueueProofs.** `QueueInvariant`: `NoLostWakeup` with types and `IdsWritten` (no cursor is
ahead of the log) is inductive. The argument has one step per action: a write leaves its goroutine on
the way to an announcement to the right audience, the announcement becomes an event ahead of every
cursor and selected by everyone the row concerns, and a cursor passes it only in a poll that
returns it or loses its reply. `WakeupsComing` follows, and `SettledRowsStand`: only a new request and
the collection change an approved or withdrawn row.

**SandboxProofs.** `SandboxesApart`: `SandboxInv` holds for any sessions, ports, faults and numbers of
restarts. What makes it inductive is `JobsRun`: an operation is of the kind its step belongs to and has
ports at the steps that account for them (`Shape`), a handler works on its caller's boundary, which
is not live meanwhile, and that caller waits or is gone, so it starts no second operation; the scan
only tears down. With that each port is one worker's, its boundary's or its operation's, and the proof
follows it from the allocation to the boundary, to the teardown and back.

`CommitsSurvive`: a clone is cleared when its commits are elsewhere and either its container, and with it the
agent, is gone, or whatever the agent has added since is recorded in `late` (`HarvestInv`); and a boundary that
is not there yet has nothing to lose (`FreshInv`).
`LeasesOutlast`: a running session has a token, hence can attach again, and a lease that covers what
may be left of an outage (`LeaseInv`). This is not so for outages in quick succession: a daemon that
stops before a keepalive has renewed takes another outage off the same lease. So the theorem assumes that
it does not (`[][DaemonStops => Renewed]_vars`: whenever the daemon stops, each running session has more
left than an outage takes), and `OneRestart` proves that at most one stop needs no such condition.
`AgentsKeepTheirBoundary`: while leases stay alive, a boundary is built whole (`BuiltInv`), and a pass
of the scan that saw who is alive neither has a running session among its dead without having it among
the living nor is at work on its boundary (`SparedInv`). `BoundariesOutlast` and `OneRestartSpares`
combine it with the two before.

**ConvergeProofs.** `ConvergesInTurn` and `CommitsAreKept` come from one invariant, `MergeInv`: who does
what at which step (`JobInv`); whoever is in the section holds the lease, and a lease without anyone in
its section is the one adrift (`LeaseInv`); where copies of commits can be and that none is ahead of its
agent (`CopyInv`); what a conductor's guards have seen still holds when it merges, unless the user moved
the checkout (`GuardInv`); and a despawn past its check may remove what it checked, or is a named
exemption (`DespawnInv`).

**ClientsProofs.** *Review tools*, `ApprovalsAreMerged`: trunk and requests are never ahead of the branch
(`Behind`), what an approve call is about to record is on trunk (`MergedFirst`), and a claimer that has
merged did so after claiming, hence everything that was asked for (`ClaimedThenMerged`). *Gate*,
`OneGrantee`: `GrantsExclusive` with the types of the rows is inductive; policy and manifest play no part
in it. *Classifier*, `AnswersAreStrict`: `matchSegs`' search finds exactly the paths that a pattern's
segments can be laid along (`SearchFinds`, by induction over the pattern and within it over the path), so
that `Classify` returns the strictest kind declared, routes and resources follow it, and an answer is one
of the policy that is loaded (`AnswerInv`). *Inbox*, `ToldInOrder`: the line remembered is that of the
last event put in (`LastKept`); what a filter leaves of a sequence keeps its order and its count
(`Picked`, `CountReached`). *Wiring*, `GeneratedFilesStayOut`: a generated file is hidden from git by the exclude file, or is one that git
tracked when it was excluded, or given up, or just being excluded (`Covered`), so that a commit has nothing
to record but the named exemptions; and a file the user had keeps what it had unless it was given up or
removed (`Spares`).
*Layout*, `ScreensFit`: budgets and clamped offsets, by arithmetic. *Servers*, `ServersKeepTheirOwn`:
what a server that was never cut off counts on has more time left than the next tick and a renewal take
(`SlotKept`, `ClaimsKept`), which the periods of renewal give from a time to live of two periods on.
`SlotsForFew`: whoever serves holds a slot of the pool and a slot has one holder, an injection; and
whatever row names a server, the server still knows of, in each part of its life (`SlotKnown`,
`ClaimsKnown`), so that its end gives it back.

**ServicesProofs.** `NudgesDelivered`, from `DeliveryInv`: one goroutine delivers if any (`OneDelivers`);
the terminal's lock is held from a line to its Enter (`Locked`, `EnterNext`); the events told, in a batch
and pending are in their order (`InTurn`). `StreamsInOrder`, from `TunnelInv`: a stream's socket is open
only while it is served or about to be announced (`SocketOK`), it is announced before anything of it and
once (`OpeningOK`, `OneOpen`), and what was taken, what waits in its queue and the frames on the pipe
continue each other by number (`FlowOK` with `InStep`), leaving nothing out while the writing side lives
(`Complete`).

**DaemonProofs.** `OneDaemon` and `DaemonFound`: who is between its flock and its release, a daemon or a
probe, holds the lock (`LockKept`); whoever has its listener open is the one the socket file names
(`SocketKept`); and `stop` signals only a process it has read from the pidfile (`PidKnown`). Hence
neither a rival's start nor a probe's clean-up hides a daemon that serves.

Induction over data (over a pattern, over counts) goes through the order of the natural numbers: the set of
counterexamples would have a least element (`LeastOf`, `ByInduction`, from `WFMin` and
`NatLessThanWellFounded`), as the library's induction theorems take a predicate as a parameter, which the
provers do not instantiate.

**Only model-checked.** The liveness properties (`PollerServed`, `InFlightResolved`,
`StrandedRequeued`, `Reclaimed`, `Converges`, `LostLeasesSettle`, `CrashAnswered`, `WatchRecovers`,
`StreamsEndTogether`, `LaunchReady`, `NudgesArrive`): the prover does not handle fairness and ENABLED.
The six violations are counterexamples.

## 5. Not modelled

`PROJECT.json` lists every component with what of it is modelled. Left out everywhere: the audit log,
formatting, parameter checks and the syntax of refs, which nothing reads back. Besides:

- *Mediated git* (`internal/integrator/mediated.go`): a hook and configuration written once at start.
  Redirecting and auditing remotes are called by the conformance harness only.
- *Runtime configuration, repository id, build, packaging, doctor*: pure computation, or constants.
- *Conformance harness* (`internal/conformance`): a test harness of the running system.
- *Commands that pass one call on* (trunk, gate, recover, status) add no step to the handlers they call.
- *Container images, run options, shims, terminals' modes, output relaying*: plumbing and data.
- *Registry and peer credentials of the daemon; roles of identities*: fixed tables and a check that
  keeps no state.

What is coarser in the models than in the code: attaching a connection to a session is one step of `Sandbox`,
so that a token pruned between its check and its binding is not represented; a reply that comes after its
deadline is, in `WatchClient`, a connection that is no good any more, and its content is never taken for
another call's; and of two streams of the tunnel the second has no data and its relay side does not hang up
(`TwoStreams` in `MCServices`), so that what one stream can hold up is shown by its own CLOSE behind its data.

What the models exclude because it cannot be a property, or would only repeat an assumption. These were seen
while reading the code and are worth a reader's attention:

- A launcher killed between Provision and its session lease, a daemon that dies between a reclaim and its
  teardown, and a teardown that fails leave a boundary that no scan finds again; so does a restart under
  the other grain. A failed container grain leaves its state directory; a failed allocation leaks ports.
- A session that is skipped because another of its leases is live has used up its death signal: when its
  agent's server stops renewing the claim, the boundary of a killed launcher stays (`recover.go:196-200`,
  `:258-263`).
- A container whose `rm` failed stays: the substrate forgets its boundary all the same, and its clone is
  removed under an agent that may still be at work (`container.go:688-715`).
- A conductor waits 60 s for a lease of 120 s, and drift is not looked at again after the wait.
- A daemon that starts and meets the probe of `IsRunning` is told that a daemon runs, and ends. A launch that
  meets a held lock, of a daemon that is starting or closing or of another probe, and then no answer, fails at
  once instead of waiting (`autostart.go:61-71` against `:20-24`). `Build` of the losing daemon runs its recovery loop before the flock. A stale pidfile lets `stop`
  signal a process that is not the daemon.
- With all its connections taken, a daemon that was closed goes on serving them without the lock.
- The tunnel is not started again when the relay dies, and the side that closes on CLOSE may drop what is
  still in its queue.
- A nudge whose injection fails is dropped with its batch (`nudge.go:195`). The inbox compares a line
  with the last one ever put in, so an identical later event is not told (`mcp.go:743`).
- `integrator run`, `start` and the question of a launch look at the singleton's key also when there is a
  pool. A pidfile that is removed after the release may be a
  successor's, and a presence acquired anew has none.
- A tokened client that dials again lazily does not attach; a claim that is retried after a lost reply is
  denied by its own lease.
- Approve does not look at the request before it merges, and answers "merged" also when its verdict was
  refused; a merge whose verdict was lost leaves a request that cannot be approved any more.
- The comment that the watch command polls from one goroutine is wrong: goroutines pile up, and an older
  snapshot may replace a newer one. A budget of no lines is taken for no budget, so that the footer is
  cut on small terminals.
- After a grant lapses the agent's environment still has the endpoint; requests without a token are different
  sessions at each call.
- Files of the wiring stay committable when git does not answer within 3 s; a failed write leaves a part of a file
  that is not excluded; when excluding fails the user's own merged settings are removed. A
  `.claude/settings.local.json` that git tracks is merged with the generated hooks, and the next commit takes
  them, against `coopwiring.go:27-34` and `:442-444`.

## 6. Plan

Every component with state of its own has a module, and every safety property that holds has a theorem.
What is left, in this order:

1. What would make the six violated statements true, each as a theorem under the condition that
   excludes its race: `LiveClaimsKept` for sweeps with no new claim between query and statement,
   `AbortedIsNotLanded` for aborts that meet no promote past its reload.
2. Abstract specifications for the review queue (a mailbox per session that is not emptied unseen) and
   for the tunnel (two queues per stream), with `ReviewQueue` and `CoopRelay` shown to implement them.
3. `LeasesOutlast` from a condition on the lengths of the outages alone (their sum below `Ttl` between two
   rounds of the keepalive).
