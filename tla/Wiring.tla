-------------------------------- MODULE Wiring --------------------------------
(* Wiring an agent for the cooperative plane (internal/coopwiring, with the      *)
(* launcher and `integrator run` that ask for it): configuration files are       *)
(* written into the boundary's worktree, or into the user's own checkout for an  *)
(* integrator, and each is then named in git's exclude file, which worktrees     *)
(* share, so that what the agent commits does not take it to the trunk.  It is   *)
(* done file by file and may fail at each; the agent is started all the same.    *)
EXTENDS FiniteSets

CONSTANTS
  Dirs,       \* boundaries and checkouts, all of one repository or of none
  Checkouts,  \* those that are a checkout of the user, wired for an integrator
  Repos       \* those in a git repository

ASSUME WiringAssumption == Checkouts \subseteq Dirs /\ Repos \subseteq Dirs

VARIABLES
  disk,      \* per directory and file, what it holds
  tracked,   \* the files that git tracks
  exclude,   \* the files that info/exclude names
  wire,      \* per directory: how far its wiring is
  original,  \* history: what was there before
  gaveUp,    \* history: files that git did not answer for, or a write of which failed
  known,     \* history: files that git tracked when they were excluded
  removed,   \* history: files removed because they could not be excluded
  added      \* history: files committed with what is generated in them

historyVars == <<original, gaveUp, known, removed, added>>
wiringVars == <<disk, tracked, exclude, wire, historyVars>>

WiredFiles == {"mcp", "settings", "guide"}
\* What is the user's, what is generated, both in one, and what no one can read.
Contents == {"absent", "theirs", "corrupt", "ours", "both"}
Generated == {"ours", "both"}

Unwired == [at |-> "idle", file |-> "mcp"]

WiringTypeOK ==
  /\ disk \in [Dirs -> [WiredFiles -> Contents]] /\ original \in [Dirs -> [WiredFiles -> Contents]]
  /\ wire \in [Dirs -> [at : {"idle", "look", "resolve", "append", "wired"}, file : WiredFiles]]
  /\ exclude \subseteq WiredFiles
  /\ \A which \in {tracked, gaveUp, known, removed, added} : which \subseteq Dirs \X WiredFiles

WiringInit ==
  /\ disk \in [Dirs -> {c \in [WiredFiles -> {"absent", "theirs", "corrupt"}] :
                          c["mcp"] # "corrupt" /\ c["guide"] = "absent"}]
  /\ original = disk
  /\ tracked \in SUBSET {df \in Repos \X WiredFiles : disk[df[1]][df[2]] # "absent"}
  /\ exclude = {} /\ gaveUp = {} /\ known = {} /\ removed = {} /\ added = {}
  /\ wire = [d \in Dirs |-> Unwired]

-----------------------------------------------------------------------------
(* Wire and WireIntegrator.                                                     *)

\* After the files of Claude comes the guide, for an integrator.
NextFile(d, f) ==
  CASE f = "mcp" -> [at |-> "look", file |-> "settings"]
    [] f = "settings" /\ d \in Checkouts -> [at |-> "look", file |-> "guide"]
    [] OTHER -> [at |-> "wired", file |-> f]

GoTo(d, w) == wire' = [wire EXCEPT ![d] = w]
Put(d, f, content) == disk' = [disk EXCEPT ![d][f] = content]

\* Codex is wired by arguments, another agent not at all; an integrator has its guide.
BeginWiring(d) ==
  /\ \/ GoTo(d, [at |-> "look", file |-> "mcp"])
     \/ GoTo(d, NextFile(d, "settings"))
  /\ UNCHANGED <<disk, tracked, exclude, historyVars>>

\* Once, before the agent starts, and not if the binary cannot be found or staged.
WireBoundary(d) == d \notin Checkouts /\ wire[d].at = "idle" /\ BeginWiring(d)

\* Every `integrator run` wires the checkout it is started in.
WireIntegrator(d) == d \in Checkouts /\ wire[d].at \in {"idle", "wired"} /\ BeginWiring(d)

\* What is in a file that is left alone: an .mcp.json, and settings that are not JSON.
Spared(d, f) ==
  \/ f = "mcp" /\ disk[d][f] # "absent"
  \/ f = "settings" /\ disk[d][f] = "corrupt"

Merged(d, f) ==
  IF f = "settings" /\ disk[d][f] \in {"theirs", "both"} THEN "both" ELSE "ours"

LookAndWrite(d) ==
  /\ wire[d].at = "look"
  /\ LET f == wire[d].file
     IN IF Spared(d, f)
        THEN GoTo(d, NextFile(d, f)) /\ UNCHANGED <<disk, gaveUp>>
        ELSE \/ Put(d, f, Merged(d, f)) /\ GoTo(d, [at |-> "resolve", file |-> f])
                /\ UNCHANGED gaveUp
             \/ \* The write fails, before or after the file was emptied.
                /\ disk' \in {disk, [disk EXCEPT ![d][f] = "corrupt"]}
                /\ gaveUp' = gaveUp \cup {<<d, f>>}
                /\ GoTo(d, NextFile(d, f))
  /\ UNCHANGED <<tracked, exclude, original, known, removed, added>>

\* Whatever keeps git from answering within its time is taken for a directory without git.
ResolveExclude(d) ==
  /\ wire[d].at = "resolve"
  /\ LET f == wire[d].file
     IN \/ d \in Repos /\ GoTo(d, [at |-> "append", file |-> f]) /\ UNCHANGED gaveUp
        \/ gaveUp' = gaveUp \cup {<<d, f>>} /\ GoTo(d, NextFile(d, f))
  /\ UNCHANGED <<disk, tracked, exclude, original, known, removed, added>>

\* The exclude file keeps git from adding a file, and says nothing of one it tracks.
AddExclude(d) ==
  LET df == <<d, wire[d].file>> IN
  /\ wire[d].at = "append"
  /\ exclude' = exclude \cup {wire[d].file}
  /\ known' = IF df \in tracked THEN known \cup {df} ELSE known
  /\ GoTo(d, NextFile(d, wire[d].file))
  /\ UNCHANGED <<disk, tracked, original, gaveUp, removed, added>>

\* Fault: the file is kept although it could not be excluded.
GuardExcludeKeeps(d) ==
  /\ wire[d].at = "append"
  /\ GoTo(d, NextFile(d, wire[d].file))
  /\ UNCHANGED <<disk, tracked, exclude, historyVars>>

\* What cannot be excluded is removed, with what the user had in it.
GuardExclude(d) ==
  /\ wire[d].at = "append"
  /\ Put(d, wire[d].file, "absent")
  /\ removed' = removed \cup {<<d, wire[d].file>>}
  /\ GoTo(d, NextFile(d, wire[d].file))
  /\ UNCHANGED <<tracked, exclude, original, gaveUp, known, added>>

-----------------------------------------------------------------------------
(* Whoever works in the directory.                                              *)

\* `git add --all` and a commit, by the agent after it was wired, by a user at any time.
Addable(d) ==
  {f \in WiredFiles : disk[d][f] # "absent" /\ (<<d, f>> \in tracked \/ f \notin exclude)}

\* The file that the wiring has written and not yet excluded.
InHand(d, f) == wire[d].at \in {"resolve", "append"} /\ wire[d].file = f

Commit(d) ==
  /\ d \in Repos /\ (d \in Checkouts \/ wire[d].at = "wired")
  /\ tracked' = {df \in tracked : df[1] # d} \cup {<<d, f>> : f \in Addable(d)}
  /\ added' = added \cup {<<d, f>> : f \in {g \in Addable(d) :
                                             disk[d][g] \in Generated /\ ~InHand(d, g)}}
  /\ UNCHANGED <<disk, exclude, wire, original, gaveUp, known, removed>>

WiringNext ==
  \E d \in Dirs :
    \/ WireBoundary(d) \/ WireIntegrator(d)
    \/ LookAndWrite(d) \/ ResolveExclude(d) \/ AddExclude(d) \/ GuardExclude(d)
    \/ Commit(d)

-----------------------------------------------------------------------------

\* No commit has in it what is generated, unless git tracked the file when it was excluded,
\* did not answer for it, or a write of it failed, or the commit falls between the write and
\* the exclusion of the file; and a file of the user holds what was in it, unless a write
\* failed, or it was removed because it could not be excluded (writeExcluded, guardExclude,
\* addExclude).
WiringSafe ==
  /\ WiringTypeOK
  /\ added \subseteq gaveUp \cup known
  /\ \A d \in Dirs, f \in WiredFiles :
       original[d][f] # "absent" /\ <<d, f>> \notin gaveUp \cup removed =>
         disk[d][f] \in {original[d][f], "both"}
===============================================================================
