------------------------------ MODULE ReviewTools ------------------------------
(* The integration tools that agents call (internal/mcp, internal/coopclient):   *)
(* a builder commits and requests the integration of its branch; integrators     *)
(* claim the request, and approve it, which merges the branch and then records   *)
(* the verdict, in two calls, or reject it.  Each server serves one tool call at *)
(* a time; several servers, the builder and the daemon's recovery scan are       *)
(* interleaved.  The queue's rows are those of ReviewQueue, seen call by call.   *)
EXTENDS Naturals

CONSTANTS
  MaxRev,       \* bound: commits on the branch
  Reviewers,
  NoReviewer

ASSUME ToolsAssumption == MaxRev \in Nat /\ NoReviewer \notin Reviewers

VARIABLES
  tip,    \* the last commit of the branch
  trunk,  \* the last commit of the branch that the trunk has
  row,    \* the request: state, commit when it was made, claimer, commit that was merged,
          \* who decided
  approving,   \* per integrator: what its approve call merged and has not recorded, if anything
  alive   \* integrators whose session lives

toolsVars == <<tip, trunk, row, approving, alive>>

Revs == 0..MaxRev
NoCall == [at |-> "none", merged |-> 0]
NoRequest == [state |-> "none", rev |-> 0, claimer |-> NoReviewer, merged |-> 0, by |-> NoReviewer]

ToolsInit ==
  /\ tip = 0 /\ trunk = 0 /\ row = NoRequest
  /\ approving = [i \in Reviewers |-> NoCall] /\ alive = Reviewers

-----------------------------------------------------------------------------
(* The builder.                                                                 *)

BuilderCommits ==
  /\ tip < MaxRev /\ tip' = tip + 1
  /\ UNCHANGED <<trunk, row, approving, alive>>

\* Whatever became of an earlier request.
RequestIntegration ==
  /\ row' = [NoRequest EXCEPT !.state = "requested", !.rev = tip]
  /\ UNCHANGED <<tip, trunk, approving, alive>>

CancelRequest ==
  /\ row.state \in {"requested", "claimed"}
  /\ row' = [row EXCEPT !.state = "withdrawn"]
  /\ UNCHANGED <<tip, trunk, approving, alive>>

-----------------------------------------------------------------------------
(* Reviewers.                                                                 *)

Ready(i) == i \in alive /\ approving[i] = NoCall

\* A retried claim finds its own claim, and is refused.
ClaimRequest(i) ==
  /\ Ready(i) /\ row.state = "requested"
  /\ row' = [row EXCEPT !.state = "claimed", !.claimer = i]
  /\ UNCHANGED <<tip, trunk, approving, alive>>

\* NoReviewer asks whether there is a request, or whose claim it is; what the branch has come to
\* is merged.  Any other outcome of the merge ends the call.
ApproveMerges(i) ==
  /\ Ready(i) /\ tip > trunk
  /\ trunk' = tip
  /\ approving' = [approving EXCEPT ![i] = [at |-> "merged", merged |-> tip]]
  /\ UNCHANGED <<tip, row, alive>>

Approved(i) == [row EXCEPT !.state = "approved", !.merged = approving[i].merged, !.by = i]

\* Fault: the verdict is taken of a request that nobody reviews.
StoreApprovesRequested(i) ==
  IF row.state \in {"requested", "claimed"} THEN row' = Approved(i) ELSE UNCHANGED row

StoreApproves(i) ==
  IF row.state = "claimed" THEN row' = Approved(i) ELSE UNCHANGED row

\* The call is answered, or is not and made once more, or given up before or after it was
\* served; that the store refused makes no difference.
ApproveRecords(i) ==
  /\ i \in alive /\ approving[i].at \in {"merged", "again"}
  /\ \/ StoreApproves(i) /\ approving' = [approving EXCEPT ![i] = NoCall]
     \/ /\ approving[i].at = "merged"
        /\ StoreApproves(i) \/ UNCHANGED row
        /\ approving' = [approving EXCEPT ![i].at = "again"]
     \/ approving' = [approving EXCEPT ![i] = NoCall] /\ UNCHANGED row
  /\ UNCHANGED <<tip, trunk, alive>>

RejectRequest(i) ==
  /\ Ready(i) /\ row.state = "claimed"
  /\ row' = [row EXCEPT !.state = "changes_requested"]
  /\ UNCHANGED <<tip, trunk, approving, alive>>

\* A server that is restarted has another session.
SessionDies(i) ==
  /\ i \in alive
  /\ alive' = alive \ {i} /\ approving' = [approving EXCEPT ![i] = NoCall]
  /\ UNCHANGED <<tip, trunk, row>>

RequeueStaleClaim ==
  /\ row.state = "claimed" /\ row.claimer \notin alive
  /\ row' = [row EXCEPT !.state = "requested", !.claimer = NoReviewer]
  /\ UNCHANGED <<tip, trunk, approving, alive>>

ToolsNext ==
  \/ BuilderCommits \/ RequestIntegration \/ CancelRequest \/ RequeueStaleClaim
  \/ \E i \in Reviewers :
       ClaimRequest(i) \/ ApproveMerges(i) \/ ApproveRecords(i) \/ RejectRequest(i) \/ SessionDies(i)

-----------------------------------------------------------------------------

ToolsTypeOK ==
  /\ tip \in Revs /\ trunk \in Revs /\ alive \subseteq Reviewers
  /\ row \in [state : {"none", "requested", "claimed", "changes_requested", "approved", "withdrawn"},
              rev : Revs, claimer : Reviewers \cup {NoReviewer}, merged : Revs,
              by : Reviewers \cup {NoReviewer}]
  /\ approving \in [Reviewers -> [at : {"none", "merged", "again"}, merged : Revs]]

\* What is reported as approved is on the trunk, and is no less than what was asked for, unless
\* the verdict came late, on a request that by then another integrator had claimed: through
\* requests made anew during the approving, verdicts that are sent twice, and claims that were
\* requeued (toolIntegrationApprove, withBackend, store.approve).
ApprovedIsMerged ==
  /\ ToolsTypeOK
  /\ row.state = "approved" =>
       /\ row.merged <= trunk
       /\ row.claimer \in Reviewers \ {row.by} \/ row.merged >= row.rev
===============================================================================
