---------------------------- MODULE MCReviewQueue ----------------------------
(* Small instances of the review queue.                                       *)
EXTENDS ReviewQueue, TLC

CONSTANTS w1, w2, builder, reviewer, b1, b2

MCSessionOf == w1 :> builder @@ w2 :> reviewer
\* The builder watches b1, which is not its sandbox's branch; the reviewer the queue.
MCBoundary == builder :> {} @@ reviewer :> {}
MCWatched == builder :> b1 @@ reviewer :> None

\* The builder alone; or, for fewer events and while no scan is under way beside a
\* call, the builder and a reviewer who claims.
Bounded ==
  LET row == rows[b1]
  IN  \/ /\ cursor[reviewer] = 0 /\ calls[w2] = Idle
         /\ row # NoRow => reviewer \notin {row.holder, row.claimer}
      \/ /\ row # NoRow => row.holder = builder /\ row.claimer # builder
         /\ calls[Scanner] # Idle => calls[w1] = Idle /\ calls[w2] = Idle
         /\ lastId < MaxEvents
==============================================================================
