----------------------------- MODULE MCWebPages -----------------------------
(* Every page on a small instance: two of everything that a property       *)
(* compares, and two requests in flight.                                   *)
EXTENDS WebPages, TLC

CONSTANTS m1, m2, a, b    \* modules or galleries; nodes, files, keys, accounts

MCModuleOf == a :> m1 @@ b :> m2
MCAnalysedOf == a :> m1 @@ b :> m1
MCGalleryOf == a :> m1 @@ b :> m1
MCExportedOf == m1 :> {a, b} @@ m2 :> {}

\* A time-of-day schedule of every window and set of days, an empty window,
\* and one of each other kind.
MCPlans ==
  {p \in [kind : {"schedule"}, on : 0..2, off : 0..2, days : SUBSET {0, 1}] :
     p.on # p.off}
  \cup {[kind |-> "schedule", on |-> 1, off |-> 1, days |-> {}],
        [kind |-> "cycle", on |-> 1, off |-> 2, days |-> {}],
        [kind |-> "duration", on |-> 2, off |-> 0, days |-> {}]}

\* Places for requests in flight are alike.
Places == Permutations(Chains)
=============================================================================
