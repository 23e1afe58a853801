----------------------------- MODULE LatestLoad -----------------------------
(* What a page owes to whoever selects something in it: what is shown is   *)
(* nothing yet, or belongs to the last selection, however many answers to  *)
(* earlier ones come late.                                                 *)
CONSTANTS Keys, Nothing
VARIABLES wanted, shown

Init == wanted = Nothing /\ shown = Nothing

Select(k) ==
  /\ wanted' = k
  /\ shown' = Nothing

Show ==
  /\ shown' = wanted
  /\ wanted' = wanted

Next == Show \/ \E k \in Keys \cup {Nothing} : Select(k)

Spec == Init /\ [][Next]_<<wanted, shown>>
=============================================================================
