------------------------------ MODULE MCSeason ------------------------------
(***************************************************************************)
(* Instances of Season for TLC.  With three cards a vault of 3 is complete,*)
(* one of 2 is in band 2 and one of 1 in band 5; bands 3 and 4 are empty,  *)
(* so every season exercises the carry-over of shares.                     *)
(***************************************************************************)
EXTENDS SeasonFairness

CONSTANTS c1, c2, c3

MCBandMin == [b \in 2..5 |-> IF b = 5 THEN 1 ELSE 2]
MCBandShare == <<50, 25, 15, 8, 2>>

\* The deadline is never moved.
OnTime == close' = close

\* Seasons without a marketplace.
NoListings == Init /\ [][Next /\ OnTime /\ UNCHANGED listed]_vars

\* Seasons run by a careful admin, without packs and donations: cards only
\* change hands.
NoInflow == pool' <= pool \/ participants' # participants
FairTrading == Init /\ [][CarefulNext /\ NoInflow]_vars /\ Fairness
=============================================================================
