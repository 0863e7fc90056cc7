------------------------------ MODULE MCCrmOrders ------------------------------
(***************************************************************************)
(* A small instance of CrmOrders for TLC, one difficulty at a time: case   *)
(* says which, and what is left out with it.                               *)
(***************************************************************************)
EXTENDS CrmOrders, TLC
CONSTANTS p1, p2, q1, c1, c2, x1

\* Orders of two customers for the same product
MCCustomerOf == 1 :> c1 @@ 2 :> c2
MCProductOf == 1 :> x1 @@ 2 :> x1

VARIABLE case

Situation ==
    CASE case = "stale" ->      \* everything changes, every name is known
            /\ ~shared /\ Names \subseteq stocked \cup names
            /\ shopOrder[2] # Nothing => ~shopOrder[2].required
      [] case = "names" ->      \* some are not: pulls and pushes
            ~shared /\ events = 0
      [] case = "shared" ->     \* one order, and the copies of it: no pushes
            /\ shared /\ shopOrder[2] = Nothing
            /\ \A q \in Pushes : pushPc[q] = "idle"

MCInit == case \in {"stale", "names", "shared"} /\ CrmInit /\ Situation
MCNext == CrmNext /\ UNCHANGED case /\ Situation'

MCFairSpec ==
    /\ MCInit /\ [][MCNext]_<<case, crmVars>>
    /\ \A p \in Pulls : WF_crmVars(Fetch(p)) /\ WF_crmVars(PullStep(p))
=============================================================================
