----------------------------- MODULE MCOrderStream -----------------------------
(***************************************************************************)
(* Small instances of OrderStream for TLC, and with them of three          *)
(* components that share nothing with it and have no liveness properties,  *)
(* Remediation, PaymentDecision and StressRuns: part says which of the     *)
(* four moves, the others stay in an initial state.                        *)
(***************************************************************************)
EXTENDS OrderStream, Remediation, PaymentDecision, StressRuns, TLC

CONSTANTS o1, o2, w1, w2, n1, n2, d1, d2, g1, g2, g3

VARIABLE part

streamVars == <<part, vars, remVars, payVars, stressVars>>

StreamInit ==
    /\ part \in {"stream", "remediation", "payment", "stress"}
    /\ Init /\ RemInit /\ StressInit
    /\ PayInit /\ (part # "payment" => payInput = CHOOSE input \in PayInputs : TRUE)

StreamNext ==
    \/ part = "stream" /\ Next /\ UNCHANGED <<part, remVars, payVars, stressVars>>
    \/ part = "remediation" /\ RemNext /\ UNCHANGED <<part, vars, payVars, stressVars>>
    \/ part = "payment" /\ PayNext /\ UNCHANGED <<part, vars, remVars, stressVars>>
    \/ part = "stress" /\ StressNext /\ UNCHANGED <<part, vars, remVars, payVars>>

StreamSpec == StreamInit /\ [][StreamNext]_streamVars

\* The part that moves keeps its types, the others their initial states.
StreamTypeOK ==
    CASE part = "stream"      -> TypeOK
      [] part = "remediation" -> RemTypeOK
      [] part = "payment"     -> PayTypeOK
      [] part = "stress"      -> StressTypeOK /\ SpawnsAlone

Symmetry == Permutations(Workers) \cup Permutations(Orders)
=============================================================================
