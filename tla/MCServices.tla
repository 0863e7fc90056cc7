------------------------------- MODULE MCServices -------------------------------
(***************************************************************************)
(* Small instances for TLC of the components that share no state with each *)
(* other.  One run checks them all: part says which of them moves, and the *)
(* others stay in an initial state.  The fairness is that of the component *)
(* that moves.                                                             *)
(***************************************************************************)
EXTENDS CrmBreaker, OrderStream, LoadRuns, SessionGate, CatalogSync, Bootstrap, ChaosHook

CONSTANTS a1, a2, a3, b1, b2     \* model values for all of them

CONSTANT Parts      \* the components that a configuration lets move

VARIABLE part

servicesVars == <<part, breakerVars, vars, loadVars, gateVars, catalogVars, bootVars,
                  hookVars>>

\* Action A of component p; everything else stays.
Only(p, A) ==
    /\ part = p /\ A
    /\ UNCHANGED part
    /\ p # "breaker" => UNCHANGED breakerVars
    /\ p # "stream" => UNCHANGED vars
    /\ p # "load" => UNCHANGED loadVars
    /\ p # "session" => UNCHANGED gateVars
    /\ p # "catalogue" => UNCHANGED catalogVars
    /\ p # "bootstrap" => UNCHANGED bootVars
    /\ p # "hook" => UNCHANGED hookVars

ServicesInit ==
    /\ part \in Parts
    /\ BreakerInit /\ Init /\ LoadInit /\ GateInit /\ CatalogInit
    /\ BootInit /\ (part # "bootstrap" => oracle)
    /\ HookInit /\ (part # "hook" => chaosEnabled)

ServicesNext ==
    \/ Only("breaker", BreakerNext)
    \/ Only("stream", Next)
    \/ Only("load", LoadNext)
    \/ Only("session", GateNext)
    \/ Only("catalogue", CatalogNext)
    \/ Only("bootstrap", BootNext)
    \/ Only("hook", HookNext)

BreakerFair ==
    /\ WF_breakerVars(part = "breaker" /\ TimePasses)
    /\ \A c \in Calls :
          /\ WF_breakerVars(part = "breaker" /\ End(c))
          /\ WF_breakerVars(part = "breaker" /\ (AdmitClosed(c) \/ AdmitProbe(c)))
StreamFair ==
    /\ \A w \in Workers : /\ WF_vars(part = "stream" /\ Poll(w))
                          /\ WF_vars(part = "stream" /\ Handle(w))
    /\ SF_vars(part = "stream" /\ RecoverIdle)
LoadFair ==
    \A r \in LoadRunIds :
        /\ WF_loadVars(part = "load" /\ LoadStep(r))
        /\ \A p \in Replicas : WF_loadVars(part = "load" /\ CancelWrite(r, p))
SessionFair ==
    /\ \A c \in Clients : /\ WF_gateVars(part = "session" /\ (Admit(c) \/ Saturated(c)))
                          /\ WF_gateVars(part = "session" /\ TimeOut(c))
    /\ WF_gateVars(part = "session" /\ CacheAges)
CatalogFair ==
    /\ WF_catalogVars(part = "catalogue" /\ \E h \in Handlers : SyncCatalog(h))
    /\ SF_catalogVars(part = "catalogue" /\ \E h \in Handlers : Apply(h))
BootFair == \A r \in BootReplicas : WF_bootVars(part = "bootstrap" /\ BootStep(r))
HookFair == \A t \in Threads : WF_hookVars(part = "hook" /\ HookStep(t))

ServicesFairSpec ==
    /\ ServicesInit /\ [][ServicesNext]_servicesVars
    /\ BreakerFair /\ StreamFair /\ LoadFair /\ SessionFair /\ CatalogFair /\ BootFair
    /\ HookFair

\* The types of all of them, and with them that an order stream worker is at an
\* entry of its batch, and that a run that is over has no live copy.
ServicesTypeOK ==
    /\ BreakerTypeOK /\ IInv /\ LoadTypeOK /\ OverHasNoTask
    /\ GateTypeOK /\ CatalogTypeOK /\ BootTypeOK /\ HookTypeOK
=============================================================================
