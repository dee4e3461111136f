----------------------------- MODULE MCHealth ------------------------------
(* Instance of HealthCoordinator: two targets behind one provider, so that *)
(* provider probes, target probes and late outcomes of either meet.        *)
EXTENDS HealthCoordinatorProofs

CONSTANTS p1, t1, t2

MCProvider == {p1}
MCTarget == {t1, t2}
MCProviderOf == [t \in MCTarget |-> p1]
=============================================================================
