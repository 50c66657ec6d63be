-------------------------- MODULE MCPortalService --------------------------
(***************************************************************************)
(* Small instances of the portal for TLC.  All features at once are too    *)
(* many states; the constraints explore the ways of using the portal one   *)
(* by one, each with the features that interact.                           *)
(***************************************************************************)
EXTENDS PortalService, TLC

\* Connections to the same endpoint are interchangeable when all or none of them
\* have to authenticate.
Symmetry ==
    {p @@ q : p \in Permutations(ControlConn \ AuthEndpoint),
              q \in Permutations(NodeConn \ AuthEndpoint) \cup Permutations(NodeConn \cap AuthEndpoint)}

\* Keeps spawn gating out of the instances that are about sessions.
NoGating == spawn_gaters = {}

\* Does not look beyond a stop () or a failed start ().
NoRestart == ~io_cancelled /\ (state = "STOPPED" => listening = {})

SessionsOnly == NoGating /\ NoRestart

Used == {c \in Conn : wire[c] # "new"}

OneController == Cardinality(Used \cap ControlConn) <= 1

NoLocal == \A l \in LocalChannel : object[l] = "none"

\* In turn: two controllers; a controller and the local device; connections that have to
\* authenticate, at a service that is stopped and started again.
SessionScenarios ==
    /\ NoGating
    /\ \/ Used \cap AuthEndpoint = {} /\ NoRestart /\ (NoLocal \/ OneController)
       \/ Used \subseteq AuthEndpoint /\ NoLocal

SessionScenariosNext == SessionScenarios'
=============================================================================
