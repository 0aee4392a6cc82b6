--------------------------- MODULE MCPeerManager ---------------------------
(***************************************************************************)
(* Instances of PeerManager for TLC.                                       *)
(***************************************************************************)
EXTENDS PeerManager, TLC

\* Everybody prefers the last port: the search wraps around.
MCPreferred == [k \in Keys |-> NumPorts - 1]

Empty == [id \in PeerIds |-> NoRow]

\* One peer, of any machine and with any configuration.
One(status) ==
    {[Empty EXCEPT ![1] = [key |-> k, cfg |-> c, port |-> 0, status |-> status]] :
       k \in Keys \ TestKeys, c \in Cfgs}

\* No peer yet, or one active peer.
NoneOrOne == {Empty} \cup One("active")

\* No peer yet, or one disabled peer.
NoneOrDisabled == {Empty} \cup One("disabled")

\* Requests and configurations are interchangeable; machines are when none is a
\* test machine.
RequestSymmetry == Permutations(Requests) \cup Permutations(Cfgs)
MachineSymmetry == RequestSymmetry \cup Permutations(Keys)
=============================================================================
