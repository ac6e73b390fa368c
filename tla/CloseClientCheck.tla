--------------------------- MODULE CloseClientCheck ---------------------------
(***************************************************************************)
(* lisa_close_client's update of client_fds, for every table of at most    *)
(* MaxClients distinct fds and every fd to close.  Each initial state is   *)
(* one test case.                                                          *)
(***************************************************************************)
EXTENDS LisaClients, FiniteSets

CONSTANTS Fds, MaxClients

VARIABLES f, fd

Tables == {t \in BoundedSeq(Fds, MaxClients) : Len(t) > 0 /\ IsInjective(t)}

Init == f \in Tables /\ fd \in ToSet(f)

Next == UNCHANGED <<f, fd>>

Spec == Init /\ [][Next]_<<f, fd>>

\* Closing a client leaves client_fds holding exactly the other clients,
\* in their order (the comment of lisa_close_client: a lingering close for
\* that client connection).
CloseRemovesClient == CloseClient(f, fd) = Remove(f, fd)
=============================================================================
