---------------------------- MODULE LisaClients ----------------------------
(***************************************************************************)
(* The client table of a lisa in the server role (lisa.c): client_fds     *)
(* with num_clients entries, as a sequence of fds.                         *)
(***************************************************************************)
EXTENDS Integers, Sequences, SequencesExt, LisaStates

\* lisa_close_client's removal of client_fd from client_fds (lines
\* 1043-1045).  The search loop increments i once more after the test
\* that found the entry, so the shift starts one entry late and removes
\* the entry after it; num_clients drops even when the fd is not found.
\* Both cases remove entry q (1-based), or the last entry when the shift
\* has nothing to move.
CloseClient(f, fd) ==
    LET found == {i \in 1..Len(f) : f[i] = fd}
        q == IF found = {} THEN Len(f) ELSE Min({Min(found) + 1, Len(f)})
    IN  RemoveAt(f, q)
=============================================================================
