---------------------------- MODULE LisaStates ----------------------------
(***************************************************************************)
(* The state codes of a lisa connection and its role (lisa.h).  A negative *)
(* state is the sticky error state that the CHECK_ERROR macros test.       *)
(***************************************************************************)
EXTENDS Integers

LISA_ERROR == -1
LISA_UNINITIALIZED == 1
LISA_CREATED == 2
LISA_BOUND == 3
LISA_LISTENING == 4
LISA_CONNECTED == 5
LISA_TIMEOUT == 6
LISA_ACCEPTED == 7
LISA_GOT_DATA == 9
LISA_SENT_DATA == 10
LISA_CLOSED == 11

LisaStateCodes == {0, LISA_ERROR, LISA_UNINITIALIZED, LISA_CREATED,
                   LISA_BOUND, LISA_LISTENING, LISA_CONNECTED, LISA_TIMEOUT,
                   LISA_ACCEPTED, LISA_GOT_DATA, LISA_SENT_DATA, LISA_CLOSED}

LISA_UNKNOWN == 0
LISA_CLIENT == 1
LISA_SERVER == 2

=============================================================================
