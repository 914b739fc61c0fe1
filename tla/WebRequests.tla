---------------------------- MODULE WebRequests ----------------------------
(***************************************************************************)
(* What the parts of internal/web have in common: the requests that the    *)
(* HTTP server answers at the same time, each in a goroutine of its own.   *)
(***************************************************************************)
CONSTANTS
    Clients,  \* requests under way at the same time
    None      \* no file, nothing cached, nobody, nothing typed
=============================================================================
