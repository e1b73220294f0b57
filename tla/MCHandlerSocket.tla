--------------------------- MODULE MCHandlerSocket ----------------------------
(* One thread, eight calls, and three faults: enough for a connection to   *)
(* be poisoned, to die at the next call and to be used again after that.   *)
EXTENDS HandlerSocket
=============================================================================
