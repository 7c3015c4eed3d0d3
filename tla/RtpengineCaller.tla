---------------------------- MODULE RtpengineCaller ----------------------------
(***************************************************************************)
(* Who calls rtpengine: the threads that handle a message at the P-CSCF.   *)
(***************************************************************************)
CONSTANTS
    Caller,   \* threads that call
    None
=============================================================================
