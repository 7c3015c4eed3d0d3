------------------------------ MODULE AuthProvider ------------------------------
(***************************************************************************)
(* What the authentication providers of the S-CSCF (IAuthProvider) have in *)
(* common: the workers that call them from the handlers of REGISTER.       *)
(***************************************************************************)
CONSTANTS
    Worker,     \* threads that handle a REGISTER
    None
=============================================================================
