--------------------------- MODULE MCUpdateApply ---------------------------
(* Three entries in the code's order: the executable and the Core, both    *)
(* required, and one a release may omit.  Two of them are directories.     *)
EXTENDS UpdateApply
=============================================================================
