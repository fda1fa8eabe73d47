--------------------------- MODULE MCMobileBilling ---------------------------
(* Instances of MobileBilling: one purchase, one or two validations at a    *)
(* time.                                                                    *)
EXTENDS MobileBilling
=============================================================================
