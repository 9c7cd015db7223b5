----------------------------- MODULE MCLimited -----------------------------
(***************************************************************************)
(* A body of three bytes and one byte behind it; the decoder's quota is    *)
(* one less than the body's, the same, or one more.                        *)
(***************************************************************************)
EXTENDS Limited

LimitChoices == { [w |-> 3, r |-> 3, o |-> o] : o \in {2, 4} }
DemandChoices == { [lo |-> 1, hi |-> 1], [lo |-> 1, hi |-> 3], [lo |-> 2, hi |-> 2] }
=============================================================================
