------------------------------ MODULE MCListing ------------------------------
(* Four notifications and page sizes of 1 to 3, for TLC. *)
EXTENDS Listing

CONSTANTS r1, r2, r3, r4

(* Absent, negative, small and over the limit. *)
Sizes == {-1, 0, 1, 7}
=============================================================================
