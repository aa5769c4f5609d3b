----------------------------- MODULE MCListing -----------------------------
(* ShakedexListing on small instances. *)
EXTENDS ShakedexListing, TLC

\* The Cancels one device may build of a lock are alike.
Symmetry == Permutations(OurCancels)
=============================================================================
