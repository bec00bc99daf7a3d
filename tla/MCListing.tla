------------------------------ MODULE MCListing ------------------------------
(* Listing on small instances.                                              *)
EXTENDS Listing, TLC

\* Two digits stand for the 27 characters of a timestamp and a letter for the 36
\* of a UUID: four bytes with the bar, which like the 64 of the code leave one
\* over after the groups of three.
MCTimeText == [t \in 1..MaxTime |-> <<48, 48 + t>>]
MCIdText == [i \in Ids |-> <<96 + i>>]

Sym == Permutations(Writers)
=============================================================================
