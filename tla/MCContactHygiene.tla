-------------------------- MODULE MCContactHygiene --------------------------
\* One person on two rows with two addresses, and the three steps that make
\* the person reachable again.
EXTENDS ContactHygiene, TLC
ContactSymmetry == Permutations(Contacts)
=============================================================================
