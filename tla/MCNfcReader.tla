----------------------------- MODULE MCNfcReader -----------------------------
EXTENDS NfcReader

\* A LEAF card with a UID of seven bytes, and another card with one of four.
MCKinds == {[levels |-> 2, iso4 |-> TRUE], [levels |-> 1, iso4 |-> FALSE]}
=============================================================================
