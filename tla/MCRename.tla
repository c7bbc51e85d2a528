------------------------------ MODULE MCRename ------------------------------
\* Instances of Rename for TLC.
EXTENDS Rename, TLC

\* Nothing tells interfaces apart but what they wear.
AnyIface == Permutations(Iface)
=============================================================================
