------------------------------- MODULE MCTcp -------------------------------
EXTENDS Tcp, TLC

CONSTANTS istemci, tarayici

MCApps == {istemci, tarayici}
AppSymmetry == Permutations(MCApps)
=============================================================================
