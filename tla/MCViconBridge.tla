---------------------------- MODULE MCViconBridge ----------------------------
(* A small instance of ViconBridge: poses are the integers modulo 3.       *)
EXTENDS ViconBridge, TLC

MCPose == 0 .. 2
MCOnePose == {0}
MCCompose(p, q) == (p + q) % 3
MCInverse(p) == (3 - p) % 3

MCSymmetry == Permutations(Creators)

=============================================================================
