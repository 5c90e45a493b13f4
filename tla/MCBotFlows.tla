----------------------------- MODULE MCBotFlows -----------------------------
(***************************************************************************)
(* Instances of BotFlows for TLC.                                          *)
(***************************************************************************)
EXTENDS BotFlows, TLC

CONSTANTS t1, t2, a1, a2, x1, e1, g1, g2, g3, g4, d1, c1, n1, n2, n3, r1

MCGrantors == Continues \cup Answers

PressSymmetry ==
    Permutations(Approvals) \cup Permutations(Files) \cup Permutations(Continues)
        \cup Permutations(Answers)
=============================================================================
