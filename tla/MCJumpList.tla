----------------------------- MODULE MCJumpList -----------------------------
EXTENDS JumpList, TLC
=============================================================================
