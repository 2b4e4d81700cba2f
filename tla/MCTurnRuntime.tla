---------------------------- MODULE MCTurnRuntime ----------------------------
EXTENDS TurnRuntime, TLC
SpeechSymmetry == Permutations(Speech)
==============================================================================
