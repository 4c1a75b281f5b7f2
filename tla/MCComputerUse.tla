---------------------------- MODULE MCComputerUse ----------------------------
EXTENDS ComputerUse, TLC

CONSTANTS box, word

MCTargets == {box, word}
MCTyped   == {word}
MCLimited == {word}
MCAllowed == (word :> 1)
=============================================================================
