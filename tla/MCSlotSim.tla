------------------------------ MODULE MCSlotSim ------------------------------
\* Model-checking instance of SlotSim, with its history.
EXTENDS SlotSimHistory
=============================================================================
