------------------------- MODULE MCEventProcessing -------------------------
EXTENDS EventProcessing
============================================================================
