------------------------ MODULE MCCommandLifecycle ------------------------
EXTENDS CommandLifecycle
==========================================================================
