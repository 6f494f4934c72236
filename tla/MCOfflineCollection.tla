------------------------ MODULE MCOfflineCollection ------------------------
EXTENDS OfflineCollection
============================================================================
