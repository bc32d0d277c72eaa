--------------------------- MODULE MCWatchScreens ---------------------------
EXTENDS WatchScreens
=============================================================================
