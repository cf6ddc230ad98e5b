-------------------------------- MODULE MCLog --------------------------------
EXTENDS Log
=============================================================================
