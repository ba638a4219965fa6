------------------------------ MODULE MCCache -------------------------------
EXTENDS CacheUse
=============================================================================
