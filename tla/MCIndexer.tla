----------------------------- MODULE MCIndexer ------------------------------
EXTENDS Indexer, TLC
=============================================================================
