----------------------------- MODULE MCUpstream -----------------------------
EXTENDS Upstream, TLC
=============================================================================
