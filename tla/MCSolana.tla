------------------------------ MODULE MCSolana ------------------------------
EXTENDS Gateway
=============================================================================
