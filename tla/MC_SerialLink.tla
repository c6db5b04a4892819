---------------------------- MODULE MC_SerialLink ----------------------------
EXTENDS SerialLink
=============================================================================
