----------------------------- MODULE MCBringup -----------------------------
EXTENDS Bringup
=============================================================================
