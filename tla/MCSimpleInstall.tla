-------------------------- MODULE MCSimpleInstall --------------------------
EXTENDS SimpleInstall
=============================================================================
