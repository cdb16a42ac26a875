----------------------------- MODULE MCLabGuest -----------------------------
EXTENDS LabGuest
=============================================================================
