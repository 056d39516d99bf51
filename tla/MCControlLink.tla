-------------------------- MODULE MCControlLink ---------------------------
EXTENDS ControlLink
MCLastNumber == <<2, 2>>
=============================================================================
