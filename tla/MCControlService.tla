-------------------------- MODULE MCControlService --------------------------
EXTENDS ControlService
CONSTANTS c1, c2, c3
=============================================================================
