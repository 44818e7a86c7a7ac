------------------------ MODULE MCOperatorRegistration ------------------------
EXTENDS OperatorRegistration
================================================================================
