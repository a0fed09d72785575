------------------------------ MODULE MCRequestLoop ------------------------------
EXTENDS RequestLoop
================================================================================
