------------------------- MODULE MCDeferredSubsystem --------------------------
EXTENDS DeferredSubsystem
================================================================================
