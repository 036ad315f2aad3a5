-------------------------- MODULE MC_LifecycleClaims --------------------------
EXTENDS LifecycleClaims
=============================================================================
