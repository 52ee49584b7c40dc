-------------------------- MODULE MCContextManager --------------------------
EXTENDS ContextManager

CONSTANTS p1, p2, s, none

\* The manager's process has a plain store, the other one a scoped store.
MCScopeOf == p1 :> none @@ p2 :> s
=============================================================================
