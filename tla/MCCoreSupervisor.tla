------------------------- MODULE MCCoreSupervisor -------------------------
EXTENDS CoreSupervisor
=============================================================================
