----------------------- MODULE MCLogicalReplication -----------------------
EXTENDS LogicalReplication, TLC
===========================================================================
