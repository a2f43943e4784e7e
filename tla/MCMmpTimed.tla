----------------------------- MODULE MCMmpTimed -----------------------------
EXTENDS MmpTimed
MCHandlerCodes == {1, -108}   \* ok, errorFlashing
=============================================================================
