----------------------------- MODULE MCMmpLink -----------------------------
EXTENDS MmpLink
MCHandlerCodes == {1, -108}   \* ok, errorFlashing
=============================================================================
