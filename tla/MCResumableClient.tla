------------------------- MODULE MCResumableClient -------------------------
EXTENDS ResumableClient
=============================================================================
