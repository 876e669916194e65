----------------------------- MODULE MCJobPage -----------------------------
EXTENDS JobPage
=============================================================================
