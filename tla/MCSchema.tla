------------------------------- MODULE MCSchema -------------------------------
EXTENDS SchemaStart
=============================================================================
