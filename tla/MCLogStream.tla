---------------------------- MODULE MCLogStream ----------------------------
EXTENDS LogStream
\* Lines 2 and 3 were written in the same instant.
StampVal == <<1, 2, 2>>
=============================================================================
