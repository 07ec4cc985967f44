---------------------------- MODULE MCVerification ----------------------------
\* Verification with requests that are read at once, after some seconds, and late
EXTENDS Verification

InTime == {0, 20}
Late   == {0, 65 * 60 + 5}
===============================================================================
