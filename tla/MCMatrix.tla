------------------------------- MODULE MCMatrix -------------------------------
\* Matrix with a login that has two clients and one that has one
EXTENDS Matrix

CONSTANTS a, b

MCClient == {<<a, 1>>, <<a, 2>>, <<b, 1>>}
MCLogin  == [c \in MCClient |-> c[1]]

\* Secrets of a client that had logged in, and of one that had only been saved
Known(enabled) == [user |-> TRUE, token |-> TRUE, enabled |-> enabled]
Fresh == [user |-> FALSE, token |-> FALSE, enabled |-> FALSE]

MCStored == {[l \in {a, b} |-> NULL], [[l \in {a, b} |-> NULL] EXCEPT ![a] = Known(TRUE)],
             [[l \in {a, b} |-> NULL] EXCEPT ![a] = Fresh]}
MCGiven == [l \in {b} |-> [Fresh EXCEPT !.enabled = TRUE]]
Disabled == {[[l \in {a, b} |-> NULL] EXCEPT ![a] = Known(FALSE)]}
================================================================================
