------------------------------ MODULE MCTimeline ------------------------------
\* Timeline with a room whose history is one message
EXTENDS Timeline

CONSTANT x

MCPast == <<TRUE>>
================================================================================
