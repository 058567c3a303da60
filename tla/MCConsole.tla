------------------------------ MODULE MCConsole ------------------------------
EXTENDS Console

\* An update switches the camera on or off, or removes its sub stream, and names
\* nothing else.
MCPatches == [{"enabled"} -> BOOLEAN] \cup [{"sub"} -> {FALSE}]
=============================================================================
