------------------------------- MODULE MCConsole -------------------------------
\* The instance of Console.
EXTENDS Console
CONSTANTS A, B, s1, s2, d1, d2
MCTags == {A, B}
MCServers == {s1, s2}
MCDocs == {d1, d2}
===============================================================================
