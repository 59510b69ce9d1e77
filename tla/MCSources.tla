------------------------------- MODULE MCSources -------------------------------
\* The instance of Sources: a PDF, a text whose size nobody knows and which is too
\* large, an entry that is skipped, a text and an empty one.
EXTENDS Sources
MCNames == 1..5
MCKind == <<"pdf", "text", "folder", "text", "text">>
MCChunks == <<2, 4, 1, 1, 0>>
MCRetryAfters == {-1, 1, 9}
===============================================================================
