------------------------- MODULE MCSequentialUpload --------------------------
EXTENDS SequentialUpload

\* Parts of two bytes, at most three of them.  Sizes: unknown, zero, less than a
\* part, one part, two and a half; streams of every length up to one that needs
\* a fourth part.
MCObjectSizes == {None, 0, 1, 2, 5}
MCStreamLengths == 0 .. 7
=============================================================================
