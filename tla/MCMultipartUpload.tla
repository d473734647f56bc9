-------------------------- MODULE MCMultipartUpload --------------------------
EXTENDS MultipartUpload

\* Parts of two bytes, at most four of them, and two or three buffers (the
\* clamp to the part count and to kMaxInflightParts both bite).  Sizes: unknown,
\* two full parts, four parts with a short last one.  Streams: empty, short of a
\* part, exactly one or two parts, a byte more, more than announced, and one
\* that would need a fifth part.
MCObjectSizes == {None, 4, 7}
MCStreamLengths == {0, 1, 2, 3, 4, 5, 7, 9}
=============================================================================
