----------------------------- MODULE MCReplyPipe -----------------------------
(***************************************************************************)
(* Model checking ReplyPipe: replies of one octet, of a buffer, and of two *)
(* buffers less one; the pipe holds the longest and one more, so that a    *)
(* write may have to wait.                                                 *)
(***************************************************************************)
EXTENDS ReplyPipe

ReplyLengths == {1, Size, 2 * Size - 1}
=============================================================================
