-------------------------- MODULE MCActiveChatRun --------------------------
(* Small instances of ActiveChatRun for TLC.  Two runs: the stream of the  *)
(* first has an error chunk with one more behind it, the second's is       *)
(* plain.  One run: a longer stream, with a full batch before its error.   *)
EXTENDS ActiveChatRun, TLC

CONSTANTS r1, r2

TwoStreams == (r1 :> <<"error", "text">>) @@ (r2 :> <<"text", "text">>)
OneStream == r1 :> <<"text", "text", "error", "text">>
Symmetric == Permutations(Proc) \cup Permutations(Reader)
=============================================================================
