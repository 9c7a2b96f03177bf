---------------------------- MODULE MCCompaction ----------------------------
(* Instances of Compaction: a call of its own and a pair, with ids that
   repeat from answer to answer, as some gateways number them.  The user sends
   a brief, a turn of a normal size and a pasted file. *)
EXTENDS Compaction
OneOrTwoCalls == {<<>>, <<"c1">>, <<"c1", "c2">>}
BriefNormalPaste == {<<1, FALSE>>, <<8, FALSE>>, <<Large, FALSE>>}
LongOrError == {<<Large, FALSE>>, <<Large, TRUE>>}
=============================================================================
