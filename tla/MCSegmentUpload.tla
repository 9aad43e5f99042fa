---------------------------- MODULE MCSegmentUpload ----------------------------
EXTENDS SegmentUpload, TLC

MCUsers == [u1 |-> {"a", "b"}, u2 |-> {"b", "c"}]

Ask(command, users) == [command |-> command, users |-> users]
MCEditCasts ==
    {[edits |-> ("e1" :> Ask("update", {})), failures |-> 2],
     [edits |-> ("e1" :> Ask("add", {"c"})), failures |-> 0],
     [edits |-> ("e1" :> Ask("delete", {"a", "b"})), failures |-> 0]}
=============================================================================
