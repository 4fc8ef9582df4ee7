---------------------------- MODULE MCKnxDevice ----------------------------
(* Two objects with a group each, the second the one that receives; the    *)
(* payloads that create both, delete the first id, and have one row        *)
(* refused before another is changed; a publisher, which gives a group id  *)
(* to the group of the second row.                                         *)
EXTENDS KnxDevice

Lamp == [id |-> 0, href |-> "ours", ga |-> {1}, cflags |-> {"w"}]
Button == [id |-> 1, href |-> "ours", ga |-> {2}, cflags |-> {"t"}]
Foreign == [id |-> 1, href |-> "foreign", ga |-> {2}, cflags |-> {"r"}]
Regroup == [id |-> 0, ga |-> {2}]
Delete == [id |-> 0]
Publisher == [id |-> 0, ga |-> {1}, grpid |-> 9]

MCGroupPosts == { <<Button, Lamp>>, <<Foreign, Regroup>>, <<Delete>> }
MCPublisherPosts == { <<Publisher>> }
=============================================================================
