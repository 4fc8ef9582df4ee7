-------------------------- MODULE MCGroupMessages --------------------------
(* A switch, a lamp that follows it and announces its status on another    *)
(* group address (in a second row: a row with the write flag would hear    *)
(* itself), a panel that shows the status in two objects and reads it      *)
(* after a restart, and a spare lamp that is not in run time.              *)
EXTENDS GroupMessages, TLC

CONSTANTS switch, lamp, panel, spare

MCObjects ==
  (switch :> <<[href |-> "button", ga |-> <<1>>, flags |-> {"t"}]>>) @@
  (lamp   :> <<[href |-> "light", ga |-> <<3, 1>>, flags |-> {"w", "t"}],
               [href |-> "light", ga |-> <<2>>, flags |-> {"t", "r"}]>>) @@
  (panel  :> <<[href |-> "label", ga |-> <<2>>, flags |-> {"w", "u", "i"}],
               [href |-> "colour", ga |-> <<2>>, flags |-> {"w", "u"}]>>) @@
  (spare  :> <<[href |-> "light", ga |-> <<1>>, flags |-> {"w", "t", "r"}]>>)

Row(grpid, ga) == [grpid |-> grpid, ga |-> {ga}]

MCPublishers ==
  (switch :> <<>>) @@ (lamp :> <<Row(10, 1), Row(20, 2)>>) @@
  (panel :> <<Row(20, 2)>>) @@ (spare :> <<Row(10, 1)>>)
MCRecipients ==
  (switch :> <<Row(10, 1)>>) @@ (lamp :> <<Row(20, 2)>>) @@
  (panel :> <<Row(20, 2)>>) @@ (spare :> <<>>)

MCDevice == {switch, lamp, panel, spare}
MCRunning == {switch, lamp, panel}
MCSource == {<<switch, "button">>}
MCRestarting == {panel}

(* The tables are such that the devices agree.                             *)
ASSUME MCTables == OneLeader /\ SourcesLead /\ LeadersStay /\ PassedOn /\ ReadsBack
=============================================================================
