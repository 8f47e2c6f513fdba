---------------------------- MODULE MCRcUnslung ----------------------------
(* Instances of RcUnslung for TLC: the scripts of an init.d directory.     *)
EXTENDS RcUnslung

(* A critical daemon of one process, and one of two that is not critical;  *)
(* more between them where two are not enough, one of them of the same     *)
(* number as the last.                                                     *)
Scripts      == {"S10cron", "S49vsftpd", "S91automatic", "S91smb"}
TwoScripts   == {"S10cron", "S91smb"}
ThreeScripts == Scripts \ {"S49vsftpd"}
OneScript    == {"S10cron"}
MidScript    == {"S91automatic"}
NoScripts    == {}

ProcsOf    == [s \in ThreeScripts |-> CASE s = "S10cron"      -> <<"cron">>
                                        [] s = "S91automatic" -> <<"automatic">>
                                        [] s = "S91smb"       -> <<"nmbd", "smbd">>]
TwoProcs   == [s \in TwoScripts |-> ProcsOf[s]]

(* One process each; the script that is disabled and the one without a     *)
(* binary are for the daemon of another, which keeps the instance small.   *)
SingleProcs == [s \in Scripts |-> IF s = "S91smb" THEN <<"smbd">> ELSE <<"cron">>]

(* Names by their digits and the first letters that tell them apart.       *)
DigitsOf == [s \in Scripts |-> CASE s = "S10cron"   -> <<1, 0>>
                                 [] s = "S49vsftpd" -> <<4, 9>>
                                 [] OTHER           -> <<9, 1>>]
RestOf   == [s \in Scripts |-> CASE s = "S10cron"      -> <<12, 27>>
                                 [] s = "S49vsftpd"    -> <<31, 28>>
                                 [] s = "S91automatic" -> <<10, 30>>
                                 [] s = "S91smb"       -> <<28, 22>>]
ThreeSingle == [s \in ThreeScripts |-> SingleProcs[s]]
TwoDigits   == [s \in TwoScripts |-> DigitsOf[s]]
TwoRests    == [s \in TwoScripts |-> RestOf[s]]
ThreeDigits == [s \in ThreeScripts |-> DigitsOf[s]]
ThreeRests  == [s \in ThreeScripts |-> RestOf[s]]

Ask(actions, whos) == [action : actions, who : whos]
Everything    == Ask(Actions, {"cron", "user"})
UserStartStop == Ask({"start", "stop"}, {"user"})
UserRestart   == Ask({"restart"}, {"user"})
StartOrError  == Ask({"start", "?"}, {"user"})
UserStart == Ask({"start"}, {"user"})
NoRequests    == {}
CronStarts    == Ask({"start"}, {"cron"})
=============================================================================
