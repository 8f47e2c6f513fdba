------------------------------ MODULE MCSdIdle ------------------------------
(* Instances of SdIdle for TLC: times in units of the check interval.      *)
EXTENDS SdIdle

D(kind, letters) == [opt |-> "-d", kind |-> kind, letters |-> letters]
T(opt, n)        == [opt |-> opt, valid |-> TRUE, n |-> n]
Bad(opt)         == [opt |-> opt, valid |-> FALSE, n |-> 0]
O(opt)           == [opt |-> opt]

(* everything _parse_options distinguishes, for disks 0 and 1; a short     *)
(* idletime is raised to the minimum, two times overflow together          *)
ArgvsAll ==
    {<<>>, <<O("-h")>>, <<O("unknown")>>, <<T("-i", 3), O("missing")>>,
     <<D("include", {})>>, <<D("include", {0}), D("exclude", {0})>>,
     <<D("include", {0}), T("-i", 1)>>,
     <<D("exclude", {0}), Bad("-i"), T("-c", 0)>>,
     <<D("empty", {}), O("-v")>>, <<D("include", {0}), T("-c", 4), T("-i", 4)>>}

ArgvsExclude == {<<D("exclude", {0, 1})>>, <<D("exclude", {1})>>}

None == {}
=============================================================================
