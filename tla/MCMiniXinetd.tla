---------------------------- MODULE MCMiniXinetd ----------------------------
(* Instances of MiniXinetd for TLC.                                          *)
EXTENDS MiniXinetd

MCBuilt == <<"daytime">>
MCLines ==
    {[kind |-> "service", value |-> "daytime"], [kind |-> "service", value |-> "echo"],
     [kind |-> "port", value |-> "13"], [kind |-> "port", value |-> "7"],
     [kind |-> "server", value |-> "x"]}
    \cup [kind : {"brace", "bad", "none"}, value : {""}]
=============================================================================
