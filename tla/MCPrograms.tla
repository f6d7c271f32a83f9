----------------------------- MODULE MCPrograms -----------------------------
(* Small instances of Programs.                                              *)
EXTENDS Programs, TLC

\* The plugins of the repository, one that has a configuration, with its magic key,
\* and no constructor, and one that cannot read.
MCStruct ==
    ("memory"    :> memory_plugin) @@
    ("file"      :> file_plugin) @@
    ("mcman"     :> mcman_plugin) @@
    ("atad"      :> atad_plugin) @@
    ("pcmstream" :> pcmstream_plugin) @@
    ("command"   :> command_plugin) @@
    ("bare"      :> [file_plugin EXCEPT !.ctor = FALSE, !.config = TRUE, !.magic = TRUE]) @@
    ("null"      :> [atad_plugin EXCEPT !.pread = FALSE])

\* tty, atad and mcman are the same to the table.
ASSUME SameShape == atad_plugin = mcman_plugin /\ tty_plugin = mcman_plugin

MCPaths == {<<"f">>, <<"/", "f">>, <<"d", "/", "e", "/", "f">>, <<"api">>, <<"motd">>}
MCUris == UNION {[1 .. n -> {"a", "/", "?", "#", "&", "="}] : n \in 0 .. 5}
MCAnyUris == {<<>>, <<"api">>, <<"api", "?", "x">>, <<"b", "/", "a">>}
MCLines ==
    {<<"lc">>, <<"export">>, <<"export", "=", "x">>, <<"ce">>, <<"ce", "=", "test">>,
     <<"ce", "=", "a", "/", "test">>, <<"ce", "=", "none">>, <<"ls">>,
     <<"ce", "=", "api", "?", "echo", "=", "$">>, <<"ce", "=", "api", "?", "echo", "=", "x">>,
     <<"echo">>, <<"echo", "=">>, <<"echo", "=", "x", "y", "#", "z">>,
     <<"echo", "=", "x", "$", "y">>, <<"#", "z">>,
     <<"echo", "=", "x", "x", "x", "x", "x", "x", "x", "x">>,
     <<"ce", "=", "x", "/", "x", "/", "x", "/", "x">>,
     <<"bzero">>, <<"memset">>, <<"memset", "=", "x">>, <<"memset", "=">>,
     <<"memcpy", "=", "x", "y">>, <<"memcpy", "=", "x", "&", "memset", "=", "y">>,
     <<"memset", "&", "bzero", "&", "memcpy", "=", "x">>,
     <<"memcpy", "=", "x", "x", "x", "x">>}
=============================================================================
