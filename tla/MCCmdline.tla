----------------------------- MODULE MCCmdline -----------------------------
(* Command lines of at most two tokens over the parameters, an unknown    *)
(* droidboot name, a foreign name and an empty name, with or without '=', *)
(* and values that atoi reads as 1, -1 and 0 and that name a partition.   *)
EXTENDS Cmdline

MCDataPtn == <<"d">>
MCBootDir == <<"b">>
MCParts   == {<<"d">>, <<"c">>}
MCNames   == {NameOf[k] : k \in DOMAIN NameOf}
               \cup {DName(<<"x">>), <<<<"q","u","i","e","t">>, <<>>>>, <<<<>>, <<>>>>}
MCTokens  == [name : MCNames, eq : {TRUE}, value : {<<"1">>, <<"-", "1">>, <<"c">>}]
               \cup [name : MCNames, eq : {FALSE}, value : {<<>>}]
MCCmdLines == {<<>>} \cup {<<t>> : t \in MCTokens}
                \cup {<<t, u>> : t, u \in MCTokens}
====
