----------------------------- MODULE MCFileTree -----------------------------
EXTENDS FileTree

MCPaths == {<<>>, <<"a">>, <<"b">>, <<"a", "x">>, <<"b", "x">>}
MCTargets == {<<"a">>, <<"b">>}
MCSeed == (<<>> :> Dir("new")) @@ (<<"a">> :> Dir("seed"))
=============================================================================
