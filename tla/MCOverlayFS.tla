----------------------------- MODULE MCOverlayFS -----------------------------
(* A small instance of OverlayFS for TLC.                                  *)
EXTENDS OverlayFS

LowDir(p) == p :> [kind |-> "dir", attr |-> "seed", target |-> <<>>, ino |-> <<>>]
Low(kind, p, target) == p :> [kind |-> kind, attr |-> "seed", target |-> target, ino |-> p]

MCPaths == {<<>>, <<"a">>, <<"a", "b">>, <<"a", "x">>, <<"a", "b", "y">>, <<"a", "x", "y">>}
MCTargets == {<<"a", "x">>}
MCLower ==
  LowDir(<<>>) @@ LowDir(<<"a">>) @@ LowDir(<<"a", "x">>)
    @@ Low("link", <<"a", "x", "y">>, <<"a", "b">>) @@ Low("file", <<"a", "b">>, <<>>)
=============================================================================
