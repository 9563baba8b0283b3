--------------------------- MODULE MCSandboxLayout ---------------------------
(* Two environments that differ in HOME; one command directory with a stub. *)
EXTENDS SandboxLayout, TLC

MCInside ==
  ("bin" :> {"bin", "bin/ls"}) @@ ("bin/ls" :> {"bin/ls"}) @@ ("tmp" :> {"tmp"})
    @@ ("home" :> {"home", "home/guest"}) @@ ("home/guest" :> {"home/guest"})
MCLayout ==
  ("agent" :> <<"bin", "home", "tmp", "bin/ls">>)
    @@ ("guest" :> <<"bin", "home/guest", "tmp", "bin/ls">>)
=============================================================================
