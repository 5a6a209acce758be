----------------------------- MODULE MCProbeSteps ------------------------------
(* Small instances of ProbeSteps: pages of 32 bytes. *)
EXTENDS ProbeSteps, TLC

MCRtn == {"f", "g", "h"}

\* f and g share page 0, g and h page 1. The remap of h reaches addr + size_cp
\* = 62, on page 1; its body is bytes 62 to 75, the last of them on page 2.
SharedAddr == "f" :> 0 @@ "g" :> 16 @@ "h" :> 48
SharedSize == "f" :> 16 @@ "g" :> 32 @@ "h" :> 28

\* Opening the pages of g, and sealing those of f, may be refused.
SharedDenied == {<<"g", RWX>>, <<"f", RX>>}

\* Each routine on pages of its own; f needs two.
ApartAddr == "f" :> 0 @@ "g" :> 64 @@ "h" :> 96
ApartSize == "f" :> 50 @@ "g" :> 16 @@ "h" :> 20

MCPredSets == 0 :> {} @@ 1 :> {"f", "g"} @@ 2 :> {"g", "h"}
================================================================================
