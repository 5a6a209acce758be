-------------------------------- MODULE Debloat --------------------------------
(***************************************************************************)
(* What the runtime promises, independent of how the Pin tool keeps it:   *)
(* of the library routines it manages, only those the current prediction   *)
(* names and those really entered since the text was last blanked may be   *)
(* present in memory, and a routine that is entered is present.            *)
(***************************************************************************)
CONSTANTS Routines

VARIABLES managed,     \* routines whose bodies the tool has taken over
          live,        \* managed routines whose bodies are in memory
          chain        \* routines the current prediction names

absVars == <<managed, live, chain>>

AbsTypeOK == /\ managed \subseteq Routines
             /\ live \subseteq managed
             /\ chain \subseteq Routines

AbsInit == /\ managed \subseteq Routines
           /\ live = {}
           /\ chain \subseteq Routines

\* A routine is taken over with its body removed; it may already be predicted.
Manage == \E r \in Routines \ managed :
            /\ managed' = managed \union {r}
            /\ UNCHANGED <<live, chain>>

\* A new prediction removes every body. The same prediction may keep them all.
Repredict == /\ \/ live' = {}
                \/ live' = live /\ chain' = chain
             /\ chain' \subseteq Routines
             /\ UNCHANGED managed

\* Entering r makes r present, and besides r only predicted routines.
Run == \E r \in managed :
         /\ r \in live'
         /\ live \subseteq live'
         /\ live' \subseteq managed
         /\ live' \subseteq live \union {r} \union chain
         /\ UNCHANGED <<managed, chain>>

AbsNext == Manage \/ Repredict \/ Run

AbsSpec == AbsInit /\ [][AbsNext]_absVars
================================================================================
