---------------------------- MODULE MCDecryptProbe -----------------------------
(* Small instances of DecryptProbe. *)
EXTENDS DecryptProbe, TLC

MCRtn  == {"qsort", "memcpy", "tiny", "sin"}
MCName == {"qsort", "memcpy", "tiny", "sin", "gone"}
MCImage == {"libc", "libm"}

MCImageOf == [r \in MCRtn |-> IF r = "sin" THEN "libm" ELSE "libc"]
MCRtnName == [r \in MCRtn |-> r]
\* "tiny" is one byte too short to be probed, "memcpy" just long enough.
MCRtnSize == "qsort" :> 40 @@ "memcpy" :> 15 @@ "tiny" :> 14 @@ "sin" :> 20
MCFindByName ==
    [img \in MCImage |-> [n \in MCName |->
        IF n \in MCRtn /\ MCImageOf[n] = img THEN n ELSE "none"]]

\* memcpy is listed twice, as pthread_cond_wait, realpath, regexec... are in
\* the lists of the repository.
MCApproved == "libc" :> <<"memcpy", "gone", "qsort", "tiny", "memcpy">>
              @@ "libm" :> <<"sin">>

MCPredSets == 0 :> {} @@ 1 :> {"qsort", "memcpy"} @@ 2 :> {"sin", "gone", "memcpy"}

\* libm and libc both define frexp, copysign, ldexp, modf...: FindByName of
\* each image finds its own routine of that name.
TwinRtn  == {"libc.frexp", "libm.frexp", "memcpy"}
TwinName == {"frexp", "memcpy"}
TwinImageOf == [r \in TwinRtn |-> IF r = "libm.frexp" THEN "libm" ELSE "libc"]
TwinRtnName == [r \in TwinRtn |-> IF r = "memcpy" THEN "memcpy" ELSE "frexp"]
TwinRtnSize == [r \in TwinRtn |-> 40]
TwinFindByName ==
    "libc" :> ("frexp" :> "libc.frexp" @@ "memcpy" :> "memcpy")
    @@ "libm" :> ("frexp" :> "libm.frexp" @@ "memcpy" :> "none")
TwinApproved == "libc" :> <<"frexp", "memcpy">> @@ "libm" :> <<"frexp">>
TwinPredSets == 0 :> {} @@ 1 :> {"frexp", "memcpy"}
================================================================================
