----------------------------- MODULE ApprovedList ------------------------------
(***************************************************************************)
(* create_approved_list.py: the search for the library routines that may   *)
(* be blanked. It adds one routine at a time to the approved list of its   *)
(* library, runs the benchmark under the probe tool, which reads the lists *)
(* of all libraries, and drops the routine again if the run fails. A       *)
(* search that breaks in the middle can be restarted at a routine; only    *)
(* the files survive. Mode "called" stops with a NameError before it       *)
(* writes anything and is left out.                                        *)
(***************************************************************************)
EXTENDS Integers, Sequences

CONSTANTS
    Lib, LibC,       \* libraries the benchmark loads; LibC has ignored_list.txt
    Funcs,           \* library -> the lines of its routine list, which may repeat
    OldApproved,     \* the approved lists, of all libraries, and the ignored
    OldIgnored,      \* lists of one that earlier experiments may have left
    NoFile, NoName

Listed(list) == {list[i] : i \in 1 .. Len(list)}
Names == UNION {Listed(Funcs[l]) : l \in Lib}

ASSUME SearchAssumption ==
    /\ LibC \in Lib
    /\ Funcs \in [Lib -> Seq(Names)]
    /\ OldApproved \subseteq [Lib -> Seq(Names)]
    /\ \A F \in OldIgnored \ {NoFile} : F \subseteq Names
    /\ NoName \notin Names

VARIABLES
    breaks,              \* environment: library -> routines that make a run fail
    approved_file,       \* approved_list.txt, approved_list_libm.txt; <<>>: none
    ignored_file,        \* ignored_list.txt, ignored_list_libm.txt
    phase, lib, idx,     \* where the script is; lib is called_or_libname
    approved_list, ignored_list,
    restart_func_name,   \* NoName: start_or_restart is "start"
    continuing, prev_ignored,
    broke_at             \* library -> where its last search broke, or NoName

files == <<approved_file, ignored_file>>
args == <<breaks, lib, restart_func_name, prev_ignored>>
searchVars == <<args, files, phase, idx, approved_list, ignored_list, continuing, broke_at>>

InitSearch ==
    /\ breaks \in [Lib -> SUBSET Names]
    /\ \A l \in Lib : breaks[l] \subseteq Listed(Funcs[l])
    /\ approved_file \in OldApproved
    /\ ignored_file \in [Lib -> OldIgnored]
    /\ phase = "idle" /\ lib = LibC /\ idx = 1
    /\ approved_list = <<>> /\ ignored_list = {}
    /\ restart_func_name = NoName /\ continuing = FALSE /\ prev_ignored = {}
    /\ broke_at = [l \in Lib |-> NoName]

func == Funcs[lib][idx]

\* A new process, with empty lists.
Begin(l, f) ==
    /\ phase \in {"idle", "done"}
    /\ phase' = "loop" /\ lib' = l /\ idx' = 1
    /\ approved_list' = <<>> /\ ignored_list' = {}
    /\ restart_func_name' = f /\ continuing' = (f # NoName)
    /\ broke_at' = [broke_at EXCEPT ![l] = NoName]
    /\ UNCHANGED <<breaks, files>>

Start(l) == Begin(l, NoName) /\ prev_ignored' = {}

\* The operator restarts a search that broke at the routine where it broke.
\* Whichever library is searched, the restart opens ignored_list.txt, and
\* fails if there is none.
Restart(l) ==
    /\ broke_at[l] # NoName /\ ignored_file[LibC] # NoFile
    /\ Begin(l, broke_at[l])
    /\ prev_ignored' = ignored_file[LibC]

\* Faulty variant: a skipped routine of the old ignored list stays approved.
SkipApproves ==
    /\ phase = "loop" /\ idx <= Len(Funcs[lib])
    /\ continuing /\ func # restart_func_name
    /\ approved_list' = Append(approved_list, func)
    /\ ignored_list' = IF func \in prev_ignored THEN ignored_list \union {func}
                                                ELSE ignored_list
    /\ idx' = idx + 1
    /\ UNCHANGED <<args, files, phase, continuing, broke_at>>

\* Until the restart reaches its routine it takes the old verdicts.
Skip ==
    /\ phase = "loop" /\ idx <= Len(Funcs[lib])
    /\ continuing /\ func # restart_func_name
    /\ IF func \in prev_ignored
       THEN ignored_list' = ignored_list \union {func} /\ UNCHANGED approved_list
       ELSE approved_list' = Append(approved_list, func) /\ UNCHANGED ignored_list
    /\ idx' = idx + 1
    /\ UNCHANGED <<args, files, phase, continuing, broke_at>>

Try ==
    /\ phase = "loop" /\ idx <= Len(Funcs[lib])
    /\ continuing => func = restart_func_name
    /\ continuing' = FALSE
    /\ approved_list' = Append(approved_list, func)
    /\ approved_file' = [approved_file EXCEPT ![lib] = approved_list']
    /\ phase' = "running"
    /\ UNCHANGED <<args, ignored_file, idx, ignored_list, broke_at>>

\* The return code of the benchmark: it crashes in a routine that must not be
\* blanked, and so does the tool on an approved list that is missing or empty.
Sound(l) == approved_file[l] # <<>> /\ Listed(approved_file[l]) \intersect breaks[l] = {}
RunFails == \E l \in Lib : ~Sound(l)

\* The verdict on the routine on trial; the parameters say what is then
\* approved, and with which line the loop goes on, if the run failed.
RunEndsAs(approvedNow, next) ==
    /\ phase = "running"
    /\ IF RunFails
       THEN /\ approved_list' = approvedNow
            /\ ignored_list' = ignored_list \union {func}
            /\ idx' = next
       ELSE idx' = idx + 1 /\ UNCHANGED <<approved_list, ignored_list>>
    /\ phase' = "loop"
    /\ UNCHANGED <<args, files, continuing, broke_at>>

Popped == SubSeq(approved_list, 1, Len(approved_list) - 1)

\* Faulty variants: the failed routine is not popped; the one after it is
\* skipped.
RunEndsNoPop == RunEndsAs(approved_list, idx + 1)
RunEndsSkips == RunEndsAs(Popped, idx + 2)

RunEnds == RunEndsAs(Popped, idx + 1)

\* The final copies: the last routine on trial may still be in the file.
WriteApproved ==
    /\ phase = "loop" /\ idx > Len(Funcs[lib])
    /\ approved_file' = [approved_file EXCEPT ![lib] = approved_list]
    /\ phase' = "writing"
    /\ UNCHANGED <<args, ignored_file, idx, approved_list, ignored_list, continuing, broke_at>>

WriteIgnored ==
    /\ phase = "writing"
    /\ ignored_file' = [ignored_file EXCEPT ![lib] = ignored_list]
    /\ phase' = "done"
    /\ UNCHANGED <<args, approved_file, idx, approved_list, ignored_list, continuing, broke_at>>

\* The process dies at any moment; its lists are gone, the files stay.
Interrupt ==
    /\ phase \in {"loop", "running", "writing"}
    /\ broke_at' = [broke_at EXCEPT ![lib] = IF idx <= Len(Funcs[lib]) THEN func ELSE NoName]
    /\ phase' = "idle" /\ idx' = 1
    /\ approved_list' = <<>> /\ ignored_list' = {} /\ continuing' = FALSE
    /\ UNCHANGED <<args, files>>

Step == Skip \/ Try \/ RunEnds \/ WriteApproved \/ WriteIgnored

NextSearch ==
    \/ \E l \in Lib : Start(l) \/ Restart(l)
    \/ Step
    \/ Interrupt

SearchSpec == InitSearch /\ [][NextSearch]_searchVars
--------------------------------------------------------------------------------
\* The type of every variable.
SearchTypeOK ==
    /\ breaks \in [Lib -> SUBSET Names]
    /\ approved_file \in [Lib -> Seq(Names)]
    /\ DOMAIN ignored_file = Lib
    /\ \A l \in Lib : ignored_file[l] # NoFile => ignored_file[l] \subseteq Names
    /\ phase \in {"idle", "loop", "running", "writing", "done"}
    /\ lib \in Lib /\ idx \in 1 .. Len(Funcs[lib]) + 1
    /\ approved_list \in Seq(Names) /\ ignored_list \subseteq Names
    /\ restart_func_name \in Names \union {NoName}
    /\ continuing \in BOOLEAN /\ prev_ignored \subseteq Names
    /\ broke_at \in [Lib -> Names \union {NoName}]

\* The lines a restart takes over without a run of their own, and when it may:
\* the old ignored list has exactly the breaking ones among them.
Skipped ==
    {i \in 1 .. Len(Funcs[lib]) : \A j \in 1 .. i : Funcs[lib][j] # restart_func_name}
Justified ==
    restart_func_name # NoName =>
        \A i \in Skipped : Funcs[lib][i] \in breaks[lib] <=> Funcs[lib][i] \in prev_ignored

\* What the runs of a search read beside its own list.
OthersSound == \A l \in Lib \ {lib} : Sound(l)

\* A search that was not restarted, or restarted on a list that is right about
\* the routines it skips, ends with the verdict of every line of the list:
\* approved are those that do not break a run, ignored those that do. Needs
\* sound lists of the other libraries, which every run reads too.
ResultExact ==
    phase = "done" /\ Justified /\ OthersSound =>
        /\ Listed(approved_file[lib]) = Listed(Funcs[lib]) \ breaks[lib]
        /\ ignored_file[lib] = Listed(Funcs[lib]) \intersect breaks[lib]

\* Under the same conditions a run fails exactly if the routine on trial breaks
\* it: no failure is charged to the wrong routine.
BlamesTheNewest ==
    phase = "running" /\ Justified /\ OthersSound => (RunFails <=> func \in breaks[lib])

\* "adding functions that don't crash to the approved list" (line 102): no
\* routine that breaks the benchmark is approved, restarts included.
FailedNeverApproved ==
    phase = "done" => Listed(approved_file[lib]) \intersect breaks[lib] = {}
================================================================================
