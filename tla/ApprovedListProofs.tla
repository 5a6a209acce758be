-------------------------- MODULE ApprovedListProofs ---------------------------
(***************************************************************************)
(* The search gives every routine of its list the right verdict, whatever  *)
(* the lists, the breaking routines and the interrupted searches before.   *)
(***************************************************************************)
EXTENDS ApprovedList, SequenceTheorems, TLAPS

\* Appending a routine adds it to the list; all but the last were there.
Front(list) == {list[i] : i \in 1 .. Len(list) - 1}

LEMMA AppendListed ==
    ASSUME NEW S, NEW L \in Seq(S), NEW x \in S
    PROVE  /\ Append(L, x) \in Seq(S)
           /\ Len(Append(L, x)) = Len(L) + 1
           /\ Append(L, x)[Len(L) + 1] = x
           /\ Listed(Append(L, x)) = Listed(L) \union {x}
           /\ Front(Append(L, x)) = Listed(L)
<1>1. /\ Append(L, x) \in Seq(S) /\ Len(Append(L, x)) = Len(L) + 1
      /\ Append(L, x)[Len(L) + 1] = x
      /\ \A i \in 1 .. Len(L) : Append(L, x)[i] = L[i]
  OBVIOUS
<1>2. Len(L) \in Nat /\ 1 .. Len(L) + 1 = (1 .. Len(L)) \union {Len(L) + 1}
  OBVIOUS
<1>3. Front(Append(L, x)) = Listed(L)
  BY <1>1, <1>2 DEF Front, Listed
<1>4. Listed(Append(L, x)) = Listed(L) \union {x}
  BY <1>1, <1>2 DEF Listed
<1> QED BY <1>1, <1>3, <1>4

\* Popping the last routine leaves the others.
LEMMA PopListed ==
    ASSUME NEW S, NEW L \in Seq(S), Len(L) > 0
    PROVE  /\ SubSeq(L, 1, Len(L) - 1) \in Seq(S)
           /\ Listed(SubSeq(L, 1, Len(L) - 1)) = Front(L)
<1>1. Len(L) - 1 \in Nat /\ \A i \in 1 .. Len(L) - 1 : L[i] \in S
  OBVIOUS
<1> DEFINE n == Len(L) - 1
<1>3. /\ SubSeq(L, 1, n) \in Seq(S)
      /\ Len(SubSeq(L, 1, n)) = IF 1 <= n THEN n - 1 + 1 ELSE 0
      /\ \A i \in 1 .. n - 1 + 1 : SubSeq(L, 1, n)[i] = L[1 + i - 1]
  <2>1. n \in Int /\ 1 \in Int
    BY <1>1
  <2> HIDE DEF n
  <2>2. \A i \in 1 .. n : L[i] \in S
    BY <1>1 DEF n
  <2> QED BY <2>1, <2>2, SubSeqProperties
<1> QED BY <1>1, <1>3 DEF Front, Listed

\* The lines behind the search, and what it knows of them: in the loop of all,
\* during a run of all but the routine on trial.
Passed == {Funcs[lib][i] : i \in 1 .. idx - 1}
Sorted ==
    /\ Listed(approved_list) = Passed \ breaks[lib]
    /\ ignored_list = Passed \intersect breaks[lib]
OnTrial ==
    /\ Front(approved_list) = Passed \ breaks[lib]
    /\ ignored_list = Passed \intersect breaks[lib]

SearchInv ==
    /\ SearchTypeOK
    /\ continuing => /\ restart_func_name # NoName
                     /\ \A i \in 1 .. idx - 1 : Funcs[lib][i] # restart_func_name
    /\ phase = "running" =>
          /\ ~continuing /\ idx <= Len(Funcs[lib]) /\ Len(approved_list) > 0
          /\ approved_list[Len(approved_list)] = func
          /\ approved_file[lib] = approved_list
    /\ phase \in {"writing", "done"} =>
          idx = Len(Funcs[lib]) + 1 /\ approved_file[lib] = approved_list
    /\ phase = "done" => ignored_file[lib] = ignored_list
    /\ Justified /\ OthersSound =>
          /\ phase \in {"loop", "writing", "done"} => Sorted
          /\ phase = "running" => OnTrial

\* The lines of a list are routines.
LEMMA LinesNamed ==
    ASSUME NEW l \in Lib
    PROVE  Funcs[l] \in Seq(Names) /\ Len(Funcs[l]) \in Nat
BY SearchAssumption DEF SearchAssumption

LEMMA SearchInit == InitSearch => SearchInv
<1> SUFFICES ASSUME InitSearch PROVE SearchInv
  OBVIOUS
<1> USE SearchAssumption DEF SearchAssumption
<1>1. SearchTypeOK
  <2>1. LibC \in Lib /\ Len(Funcs[LibC]) \in Nat
    BY LinesNamed
  <2>2. approved_file \in [Lib -> Seq(Names)] /\ approved_list \in Seq(Names)
        /\ broke_at \in [Lib -> Names \union {NoName}]
    BY DEF InitSearch
  <2>3. \A l \in Lib : ignored_file[l] \in OldIgnored
    BY DEF InitSearch
  <2>4. \A l \in Lib : ignored_file[l] # NoFile => ignored_file[l] \subseteq Names
    BY <2>3
  <2>5. DOMAIN ignored_file = Lib
    BY DEF InitSearch
  <2>6. idx \in 1 .. Len(Funcs[lib]) + 1 /\ lib \in Lib
    BY <2>1 DEF InitSearch
  <2> QED BY <2>2, <2>4, <2>5, <2>6 DEF InitSearch, SearchTypeOK
<1> QED BY <1>1 DEF InitSearch, SearchInv

\* A new process knows nothing, and every line is still before it.
LEMMA BeginKeepsInv ==
    ASSUME SearchInv, NEW l \in Lib, NEW f \in Names \union {NoName}, Begin(l, f),
           prev_ignored' \subseteq Names
    PROVE  SearchInv'
<1>1. /\ lib' = l /\ idx' = 1 /\ phase' = "loop" /\ approved_list' = <<>>
      /\ ignored_list' = {} /\ restart_func_name' = f /\ continuing' = (f # NoName)
      /\ breaks' = breaks /\ approved_file' = approved_file /\ ignored_file' = ignored_file
      /\ broke_at' = [broke_at EXCEPT ![l] = NoName]
  BY DEF Begin, files
<1>2. SearchTypeOK'
  <2>1. Len(Funcs[l]) \in Nat
    BY LinesNamed
  <2> QED BY <1>1, <2>1 DEF SearchInv, SearchTypeOK
<1>3. Sorted'
  <2>1. 1 .. idx' - 1 = {}
    BY <1>1
  <2>2. Passed' = {}
    BY <2>1 DEF Passed
  <2>3. Listed(approved_list') = {}
    BY <1>1 DEF Listed
  <2> QED BY <1>1, <2>2, <2>3 DEF Sorted
<1>4. \A i \in 1 .. idx' - 1 : Funcs[lib'][i] # restart_func_name'
  BY <1>1
<1>5. phase' \notin {"running", "writing", "done"}
  BY <1>1
<1> QED BY <1>1, <1>2, <1>3, <1>4, <1>5 DEF SearchInv

LEMMA SkipKeepsInv ==
    ASSUME SearchInv, Skip
    PROVE  SearchInv'
<1>1. /\ lib \in Lib /\ Len(Funcs[lib]) \in Nat /\ Funcs[lib] \in Seq(Names)
      /\ idx \in 1 .. Len(Funcs[lib]) /\ func \in Names
  BY LinesNamed DEF SearchInv, SearchTypeOK, Skip, func
<1>2. /\ phase = "loop" /\ phase' = "loop" /\ idx' = idx + 1 /\ continuing /\ continuing'
      /\ func # restart_func_name /\ lib' = lib /\ breaks' = breaks
      /\ restart_func_name' = restart_func_name /\ prev_ignored' = prev_ignored
      /\ approved_file' = approved_file /\ ignored_file' = ignored_file
      /\ broke_at' = broke_at
  BY DEF Skip, args, files
<1>3. approved_list \in Seq(Names) /\ ignored_list \subseteq Names
  BY DEF SearchInv, SearchTypeOK
<1>4. approved_list' \in Seq(Names) /\ ignored_list' \subseteq Names
  <2>1. Append(approved_list, func) \in Seq(Names)
    BY <1>1, <1>3, AppendListed
  <2> QED BY <1>1, <1>3, <2>1 DEF Skip
<1>5. SearchTypeOK'
  BY <1>1, <1>2, <1>4 DEF SearchInv, SearchTypeOK
<1>6. \A i \in 1 .. idx' - 1 : Funcs[lib'][i] # restart_func_name'
  BY <1>1, <1>2 DEF SearchInv, func
<1>7. Passed' = Passed \union {func}
  BY <1>1, <1>2 DEF Passed, func
<1>8. ASSUME Justified', OthersSound' PROVE Sorted'
  <2>1. Justified /\ OthersSound
    BY <1>2, <1>8 DEF Justified, Skipped, OthersSound, Sound
  <2>2. idx \in Skipped /\ restart_func_name # NoName
    BY <1>1, <1>2 DEF Skipped, SearchInv, func
  <2>3. func \in breaks[lib] <=> func \in prev_ignored
    BY <2>1, <2>2 DEF Justified, func
  <2>4. Sorted
    BY <2>1, <1>2 DEF SearchInv
  <2>5. CASE func \in prev_ignored
    BY <1>2, <1>7, <2>3, <2>4, <2>5 DEF Skip, Sorted
  <2>6. CASE func \notin prev_ignored
    <3>1. approved_list' = Append(approved_list, func)
      BY <2>6 DEF Skip
    <3>2. Listed(approved_list') = Listed(approved_list) \union {func}
      BY <3>1, <1>1, <1>3, AppendListed
    <3> QED BY <1>2, <1>7, <2>3, <2>4, <2>6, <3>2 DEF Skip, Sorted
  <2> QED BY <2>5, <2>6
<1> QED BY <1>2, <1>5, <1>6, <1>8 DEF SearchInv

LEMMA TryKeepsInv ==
    ASSUME SearchInv, Try
    PROVE  SearchInv'
<1>1. /\ lib \in Lib /\ Len(Funcs[lib]) \in Nat /\ Funcs[lib] \in Seq(Names)
      /\ idx \in 1 .. Len(Funcs[lib]) /\ func \in Names
  BY LinesNamed DEF SearchInv, SearchTypeOK, Try, func
<1>2. /\ phase = "loop" /\ phase' = "running" /\ idx' = idx /\ continuing' = FALSE
      /\ lib' = lib /\ breaks' = breaks /\ ignored_list' = ignored_list
      /\ restart_func_name' = restart_func_name /\ prev_ignored' = prev_ignored
      /\ ignored_file' = ignored_file /\ approved_list' = Append(approved_list, func)
      /\ approved_file' = [approved_file EXCEPT ![lib] = approved_list']
      /\ broke_at' = broke_at
  BY DEF Try, args
<1>3. approved_list \in Seq(Names) /\ approved_file \in [Lib -> Seq(Names)]
  BY DEF SearchInv, SearchTypeOK
<1>4. /\ approved_list' \in Seq(Names) /\ Len(approved_list') = Len(approved_list) + 1
      /\ approved_list'[Len(approved_list')] = func'
      /\ Front(approved_list') = Listed(approved_list)
  BY <1>1, <1>2, <1>3, AppendListed DEF func
<1>5. approved_file' \in [Lib -> Seq(Names)] /\ approved_file'[lib'] = approved_list'
  BY <1>1, <1>2, <1>3, <1>4
<1>6. SearchTypeOK'
  BY <1>1, <1>2, <1>4, <1>5 DEF SearchInv, SearchTypeOK
<1>7. ASSUME Justified', OthersSound' PROVE OnTrial'
  <2>1. Justified
    BY <1>2, <1>7 DEF Justified, Skipped
  <2>2. OthersSound
    BY <1>2, <1>3, <1>7 DEF OthersSound, Sound
  <2> QED BY <1>2, <1>4, <2>1, <2>2 DEF SearchInv, Sorted, OnTrial, Passed
<1>8. Len(approved_list') > 0
  BY <1>3, <1>4
<1> QED BY <1>1, <1>2, <1>4, <1>5, <1>6, <1>7, <1>8 DEF SearchInv

\* If the lists of the other libraries are sound and the verdicts so far right,
\* only the routine on trial can make a run fail.
LEMMA FailsOnTrial ==
    ASSUME SearchInv, phase = "running", Justified, OthersSound
    PROVE  RunFails <=> func \in breaks[lib]
<1>1. /\ OnTrial /\ approved_file[lib] = approved_list /\ Len(approved_list) > 0
      /\ approved_list[Len(approved_list)] = func /\ approved_list \in Seq(Names)
      /\ lib \in Lib
  BY DEF SearchInv, SearchTypeOK
<1>2. Listed(approved_list) = Front(approved_list) \union {func}
  BY <1>1 DEF Listed, Front
<1>3. approved_list # <<>>
  BY <1>1
<1>4. RunFails <=> ~Sound(lib)
  BY <1>1 DEF RunFails, OthersSound
<1> QED BY <1>1, <1>2, <1>3, <1>4 DEF Sound, OnTrial

LEMMA RunEndsKeepsInv ==
    ASSUME SearchInv, RunEnds
    PROVE  SearchInv'
<1>1. /\ lib \in Lib /\ Len(Funcs[lib]) \in Nat /\ Funcs[lib] \in Seq(Names)
      /\ idx \in 1 .. Len(Funcs[lib]) /\ func \in Names
  BY LinesNamed DEF SearchInv, SearchTypeOK, RunEnds, RunEndsAs, func
<1>2. /\ phase = "running" /\ phase' = "loop" /\ idx' = idx + 1 /\ continuing' = continuing
      /\ lib' = lib /\ breaks' = breaks
      /\ restart_func_name' = restart_func_name /\ prev_ignored' = prev_ignored
      /\ ignored_file' = ignored_file /\ approved_file' = approved_file
      /\ broke_at' = broke_at
  BY DEF RunEnds, RunEndsAs, args, files
<1>3. /\ approved_list \in Seq(Names) /\ Len(approved_list) > 0
      /\ approved_list[Len(approved_list)] = func /\ approved_file[lib] = approved_list
      /\ ignored_list \subseteq Names
  BY <1>2 DEF SearchInv, SearchTypeOK
<1>4. Popped \in Seq(Names) /\ Listed(Popped) = Front(approved_list)
  BY <1>3, PopListed DEF Popped
<1>5. Listed(approved_list) = Front(approved_list) \union {func}
  BY <1>3 DEF Listed, Front
<1>6. \/ RunFails /\ approved_list' = Popped /\ ignored_list' = ignored_list \union {func}
      \/ ~RunFails /\ approved_list' = approved_list /\ ignored_list' = ignored_list
  BY DEF RunEnds, RunEndsAs
<1>7. SearchTypeOK'
  <2>1. approved_list' \in Seq(Names) /\ ignored_list' \subseteq Names
    BY <1>1, <1>3, <1>4, <1>6
  <2> QED BY <1>1, <1>2, <2>1 DEF SearchInv, SearchTypeOK
<1>8. ~continuing
  BY <1>2 DEF SearchInv
<1>9. Passed' = Passed \union {func}
  BY <1>1, <1>2 DEF Passed, func
<1>10. ASSUME Justified', OthersSound' PROVE Sorted'
  <2>1. Justified /\ OthersSound
    BY <1>2, <1>10 DEF Justified, Skipped, OthersSound, Sound
  <2>2. OnTrial
    BY <1>2, <2>1 DEF SearchInv
  <2>3. RunFails <=> func \in breaks[lib]
    BY <1>2, <2>1, FailsOnTrial
  <2> QED BY <1>2, <1>4, <1>5, <1>6, <1>9, <2>2, <2>3 DEF OnTrial, Sorted
<1> QED BY <1>2, <1>7, <1>8, <1>10 DEF SearchInv

LEMMA WritesKeepInv ==
    ASSUME SearchInv, WriteApproved \/ WriteIgnored
    PROVE  SearchInv'
<1>1. /\ lib \in Lib /\ Len(Funcs[lib]) \in Nat /\ idx \in 1 .. Len(Funcs[lib]) + 1
      /\ approved_list \in Seq(Names) /\ ignored_list \subseteq Names
      /\ approved_file \in [Lib -> Seq(Names)] /\ DOMAIN ignored_file = Lib
  BY LinesNamed DEF SearchInv, SearchTypeOK
<1>2. /\ lib' = lib /\ breaks' = breaks /\ idx' = idx /\ continuing' = continuing
      /\ restart_func_name' = restart_func_name /\ prev_ignored' = prev_ignored
      /\ approved_list' = approved_list /\ ignored_list' = ignored_list
      /\ broke_at' = broke_at
  BY DEF WriteApproved, WriteIgnored, args
<1>3. phase \in {"loop", "writing"} /\ phase' \in {"writing", "done"}
  BY DEF WriteApproved, WriteIgnored
<1>4. ASSUME Justified', OthersSound' PROVE Sorted'
  <2>1. Justified
    BY <1>2, <1>4 DEF Justified, Skipped
  <2>2. \A l \in Lib \ {lib} : approved_file'[l] = approved_file[l]
    BY <1>1 DEF WriteApproved, WriteIgnored
  <2>3. OthersSound
    BY <1>2, <1>4, <2>2 DEF OthersSound, Sound
  <2> QED BY <1>2, <1>3, <2>1, <2>3 DEF SearchInv, Sorted, Passed
<1>5. idx' = Len(Funcs[lib']) + 1 /\ approved_file'[lib'] = approved_list'
  BY <1>1, <1>2 DEF WriteApproved, WriteIgnored, SearchInv
<1>6. phase' = "done" => ignored_file'[lib'] = ignored_list'
  BY <1>1, <1>2 DEF WriteApproved, WriteIgnored
<1>7. /\ approved_file' \in [Lib -> Seq(Names)] /\ DOMAIN ignored_file' = Lib
      /\ \A l \in Lib : ignored_file'[l] # NoFile => ignored_file'[l] \subseteq Names
  BY <1>1 DEF WriteApproved, WriteIgnored, SearchInv, SearchTypeOK
<1>8. SearchTypeOK'
  BY <1>1, <1>2, <1>3, <1>7 DEF SearchInv, SearchTypeOK
<1> QED BY <1>2, <1>3, <1>4, <1>5, <1>6, <1>8 DEF SearchInv

\* What a killed process leaves behind are the files only.
LEMMA InterruptKeepsInv ==
    ASSUME SearchInv, Interrupt
    PROVE  SearchInv'
<1>1. /\ lib' = lib /\ breaks' = breaks /\ idx' = 1 /\ continuing' = FALSE
      /\ restart_func_name' = restart_func_name /\ prev_ignored' = prev_ignored
      /\ approved_list' = <<>> /\ ignored_list' = {} /\ phase' = "idle"
      /\ approved_file' = approved_file /\ ignored_file' = ignored_file
      /\ broke_at' = [broke_at EXCEPT ![lib] = IF idx <= Len(Funcs[lib]) THEN func ELSE NoName]
  BY DEF Interrupt, args, files
<1>2. lib \in Lib /\ Len(Funcs[lib]) \in Nat /\ Funcs[lib] \in Seq(Names)
      /\ idx \in 1 .. Len(Funcs[lib]) + 1
  BY LinesNamed DEF SearchInv, SearchTypeOK
<1>3. SearchTypeOK'
  <2>1. approved_list' \in Seq(Names) /\ ignored_list' \subseteq Names
    BY <1>1
  <2>2. lib' \in Lib /\ idx' \in 1 .. Len(Funcs[lib']) + 1
    BY <1>1, <1>2
  <2>3. idx <= Len(Funcs[lib]) => func \in Names
    BY <1>2 DEF func
  <2>4. broke_at' \in [Lib -> Names \union {NoName}]
    BY <1>1, <2>3 DEF SearchInv, SearchTypeOK
  <2> QED BY <1>1, <2>1, <2>2, <2>4 DEF SearchInv, SearchTypeOK
<1> QED BY <1>1, <1>3 DEF SearchInv

LEMMA SearchNext ==
    SearchInv /\ [NextSearch]_searchVars => SearchInv'
<1> SUFFICES ASSUME SearchInv, [NextSearch]_searchVars PROVE SearchInv'
  OBVIOUS
<1>1. ASSUME NEW l \in Lib, Start(l) PROVE SearchInv'
  <2>1. Begin(l, NoName) /\ prev_ignored' \subseteq Names
    BY <1>1 DEF Start
  <2> QED BY <2>1, BeginKeepsInv
<1>2. ASSUME NEW l \in Lib, Restart(l) PROVE SearchInv'
  <2>1. /\ Begin(l, broke_at[l]) /\ broke_at[l] \in Names
        /\ prev_ignored' = ignored_file[LibC] /\ ignored_file[LibC] # NoFile
    BY <1>2 DEF Restart, SearchInv, SearchTypeOK
  <2>2. prev_ignored' \subseteq Names
    BY <2>1, SearchAssumption DEF SearchAssumption, SearchInv, SearchTypeOK
  <2> QED BY <2>1, <2>2, BeginKeepsInv
<1>3. CASE Skip
  BY <1>3, SkipKeepsInv
<1>4. CASE Try
  BY <1>4, TryKeepsInv
<1>5. CASE RunEnds
  BY <1>5, RunEndsKeepsInv
<1>6. CASE WriteApproved \/ WriteIgnored
  BY <1>6, WritesKeepInv
<1>7. CASE Interrupt
  BY <1>7, InterruptKeepsInv
<1>8. CASE UNCHANGED searchVars
  BY <1>8 DEF searchVars, args, files, SearchInv, SearchTypeOK, Justified, Skipped, Sorted,
              OnTrial, Passed, func, OthersSound, Sound
<1> QED BY <1>1, <1>2, <1>3, <1>4, <1>5, <1>6, <1>7, <1>8 DEF NextSearch, Step

\* The lists and files are always made of names of the routine lists, and the
\* loop never leaves the list it reads.
THEOREM SearchTypeCorrect == SearchSpec => []SearchTypeOK
<1>1. SearchInv => SearchTypeOK
  BY DEF SearchInv
<1> QED BY <1>1, SearchInit, SearchNext, PTL DEF SearchSpec

\* However many searches were interrupted or restarted before, one that was
\* not restarted, or restarted on an ignored list that is right about what it
\* skips, approves exactly the routines that do not break the benchmark, if the
\* lists of the other libraries are sound.
THEOREM SearchCorrect == SearchSpec => []ResultExact
<1>1. ASSUME SearchInv PROVE ResultExact
  <2> SUFFICES ASSUME phase = "done", Justified, OthersSound
               PROVE  /\ Listed(approved_file[lib]) = Listed(Funcs[lib]) \ breaks[lib]
                      /\ ignored_file[lib] = Listed(Funcs[lib]) \intersect breaks[lib]
    BY DEF ResultExact
  <2>1. Sorted /\ idx = Len(Funcs[lib]) + 1
    BY <1>1 DEF SearchInv
  <2>2. approved_file[lib] = approved_list /\ ignored_file[lib] = ignored_list
    BY <1>1 DEF SearchInv
  <2>3. Len(Funcs[lib]) \in Nat
    BY <1>1, LinesNamed DEF SearchInv, SearchTypeOK
  <2>4. Passed = Listed(Funcs[lib])
    BY <2>1, <2>3 DEF Passed, Listed
  <2> QED BY <2>1, <2>2, <2>4 DEF Sorted
<1> QED BY <1>1, SearchInit, SearchNext, PTL DEF SearchSpec

\* During such a search a run fails exactly if the routine on trial breaks it,
\* although it reads every line approved before and the lists of all libraries.
THEOREM BlameCorrect == SearchSpec => []BlamesTheNewest
<1>1. ASSUME SearchInv PROVE BlamesTheNewest
  BY <1>1, FailsOnTrial DEF BlamesTheNewest
<1> QED BY <1>1, SearchInit, SearchNext, PTL DEF SearchSpec
================================================================================
