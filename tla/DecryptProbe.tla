----------------------------- MODULE DecryptProbe ------------------------------
(***************************************************************************)
(* The Pin probe tool, replace_probed/decrypt_probe.cpp, one action per    *)
(* callback: the image-load callback (one step per approved-list entry),   *)
(* the probe at the head of every instrumented routine (probe_copy), and   *)
(* the replacement of blankit_predict. The program around it is a stack of *)
(* frames. Addresses are identified with routines; a body is CODE or ZERO. *)
(* mprotect is left to ProbeSteps and PageRemap.                           *)
(***************************************************************************)
EXTENDS Integers, Sequences

CONSTANTS
    Rtn,          \* routines of the libraries, standing for their addresses
    Name,         \* symbol names
    Image,        \* libraries ImageLoad has an approved list for
    NoRtn, NoImage, App,
    ImageOf,      \* [Rtn -> Image]
    RtnName,      \* [Rtn -> Name], Pin's RTN_Name
    RtnSize,      \* [Rtn -> Nat], Pin's RTN_Size
    FindByName,   \* [Image -> [Name -> Rtn \union {NoRtn}]], Pin's RTN_FindByName
    Safe,         \* routines Pin declares safe for probed insertion
    Reprobe,      \* whether Pin still does so once a routine has a probe
    Approved,     \* [Image -> Seq(Name)], the approved-list files
    PredSets,     \* prediction index -> set of names (vector pred_sets)
    Lazy,         \* environment variable BLANKIT_LAZY
    Audit,        \* compiled with BLANKIT_AUDIT
    SingleCall,   \* compiled with BLANKIT_SINGLE_CALL_LOADING
    Callbacks,    \* whether library routines call back into the application
    MaxDepth      \* bound on the frames on the stack

CODE == "code"
ZERO == "zero"
NONE == "none"
MAGIC_OFFSET == 14     \* "A probe may be up to 14 bytes long"

PredIdx == DOMAIN PredSets

ASSUME ConstantsAssumption ==
    /\ NoRtn \notin Rtn /\ App \notin Rtn /\ NoImage \notin Image
    /\ ImageOf \in [Rtn -> Image]
    /\ RtnName \in [Rtn -> Name]
    /\ RtnSize \in [Rtn -> Nat]
    /\ FindByName \in [Image -> [Name -> Rtn \union {NoRtn}]]
    /\ \A img \in Image, n \in Name :
          FindByName[img][n] # NoRtn => ImageOf[FindByName[img][n]] = img
    /\ Safe \subseteq Rtn
    /\ Approved \in [Image -> Seq(Name)]
    /\ PredSets \in [PredIdx -> SUBSET Name]
    /\ PredIdx \subseteq Nat /\ 0 \in PredIdx
    /\ {Reprobe, Lazy, Audit, SingleCall, Callbacks} \subseteq BOOLEAN
    /\ MaxDepth \in Nat

VARIABLES
    text,              \* body of each routine past its first MAGIC_OFFSET bytes
    probes,            \* bodies saved in the copies bound to the probes of a routine
    addr_to_copy,      \* body saved in addr_to_copy[addr], NONE if no entry
    name_to_addr,      \* name_to_addr_and_size, NoRtn if no entry
    copied_funcs,
    pred_set_idx,
    old_pred_set_idx,
    blank_state,
    entry_lib_func,    \* *entry_lib_func_p
    loaded,            \* images whose load callback has returned
    loading, pos,      \* the image in image_load and the index of its loop
    stack              \* frames: routines and, for callbacks, App

\* History of the run that no variable of the tool keeps.
VARIABLES
    entered,           \* probed routines entered since the text was last blanked
    first,             \* the first of them since the last prediction, or NoRtn
    stale              \* frames 1..stale were on the stack when it was blanked

mapVars   == <<probes, addr_to_copy, name_to_addr>>
predVars  == <<pred_set_idx, old_pred_set_idx>>
auditVars == <<blank_state, entry_lib_func>>
loadVars  == <<loaded, loading, pos>>
history   == <<entered, first, stale>>
vars == <<text, mapVars, copied_funcs, predVars, auditVars, loadVars, stack, history>>

Init ==
    /\ text = [r \in Rtn |-> CODE]
    /\ probes = [r \in Rtn |-> {}]
    /\ addr_to_copy = [r \in Rtn |-> NONE]
    /\ name_to_addr = [n \in Name |-> NoRtn]
    /\ copied_funcs = {}
    /\ pred_set_idx = 0 /\ old_pred_set_idx = 0
    /\ blank_state = "INACTIVE" /\ entry_lib_func = NoRtn
    /\ loaded = {} /\ loading = NoImage /\ pos = 1
    /\ stack = <<>>
    /\ entered = {} /\ first = NoRtn /\ stale = 0

Probed == {r \in Rtn : probes[r] # {}}
Predicted(r) == RtnName[r] \in PredSets[pred_set_idx]

(***************************************************************************)
(* Loading an image. The application waits until ImageLoad has returned.   *)
(***************************************************************************)
ImageLoad(img) ==
    /\ loading = NoImage /\ img \notin loaded
    /\ loading' = img /\ pos' = 1
    /\ UNCHANGED <<text, mapVars, copied_funcs, predVars, auditVars, loaded, stack, history>>

\* FindAndCheckRtn and the size check of image_load
CanProbe(r) ==
    /\ r \in Safe
    /\ Reprobe \/ probes[r] = {}
    /\ RtnSize[r] - MAGIC_OFFSET >= 1

ListedRtn == FindByName[loading][Approved[loading][pos]]

SkipListed ==
    /\ loading # NoImage /\ pos <= Len(Approved[loading])
    /\ ListedRtn = NoRtn \/ ~CanProbe(ListedRtn)
    /\ pos' = pos + 1
    /\ UNCHANGED <<text, mapVars, copied_funcs, predVars, auditVars, loaded, loading,
                   stack, history>>

\* Faulty variants of Instrument: blanked before saved; name not recorded.
InstrumentBlankFirst(r) ==
    /\ addr_to_copy' = [addr_to_copy EXCEPT ![r] = ZERO]
    /\ name_to_addr' = [name_to_addr EXCEPT ![RtnName[r]] = r]
    /\ text' = [text EXCEPT ![r] = ZERO]
    /\ probes' = [probes EXCEPT ![r] = @ \union {ZERO}]

InstrumentNoName(r) ==
    /\ addr_to_copy' = [addr_to_copy EXCEPT ![r] = text[r]]
    /\ text' = [text EXCEPT ![r] = ZERO]
    /\ probes' = [probes EXCEPT ![r] = @ \union {text[r]}]
    /\ UNCHANGED name_to_addr

\* Save the body, blank it, and insert the probe with the new copy.
Instrument(r) ==
    /\ addr_to_copy' = [addr_to_copy EXCEPT ![r] = text[r]]
    /\ name_to_addr' = [name_to_addr EXCEPT ![RtnName[r]] = r]
    /\ text' = [text EXCEPT ![r] = ZERO]
    /\ probes' = [probes EXCEPT ![r] = @ \union {text[r]}]

ProbeListed ==
    /\ loading # NoImage /\ pos <= Len(Approved[loading])
    /\ ListedRtn # NoRtn
    /\ CanProbe(ListedRtn)
    /\ Instrument(ListedRtn)
    /\ pos' = pos + 1
    /\ UNCHANGED <<copied_funcs, predVars, auditVars, loaded, loading, stack, history>>

ImageLoaded ==
    /\ loading # NoImage /\ pos > Len(Approved[loading])
    /\ loaded' = loaded \union {loading} /\ loading' = NoImage
    /\ UNCHANGED <<text, mapVars, copied_funcs, predVars, auditVars, pos, stack, history>>

(***************************************************************************)
(* The running program. A frame whose body is ZERO cannot run on.          *)
(***************************************************************************)
Top == IF stack = <<>> THEN App ELSE stack[Len(stack)]
InApp == Top = App
InLib == ~InApp /\ text[Top] = CODE
Running == loading = NoImage /\ (InApp \/ InLib)

Call(r) ==
    /\ Running /\ Len(stack) < MaxDepth
    /\ ImageOf[r] \in loaded
    /\ stack' = Append(stack, r)
    /\ UNCHANGED <<mapVars, predVars, loadVars, stale>>

\* The first audit block of probe_copy: the entry into the library.
AuditEntry(r) ==
    IF Audit /\ blank_state = "INACTIVE"
    THEN blank_state' = "ACTIVE" /\ entry_lib_func' = r
    ELSE UNCHANGED auditVars

Enters(r) == /\ entered' = entered \union {r}
             /\ first' = IF first = NoRtn THEN r ELSE first

CallUnprobed(r) ==
    /\ Call(r)
    /\ probes[r] = {}
    /\ UNCHANGED <<text, copied_funcs, auditVars, entered, first>>

\* "Optimization: don't copy what's already there"
CallCopied(r) ==
    /\ Call(r)
    /\ probes[r] # {} /\ r \in copied_funcs
    /\ AuditEntry(r) /\ Enters(r)
    /\ UNCHANGED <<text, copied_funcs>>

\* Faulty variant: the copy is not recorded in copied_funcs.
ProbeCopyAuxUnrecorded(rs, copy) ==
    /\ text' = [r \in Rtn |-> IF r \in rs THEN copy[r] ELSE text[r]]
    /\ copied_funcs' = copied_funcs

\* probe_copy_aux for every routine of rs
ProbeCopyAux(rs, copy) ==
    /\ text' = [r \in Rtn |-> IF r \in rs THEN copy[r] ELSE text[r]]
    /\ copied_funcs' = copied_funcs \union rs

\* Faulty variant: names without an entry are not skipped.
ChainUnchecked == {name_to_addr[n] : n \in PredSets[pred_set_idx]}

\* The addresses the names of the current prediction set are known at.
Chain == {name_to_addr[n] : n \in PredSets[pred_set_idx]} \ {NoRtn}

\* SingleCall: only the address known under this routine's name.
Wanted(r) == IF SingleCall THEN {name_to_addr[RtnName[r]]} ELSE Chain

CallPredicted(r) ==
    /\ Call(r)
    /\ probes[r] # {} /\ r \notin copied_funcs
    /\ Predicted(r)
    /\ AuditEntry(r) /\ Enters(r)
    /\ ProbeCopyAux(Wanted(r), addr_to_copy)

\* The copy written is the probe's own argument; of several probes at one
\* routine the first that Pin runs decides, the others return early.
CallMispredicted(r) ==
    /\ Call(r)
    /\ probes[r] # {} /\ r \notin copied_funcs
    /\ ~Predicted(r)
    /\ IF Audit /\ blank_state \in {"INACTIVE", "ACTIVE"}
       THEN /\ blank_state' = "MISPREDICTED"
            /\ entry_lib_func' = IF blank_state = "INACTIVE" THEN r ELSE entry_lib_func
       ELSE UNCHANGED auditVars
    /\ Enters(r)
    /\ \E body \in probes[r] : ProbeCopyAux({r}, [x \in {r} |-> body])

\* A library routine such as qsort calls a function of the application.
Callback ==
    /\ Callbacks
    /\ Running /\ InLib /\ Len(stack) < MaxDepth
    /\ stack' = Append(stack, App)
    /\ UNCHANGED <<text, mapVars, copied_funcs, predVars, auditVars, loadVars, history>>

Return ==
    /\ Running /\ stack # <<>>
    /\ stack' = SubSeq(stack, 1, Len(stack) - 1)
    /\ stale' = IF stale = Len(stack) THEN stale - 1 ELSE stale
    /\ UNCHANGED <<text, mapVars, copied_funcs, predVars, auditVars, loadVars, entered, first>>

(***************************************************************************)
(* The call embedDtree inserts in front of library calls of the program.   *)
(***************************************************************************)
\* Faulty variants: copied_funcs is not cleared; the memset is missing.
ProbeBlankAuxNoClear ==
    /\ text' = [r \in Rtn |-> IF r \in copied_funcs THEN ZERO ELSE text[r]]
    /\ copied_funcs' = copied_funcs
    /\ entered' = {}
    /\ stale' = Len(stack)

ProbeBlankAuxNoMemset ==
    /\ text' = text
    /\ copied_funcs' = {}
    /\ entered' = {}
    /\ stale' = Len(stack)

ProbeBlankAux ==
    /\ text' = [r \in Rtn |-> IF r \in copied_funcs THEN ZERO ELSE text[r]]
    /\ copied_funcs' = {}
    /\ entered' = {}
    /\ stale' = Len(stack)

PredictEager(idx) ==
    /\ ~Lazy
    /\ Running /\ InApp
    /\ ProbeBlankAux
    /\ pred_set_idx' = idx
    /\ first' = NoRtn
    /\ UNCHANGED <<mapVars, old_pred_set_idx, auditVars, loadVars, stack>>

\* Faulty variants: compared with the prediction before last; state not reset.
PredictLazyStaleOld(idx) ==
    /\ Lazy
    /\ Running /\ InApp
    /\ old_pred_set_idx' = pred_set_idx
    /\ pred_set_idx' = idx
    /\ blank_state' = "INACTIVE"
    /\ IF old_pred_set_idx # pred_set_idx'
       THEN ProbeBlankAux
       ELSE UNCHANGED <<text, copied_funcs, entered, stale>>
    /\ first' = NoRtn
    /\ UNCHANGED <<mapVars, entry_lib_func, loadVars, stack>>

PredictLazyNoReset(idx) ==
    /\ Lazy
    /\ Running /\ InApp
    /\ old_pred_set_idx' = pred_set_idx
    /\ pred_set_idx' = idx
    /\ IF old_pred_set_idx' # pred_set_idx'
       THEN ProbeBlankAux
       ELSE UNCHANGED <<text, copied_funcs, entered, stale>>
    /\ first' = NoRtn
    /\ UNCHANGED <<mapVars, auditVars, loadVars, stack>>

PredictLazy(idx) ==
    /\ Lazy
    /\ Running /\ InApp
    /\ old_pred_set_idx' = pred_set_idx
    /\ pred_set_idx' = idx
    /\ blank_state' = "INACTIVE"
    /\ IF old_pred_set_idx' # pred_set_idx'
       THEN ProbeBlankAux
       ELSE UNCHANGED <<text, copied_funcs, entered, stale>>
    /\ first' = NoRtn
    /\ UNCHANGED <<mapVars, entry_lib_func, loadVars, stack>>

Load == \/ \E img \in Image : ImageLoad(img)
        \/ SkipListed
        \/ ProbeListed
        \/ ImageLoaded

Enter(r) == \/ CallUnprobed(r)
            \/ CallCopied(r)
            \/ CallPredicted(r)
            \/ CallMispredicted(r)

Predict(idx) == PredictEager(idx) \/ PredictLazy(idx)

Next == \/ Load
        \/ \E r \in Rtn : Enter(r)
        \/ Callback
        \/ Return
        \/ \E idx \in PredIdx : Predict(idx)

Spec == Init /\ [][Next]_vars
--------------------------------------------------------------------------------
(***************************************************************************)
(* Environment conditions some properties need.                            *)
(***************************************************************************)

\* No approved list leads to the same routine twice, or Pin refuses to probe
\* a routine again. Several lists of the repository name a routine twice.
CleanLists ==
    \/ ~Reprobe
    \/ \A img \in Image : \A i, j \in DOMAIN Approved[img] :
         /\ FindByName[img][Approved[img][i]] = FindByName[img][Approved[img][j]]
         /\ FindByName[img][Approved[img][i]] # NoRtn
         => i = j

\* The routines some name leads to, and whether no two of them have one name.
Findable == {FindByName[img][n] : img \in Image, n \in Name} \ {NoRtn}
UniqueNames == \A r, s \in Findable : RtnName[r] = RtnName[s] => r = s

(***************************************************************************)
(* Properties.                                                             *)
(***************************************************************************)

\* The type of every variable.
TypeOK ==
    /\ text \in [Rtn -> {CODE, ZERO}]
    /\ probes \in [Rtn -> SUBSET {CODE, ZERO}]
    /\ addr_to_copy \in [Rtn -> {CODE, ZERO, NONE}]
    /\ name_to_addr \in [Name -> Rtn \union {NoRtn}]
    /\ copied_funcs \subseteq Rtn
    /\ pred_set_idx \in PredIdx /\ old_pred_set_idx \in PredIdx
    /\ blank_state \in {"INACTIVE", "ACTIVE", "MISPREDICTED", "DONE"}
    /\ entry_lib_func \in Rtn \union {NoRtn}
    /\ loaded \subseteq Image
    /\ loading \in Image \union {NoImage}
    /\ pos \in Nat
    /\ stack \in Seq(Rtn \union {App})
    /\ entered \subseteq Rtn
    /\ first \in Rtn \union {NoRtn}
    /\ stale \in 0..Len(stack)

\* Every copy saved by image_load, whichever path reads it, is the routine's
\* own code and never a body that was blanked already. Needs CleanLists.
CopiesIntact ==
    \A r \in Probed : addr_to_copy[r] = CODE /\ probes[r] = {CODE}

\* copied_funcs is exactly the set of probed routines whose bodies are in
\* memory: probe_copy may trust it to skip a copy, and probe_blank_aux, which
\* blanks nothing else, leaves no body behind.
CopiedExactlyLive ==
    copied_funcs = {r \in Probed : text[r] = CODE}

\* What is in memory is there because the current prediction names it or
\* because it was entered since the text was last blanked: no body outlives
\* the prediction that brought it in.
LiveJustified ==
    \A r \in copied_funcs : r \in entered \/ Predicted(r)

\* Every library frame pushed since the last blanking has its body in place,
\* through nested calls, callbacks and images loaded meanwhile. Needs
\* UniqueNames and CleanLists. A callback that predicts blanks the frames
\* below it: those are the ones it leaves out.
FreshFramesLive ==
    \A i \in stale + 1 .. Len(stack) : stack[i] # App => text[stack[i]] = CODE

(***************************************************************************)
(* The strengthening that makes these inductive, for DecryptProbeProofs.   *)
(***************************************************************************)

\* Pin's routine for entry i of the list of img.
ListedAt(img, i) == FindByName[img][Approved[img][i]]

\* A body changes hands only through a probe.
UnprobedUntouched == \A r \in Rtn \ Probed : text[r] = CODE

\* The name map leads from every probed routine's name to a probed routine of
\* that name, and from no other name to any.
NamesKnown ==
    /\ \A n \in Name : name_to_addr[n] # NoRtn =>
          name_to_addr[n] \in Probed /\ RtnName[name_to_addr[n]] = n
    /\ \A r \in Probed : name_to_addr[RtnName[r]] # NoRtn

\* A probed routine was found by name, and belongs to an image that is loaded
\* or was reached by an earlier entry of the list being processed.
ProbedWereListed ==
    /\ loading \notin loaded
    /\ pos >= 1
    /\ Probed \subseteq Findable
    /\ \A r \in Probed :
          \/ ImageOf[r] \in loaded
          \/ /\ loading # NoImage
             /\ \E i \in DOMAIN Approved[loading] : i < pos /\ ListedAt(loading, i) = r

\* The inductive invariant: the tool's bookkeeping agrees with the text.
BookkeepingInv ==
    /\ TypeOK
    /\ UnprobedUntouched
    /\ CopiesIntact
    /\ CopiedExactlyLive
    /\ NamesKnown
    /\ ProbedWereListed

\* Frames belong to loaded images, and names lead back to their routines: what
\* FreshFramesLive needs besides.
FramesInv ==
    /\ \A i \in DOMAIN stack : stack[i] # App => ImageOf[stack[i]] \in loaded
    /\ \A r \in Probed : name_to_addr[RtnName[r]] = r
    /\ FreshFramesLive

\* Without callbacks the program never reaches a blanked body: neither a
\* frame returned to nor one just entered is ZERO, whatever is predicted and
\* whenever an image is loaded. Needs ~Callbacks, UniqueNames and CleanLists.
NeverRunsZeros == InApp \/ InLib

\* The single-call build keeps less in memory than the prediction allows: only
\* routines that were entered since the last blanking. Needs UniqueNames.
OnlyEnteredLive == copied_funcs \subseteq entered

\* The audit log attributes a mispredict to the routine through which the
\* program first entered the library after the latest blankit_predict, and
\* the state is inactive until then. Needs Lazy: probe_blankit_predict does
\* not reset blank_state.
AuditNamesFirstEntry ==
    /\ blank_state = "INACTIVE" <=> first = NoRtn
    /\ first # NoRtn => entry_lib_func = first

\* The tool as an implementation of the promise of Debloat.
Live == {r \in Probed : text[r] = CODE}
Promise == INSTANCE Debloat WITH
    Routines <- Rtn, managed <- Probed, live <- Live,
    chain <- {r \in Rtn : Predicted(r)}

\* Every step of the tool is a step of Debloat: bodies appear only when they
\* are entered or predicted, an entered routine is present, and bodies go
\* away only all together, at a prediction. Needs UniqueNames and CleanLists.
KeepsPromise == Promise!AbsSpec

\* "Copy just this function into place." (the comment of the single-call
\* branch): the function written is the one whose probe is running.
CopiesThisFunction ==
    [][\A r \in Rtn : CallPredicted(r) => text'[r] = CODE]_vars
================================================================================
