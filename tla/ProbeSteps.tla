------------------------------ MODULE ProbeSteps -------------------------------
(***************************************************************************)
(* probe_copy and probe_blankit_predict(_lazy) of decrypt_probe.cpp step   *)
(* by step, with page permissions: for each routine of its list a handler  *)
(* makes pages writable, writes the body, records it and seals the pages.  *)
(* Several threads may be inside the probes; the tool has no lock. All     *)
(* routines are loaded, each known under one name; calls do not nest (see  *)
(* DecryptProbe for loading, names, nesting and callbacks). An operation   *)
(* of a map or a set is one step, a loop over one is not.                  *)
(***************************************************************************)
EXTENDS PageRemap

CONSTANTS
    Rtn, Thread, NoRtn,
    Addr, RtnSize,       \* [Rtn -> Nat]
    PredSets,            \* prediction index -> set of routines
    Denied,              \* <<routine, permission>>: remaps mprotect may refuse
    Lazy,
    Predictor,           \* the threads whose calls have a blankit_predict
    Quiet                \* environment: a thread predicts only while no other
                         \* thread is in a library or in a probe

CODE == "code"
ZERO == "zero"
RX == "RX"
RWX == "RWX"

size_cp(r) == SizeCp(RtnSize[r])
Remapped(r) == RemapPages(Addr[r], size_cp(r))
Written(r) == BodyPages(Addr[r], size_cp(r))
Page == UNION {Remapped(r) \union Written(r) : r \in Rtn}
PredIdx == DOMAIN PredSets

ASSUME StepsAssumption ==
    /\ NoRtn \notin Rtn /\ Thread # {}
    /\ Addr \in [Rtn -> Nat] /\ RtnSize \in [Rtn -> Nat]
    /\ \A r \in Rtn : size_cp(r) >= 1
    /\ PredSets \in [PredIdx -> SUBSET Rtn] /\ 0 \in PredIdx
    /\ Denied \subseteq Rtn \X {RX, RWX}
    /\ {Lazy, Quiet} \subseteq BOOLEAN /\ Predictor \subseteq Thread
    /\ Quiet \/ \A t, u \in Predictor : t = u

VARIABLES
    text, copied_funcs, pred_set_idx, old_pred_set_idx,
    perm,        \* permission of each page
    last,        \* history: the thread whose mprotect last changed the page
    leaked,      \* history: pages whose last remap was a refused seal
    refused,     \* history: threads whose last unseal was refused
    at,          \* where each thread is
    todo,        \* the routines its handler has left
    from,        \* the index of the set its iterator is into, if it has one
    cur,         \* the routine it is working on
    arg,         \* its predict_idx, in probe_blankit_predict
    running,     \* the routine whose probe, then body, the thread runs
    fault        \* the thread that got a SIGSEGV

permVars == <<perm, last, leaked, refused>>
idxVars == <<pred_set_idx, old_pred_set_idx>>
vars == <<text, copied_funcs, idxVars, permVars, at, todo, from, cur, arg, running, fault>>

\* "app" and "lib" are outside the handlers. At the open points a handler has
\* remapped cur and not yet closed it.
OpenPoints == {"copy_write", "copy_record", "copy_seal", "blank_write", "blank_seal"}
CopyPoints == {"copy_find", "copy_hit", "copy_begin", "copy_next",
               "copy_write", "copy_record", "copy_seal"}
LoopPoints == {"blank_unseal", "blank_write", "blank_seal"}
BlankPoints == LoopPoints \union {"blank_begin", "blank_clear"}
PredictPoints == BlankPoints \union {"predict_set"}

Init ==
    /\ text = [r \in Rtn |-> ZERO]
    /\ copied_funcs = {}
    /\ pred_set_idx = 0 /\ old_pred_set_idx = 0
    /\ perm = [p \in Page |-> RX]
    /\ last = [p \in Page |-> {}]
    /\ leaked = {} /\ refused = {}
    /\ at = [t \in Thread |-> "app"]
    /\ todo = [t \in Thread |-> {}]
    /\ from = [t \in Thread |-> {}]
    /\ cur = [t \in Thread |-> NoRtn]
    /\ arg = [t \in Thread |-> 0]
    /\ running = [t \in Thread |-> NoRtn]
    /\ fault = {}

\* Thread t takes a step of its own; none does after a SIGSEGV.
Step(t, here, there) ==
    /\ fault = {} /\ at[t] = here
    /\ at' = [at EXCEPT ![t] = there]

\* remap_permissions for routine r: a refusal of mprotect is only printed.
SetPerm(t, r, p) ==
    \/ /\ perm' = [q \in Page |-> IF q \in Remapped(r) THEN p ELSE perm[q]]
       /\ last' = [q \in Page |-> IF q \in Remapped(r) THEN {t} ELSE last[q]]
       /\ leaked' = leaked \ Remapped(r)
       /\ refused' = refused \ {t}
    \/ /\ <<r, p>> \in Denied
       /\ leaked' = IF p = RX THEN leaked \union Remapped(r) ELSE leaked
       /\ refused' = IF p = RWX THEN refused \union {t} ELSE refused \ {t}
       /\ UNCHANGED <<perm, last>>

\* remap_permissions for the routine worked on, and the loop's ++it.
Seal(t) ==
    /\ SetPerm(t, cur[t], RX)
    /\ todo' = [todo EXCEPT ![t] = @ \ {cur[t]}]
    /\ cur' = [cur EXCEPT ![t] = NoRtn]

\* A memcpy or memset of the whole body.
WriteBody(t, body) ==
    /\ \A p \in Written(cur[t]) : perm[p] = RWX
    /\ text' = [text EXCEPT ![cur[t]] = body]

(***************************************************************************)
(* probe_copy                                                              *)
(***************************************************************************)
Enter(t, r) ==
    /\ Step(t, "app", IF r \in copied_funcs THEN "lib" ELSE "copy_find")
    /\ Quiet => \A u \in Thread : at[u] \notin PredictPoints
    /\ running' = [running EXCEPT ![t] = r]
    /\ UNCHANGED <<text, copied_funcs, idxVars, permVars, todo, from, cur, arg, fault>>

\* pred_sets[pred_set_idx].find(name), and its comparison with the end() of
\* pred_sets[pred_set_idx], which by now may be another set: another end.
CopyFind(t) ==
    /\ Step(t, "copy_find", "copy_hit")
    /\ from' = [from EXCEPT ![t] = {pred_set_idx}]
    /\ UNCHANGED <<text, copied_funcs, idxVars, permVars, todo, cur, arg, running, fault>>

CopyHit(t) ==
    /\ \/ /\ \E i \in from[t] : running[t] \in PredSets[i] \/ i # pred_set_idx
          /\ Step(t, "copy_hit", "copy_begin")
          /\ UNCHANGED todo
       \/ /\ \A i \in from[t] : running[t] \notin PredSets[i] /\ i = pred_set_idx
          /\ Step(t, "copy_hit", "copy_next")
          /\ todo' = [todo EXCEPT ![t] = {running[t]}]
    /\ from' = [from EXCEPT ![t] = {}]
    /\ UNCHANGED <<text, copied_funcs, idxVars, permVars, cur, arg, running, fault>>

CopyBegin(t) ==
    /\ Step(t, "copy_begin", "copy_next")
    /\ from' = [from EXCEPT ![t] = {pred_set_idx}]
    /\ todo' = [todo EXCEPT ![t] = PredSets[pred_set_idx]]
    /\ UNCHANGED <<text, copied_funcs, idxVars, permVars, cur, arg, running, fault>>

\* Faulty variant: the routine is recorded before its body is written.
CopyNextRecords(t) ==
    /\ Step(t, "copy_next", "copy_write")
    /\ \E r \in todo[t] :
         /\ cur' = [cur EXCEPT ![t] = r]
         /\ copied_funcs' = copied_funcs \union {r}
         /\ SetPerm(t, r, RWX)
    /\ UNCHANGED <<text, idxVars, todo, from, arg, running, fault>>

CopyNext(t) ==
    /\ Step(t, "copy_next", "copy_write")
    /\ \E r \in todo[t] :
         /\ cur' = [cur EXCEPT ![t] = r]
         /\ SetPerm(t, r, RWX)
    /\ UNCHANGED <<text, copied_funcs, idxVars, todo, from, arg, running, fault>>

\* The loop compares its iterator with the end() of the set chosen by
\* pred_set_idx now. If that is another set than the one it walks, it runs past
\* the end: it crashes, or comes by elements of the set again.
AtEnd(t) == todo[t] = {} /\ from[t] \subseteq {pred_set_idx}
PastEnd(t) == at[t] = "copy_next" /\ todo[t] = {} /\ ~(from[t] \subseteq {pred_set_idx})

CopyEnd(t) ==
    /\ AtEnd(t)
    /\ Step(t, "copy_next", "lib")
    /\ from' = [from EXCEPT ![t] = {}]
    /\ UNCHANGED <<text, copied_funcs, idxVars, permVars, todo, cur, arg, running, fault>>

CopyRunsOn(t) ==
    /\ PastEnd(t) /\ fault = {}
    /\ \/ fault' = {t} /\ UNCHANGED todo
       \/ /\ \E i \in from[t] : \E again \in SUBSET PredSets[i] :
                todo' = [todo EXCEPT ![t] = again]
          /\ UNCHANGED fault
    /\ UNCHANGED <<text, copied_funcs, idxVars, permVars, at, from, cur, arg, running>>

CopyWrite(t) ==
    /\ Step(t, "copy_write", "copy_record")
    /\ WriteBody(t, CODE)
    /\ UNCHANGED <<copied_funcs, idxVars, permVars, todo, from, cur, arg, running, fault>>

\* The iterator of a blanking loop may come by an entry inserted meanwhile.
CopyRecord(t) ==
    /\ Step(t, "copy_record", "copy_seal")
    /\ copied_funcs' = copied_funcs \union {cur[t]}
    /\ \E seen \in SUBSET {u \in Thread : at[u] \in LoopPoints /\ cur[t] \notin copied_funcs} :
          todo' = [u \in Thread |-> IF u \in seen THEN todo[u] \union {cur[t]} ELSE todo[u]]
    /\ UNCHANGED <<text, idxVars, permVars, from, cur, arg, running, fault>>

\* Faulty variants: the pages stay writable; the loop does not advance.
CopySealOpen(t) ==
    /\ Step(t, "copy_seal", "copy_next")
    /\ todo' = [todo EXCEPT ![t] = @ \ {cur[t]}]
    /\ cur' = [cur EXCEPT ![t] = NoRtn]
    /\ UNCHANGED <<text, copied_funcs, idxVars, permVars, from, arg, running, fault>>

CopySealStuck(t) ==
    /\ Step(t, "copy_seal", "copy_next")
    /\ SetPerm(t, cur[t], RX)
    /\ cur' = [cur EXCEPT ![t] = NoRtn]
    /\ UNCHANGED <<text, copied_funcs, idxVars, todo, from, arg, running, fault>>

CopySeal(t) ==
    /\ Step(t, "copy_seal", "copy_next")
    /\ Seal(t)
    /\ UNCHANGED <<text, copied_funcs, idxVars, from, arg, running, fault>>

\* The routine returns. One that is blank does not get that far.
Leave(t) ==
    /\ Step(t, "lib", "app")
    /\ text[running[t]] = CODE
    /\ running' = [running EXCEPT ![t] = NoRtn]
    /\ UNCHANGED <<text, copied_funcs, idxVars, permVars, todo, from, cur, arg, fault>>

(***************************************************************************)
(* probe_blankit_predict and probe_blankit_predict_lazy                    *)
(***************************************************************************)
MayPredict(t) ==
    /\ t \in Predictor
    /\ Quiet => \A u \in Thread \ {t} : at[u] = "app"

\* The lazy replacement sets pred_set_idx first and blanks if it changed.
PredictLazy(t, idx) ==
    /\ Lazy /\ MayPredict(t)
    /\ Step(t, "app", IF idx # pred_set_idx THEN "blank_begin" ELSE "app")
    /\ old_pred_set_idx' = pred_set_idx
    /\ pred_set_idx' = idx
    /\ UNCHANGED <<text, copied_funcs, permVars, todo, from, cur, arg, running, fault>>

\* The other one blanks first and sets it last.
PredictEager(t, idx) ==
    /\ ~Lazy /\ MayPredict(t)
    /\ Step(t, "app", "blank_begin")
    /\ arg' = [arg EXCEPT ![t] = idx]
    /\ UNCHANGED <<text, copied_funcs, idxVars, permVars, todo, from, cur, running, fault>>

BlankBegin(t) ==
    /\ Step(t, "blank_begin", IF copied_funcs = {} THEN "blank_clear" ELSE "blank_unseal")
    /\ todo' = [todo EXCEPT ![t] = copied_funcs]
    /\ UNCHANGED <<text, copied_funcs, idxVars, permVars, from, cur, arg, running, fault>>

BlankUnseal(t) ==
    /\ Step(t, "blank_unseal", "blank_write")
    /\ \E r \in todo[t] :
         /\ cur' = [cur EXCEPT ![t] = r]
         /\ SetPerm(t, r, RWX)
    /\ UNCHANGED <<text, copied_funcs, idxVars, todo, from, arg, running, fault>>

\* Faulty variant: the entry is passed over without the memset.
BlankWriteNothing(t) ==
    /\ Step(t, "blank_write", "blank_seal")
    /\ UNCHANGED <<text, copied_funcs, idxVars, permVars, todo, from, cur, arg, running, fault>>

BlankWrite(t) ==
    /\ Step(t, "blank_write", "blank_seal")
    /\ WriteBody(t, ZERO)
    /\ UNCHANGED <<copied_funcs, idxVars, permVars, todo, from, cur, arg, running, fault>>

BlankSeal(t) ==
    /\ Step(t, "blank_seal", IF todo[t] \subseteq {cur[t]} THEN "blank_clear" ELSE "blank_unseal")
    /\ Seal(t)
    /\ UNCHANGED <<text, copied_funcs, idxVars, from, arg, running, fault>>

\* After the loop, copied_funcs.clear().
BlankClear(t) ==
    /\ Step(t, "blank_clear", IF Lazy THEN "app" ELSE "predict_set")
    /\ copied_funcs' = {}
    /\ UNCHANGED <<text, idxVars, permVars, todo, from, cur, arg, running, fault>>

\* Faulty variant: the index is off by one.
PredictSetOffByOne(t) ==
    /\ Step(t, "predict_set", "app")
    /\ pred_set_idx' = arg[t] + 1
    /\ UNCHANGED <<text, copied_funcs, old_pred_set_idx, permVars, todo, from, cur, arg, running, fault>>

PredictSet(t) ==
    /\ Step(t, "predict_set", "app")
    /\ pred_set_idx' = arg[t]
    /\ UNCHANGED <<text, copied_funcs, old_pred_set_idx, permVars, todo, from, cur, arg, running, fault>>

\* A memcpy or memset hits a page without write permission: SIGSEGV.
WriteFault(t) ==
    /\ at[t] \in {"copy_write", "blank_write"} /\ fault = {}
    /\ \E p \in Written(cur[t]) : perm[p] # RWX
    /\ fault' = {t}
    /\ UNCHANGED <<text, copied_funcs, idxVars, permVars, at, todo, from, cur, arg, running>>

CopyStep(t) == \/ CopyFind(t) \/ CopyHit(t) \/ CopyBegin(t) \/ CopyNext(t) \/ CopyEnd(t)
               \/ CopyRunsOn(t) \/ CopyWrite(t) \/ CopyRecord(t) \/ CopySeal(t)
BlankStep(t) == \/ BlankBegin(t) \/ BlankUnseal(t) \/ BlankWrite(t) \/ BlankSeal(t)
                \/ BlankClear(t) \/ PredictSet(t)
Handler(t) == CopyStep(t) \/ BlankStep(t) \/ WriteFault(t)

Next == \E t \in Thread :
           \/ Handler(t)
           \/ \E r \in Rtn : Enter(t, r)
           \/ Leave(t)
           \/ \E idx \in PredIdx : PredictLazy(t, idx) \/ PredictEager(t, idx)

Spec == Init /\ [][Next]_vars

\* Handlers are straight-line code of the thread that called them.
FairSpec == Spec /\ \A t \in Thread : WF_vars(Handler(t))
--------------------------------------------------------------------------------
Blanking == \E t \in Thread : at[t] \in BlankPoints

\* The type of every variable.
TypeOK ==
    /\ text \in [Rtn -> {CODE, ZERO}]
    /\ copied_funcs \subseteq Rtn
    /\ {pred_set_idx, old_pred_set_idx} \subseteq PredIdx
    /\ perm \in [Page -> {RX, RWX}]
    /\ last \in [Page -> {{}} \union {{t} : t \in Thread}]
    /\ leaked \subseteq Page /\ refused \subseteq Thread
    /\ at \in [Thread -> {"app", "lib"} \union CopyPoints \union PredictPoints]
    /\ todo \in [Thread -> SUBSET Rtn]
    /\ from \in [Thread -> {{}} \union {{i} : i \in PredIdx}]
    /\ cur \in [Thread -> Rtn \union {NoRtn}]
    /\ arg \in [Thread -> PredIdx]
    /\ running \in [Thread -> Rtn \union {NoRtn}]
    /\ fault \in {{}} \union {{t} : t \in Thread}

\* A page is writable only while a thread stands between the two remaps of a
\* routine that reaches it, or since mprotect refused to seal it, however many
\* threads and routines share the page: no interleaving of the handlers leaves
\* code writable behind them.
OpenOnlyWhileHeld ==
    \A p \in Page : perm[p] = RWX =>
        \/ \E t \in Thread : at[t] \in OpenPoints /\ p \in Remapped(cur[t])
        \/ p \in leaked

\* No write hits a page without write permission. Needs one thread, a layout
\* in which every body is in reach and an mprotect that is not refused.
NoFault == fault = {}

\* A thread gets a SIGSEGV for one of four reasons only. It writes to a page
\* that is sealed, since mprotect refused to open it, since it holds the tail of
\* a body that crosses a page end behind the bytes that were remapped, or since
\* another thread remapped the page between this thread's remap and its write.
\* Or it walks past a set, for the prediction changed under its loop.
FaultExplained ==
    \A t \in fault :
        \/ PastEnd(t)
        \/ /\ at[t] \in {"copy_write", "blank_write"}
           /\ \E p \in Written(cur[t]) :
                 /\ perm[p] = RX
                 /\ \/ t \in refused
                    \/ p \notin Remapped(cur[t]) /\ TailCrosses(Addr[cur[t]], size_cp(cur[t]))
                    \/ last[p] \notin {{}, {t}}

\* Another thread may trust copied_funcs at any moment of a running chain
\* load: what is recorded is completely written. Needs Quiet.
RecordedIsComplete ==
    ~Blanking => \A r \in copied_funcs : text[r] = CODE

\* A copy that is skipped because "it's already there" is there: a routine
\* entered under its record in copied_funcs has its body (comment in
\* probe_copy). With Quiet it follows from RecordedIsComplete; without it a
\* blanking that has zeroed the body has not cleared the record yet.
SkipsOnlyWhatIsThere ==
    [][\A t \in Thread : at[t] = "app" /\ at'[t] = "lib"
                            => text[running'[t]] = CODE]_vars

\* A thread that enters a routine comes to run it with its body in place,
\* unless a write faults. Needs Quiet.
EnteredRuns ==
    \A t \in Thread :
        at[t] = "copy_find" ~>
            (fault # {} \/ (at[t] = "lib" /\ text[running[t]] = CODE))

\* Seen from outside a handler takes effect as a whole, a chain load when it
\* begins and a blanking when it ends: the bodies in the text, with those a
\* copy loop has still to write and those a blanking is about to remove, are
\* what Debloat allows. Needs Quiet.
Loading == UNION {todo[t] : t \in {u \in Thread : at[u] \in CopyPoints}}
Promise == INSTANCE Debloat WITH
    Routines <- Rtn, managed <- Rtn,
    live <- IF Blanking THEN copied_funcs
            ELSE {r \in Rtn : text[r] = CODE} \union Loading,
    chain <- PredSets[IF Blanking /\ Lazy THEN old_pred_set_idx ELSE pred_set_idx]

\* Handlers interleaved by several threads still keep Debloat's promise.
KeepsPromise == Promise!AbsSpec
================================================================================
