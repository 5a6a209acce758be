---------------------------- MODULE ProbeStepsProofs ----------------------------
(***************************************************************************)
(* The page permissions and the records of the handlers: for every number  *)
(* of threads, layout of the routines, page size and list of predictions.  *)
(***************************************************************************)
EXTENDS ProbeSteps, PageRemapProofs

SingleThread == \A t, u \in Thread : t = u

\* What a handler knows between its two remaps: a page it was the last to
\* remap is writable, unless mprotect refused.
Holds(t) ==
    /\ cur[t] \in Rtn
    /\ t \notin refused =>
          \A p \in Remapped(cur[t]) : last[p] # {} /\ (last[p] = {t} => perm[p] = RWX)

PermInv == \A t \in Thread : at[t] \in OpenPoints => Holds(t)

\* A thread inside probe_copy, or past it, was called for a routine.
CalledInv == \A t \in Thread : at[t] \in CopyPoints \union {"lib"} => running[t] \in Rtn

StepsInv == TypeOK /\ PermInv /\ CalledInv /\ OpenOnlyWhileHeld /\ FaultExplained

\* Every page a handler opens or writes is a page of the model.
LEMMA PagesKnown ==
    ASSUME NEW r \in Rtn
    PROVE  Remapped(r) \subseteq Page /\ Written(r) \subseteq Page
BY DEF Page

\* A routine whose remap misses a page of its body has its tail on the next.
LEMMA MissedMeansCrossed ==
    ASSUME NEW r \in Rtn, ~(Written(r) \subseteq Remapped(r))
    PROVE  TailCrosses(Addr[r], size_cp(r))
<1>1. /\ Addr[r] \in Nat /\ size_cp(r) \in Nat /\ size_cp(r) >= 1
  BY StepsAssumption DEF size_cp, SizeCp, MAGIC_OFFSET
<1>2. AuxRemapCovers(Addr[r], size_cp(r))
  BY <1>1, AuxCoversEverywhere
<1> QED BY <1>1, <1>2 DEF AuxRemapCovers, Written, Remapped

\* The invariant holds initially.
LEMMA InitSteps == Init => StepsInv
<1> SUFFICES ASSUME Init PROVE StepsInv
  OBVIOUS
<1>1. TypeOK
  BY StepsAssumption DEF Init, TypeOK, PredIdx, RX, RWX, ZERO, CODE
<1>2. PermInv
  BY DEF Init, PermInv, OpenPoints
<1>3. OpenOnlyWhileHeld
  BY DEF Init, OpenOnlyWhileHeld, RX, RWX
<1>4. FaultExplained
  BY DEF Init, FaultExplained
<1>5. CalledInv
  BY DEF Init, CalledInv, CopyPoints
<1> QED BY <1>1, <1>2, <1>3, <1>4, <1>5 DEF StepsInv

\* What a remap changes has the types of the permissions.
LEMMA SetPermTyped ==
    ASSUME TypeOK, NEW t \in Thread, NEW r \in Rtn, NEW p \in {RX, RWX}, SetPerm(t, r, p)
    PROVE  /\ perm' \in [Page -> {RX, RWX}]
           /\ last' \in [Page -> {{}} \union {{u} : u \in Thread}]
           /\ leaked' \subseteq Page /\ refused' \subseteq Thread
BY PagesKnown DEF TypeOK, SetPerm

\* One step of thread t.
Acts(t) == \/ Handler(t)
           \/ \E r \in Rtn : Enter(t, r)
           \/ Leave(t)
           \/ \E idx \in PredIdx : PredictLazy(t, idx) \/ PredictEager(t, idx)

LEMMA NextActs == Next => \E t \in Thread : Acts(t)
BY DEF Next, Acts

\* A step of one thread moves no other, and none is taken after a fault.
LEMMA OthersStay ==
    ASSUME TypeOK, NEW t \in Thread, Acts(t)
    PROVE  /\ fault = {}
           /\ \A u \in Thread \ {t} :
                 UNCHANGED <<at[u], cur[u], from[u], running[u], arg[u]>>
BY DEF TypeOK, Acts, Handler, CopyStep, BlankStep, Enter, CopyFind, CopyHit, CopyBegin,
       CopyNext, CopyEnd, CopyRunsOn, CopyWrite, CopyRecord, CopySeal, Leave, PredictLazy,
       PredictEager, BlankBegin, BlankUnseal, BlankWrite, BlankSeal, BlankClear,
       PredictSet, WriteFault, Step, Seal

\* Types are preserved by every step.
LEMMA StepsTyped == TypeOK /\ PermInv /\ CalledInv /\ [Next]_vars => TypeOK'
<1> SUFFICES ASSUME TypeOK, PermInv, CalledInv, [Next]_vars PROVE TypeOK'
  OBVIOUS
<1> DEFINE Points == {"app", "lib"} \union CopyPoints \union PredictPoints
<1>1. /\ {"app", "lib", "copy_find", "copy_hit", "copy_begin", "copy_next", "copy_write",
          "copy_record", "copy_seal", "blank_begin", "blank_unseal", "blank_write",
          "blank_seal", "blank_clear", "predict_set"} \subseteq Points
      /\ at \in [Thread -> Points]
  BY DEF CopyPoints, PredictPoints, BlankPoints, LoopPoints, TypeOK
<1>2. ASSUME at' \in [Thread -> Points],
             UNCHANGED <<text, copied_funcs, idxVars, permVars, cur, arg, fault>>,
             todo' \in [Thread -> SUBSET Rtn],
             from' \in [Thread -> {{}} \union {{i} : i \in PredIdx}],
             running' \in [Thread -> Rtn \union {NoRtn}]
      PROVE  TypeOK'
  BY <1>2 DEF TypeOK, permVars, idxVars
<1> HIDE DEF Points
<1>3. ASSUME NEW t \in Thread, NEW r \in Rtn, Enter(t, r) PROVE TypeOK'
  BY <1>1, <1>2, <1>3 DEF Enter, Step, TypeOK
<1>4. ASSUME NEW t \in Thread, CopyFind(t) \/ CopyEnd(t) \/ CopyBegin(t) \/ Leave(t) PROVE TypeOK'
  BY <1>1, <1>2, <1>4, StepsAssumption DEF CopyFind, CopyEnd, CopyBegin, Leave, Step, TypeOK, PredIdx
<1>5. ASSUME NEW t \in Thread, CopyHit(t) PROVE TypeOK'
  <2>1. todo' \in [Thread -> SUBSET Rtn]
    BY <1>5 DEF CopyHit, Step, TypeOK, CalledInv, CopyPoints
  <2>2. at' \in [Thread -> Points]
    BY <1>1, <1>5 DEF CopyHit, Step
  <2> QED BY <1>2, <1>5, <2>1, <2>2 DEF CopyHit, TypeOK
<1>6. ASSUME NEW t \in Thread, CopyNext(t) \/ BlankUnseal(t) PROVE TypeOK'
  <2>1. PICK r \in Rtn : SetPerm(t, r, RWX) /\ cur' = [cur EXCEPT ![t] = r]
    BY <1>6 DEF CopyNext, BlankUnseal, TypeOK
  <2>2. /\ perm' \in [Page -> {RX, RWX}]
        /\ last' \in [Page -> {{}} \union {{u} : u \in Thread}]
        /\ leaked' \subseteq Page /\ refused' \subseteq Thread
    BY <2>1, SetPermTyped
  <2>3. /\ at' \in [Thread -> Points]
        /\ UNCHANGED <<text, copied_funcs, idxVars, todo, from, arg, running, fault>>
    BY <1>1, <1>6 DEF CopyNext, BlankUnseal, Step
  <2>4. cur' \in [Thread -> Rtn \union {NoRtn}]
    BY <2>1 DEF TypeOK
  <2> QED BY <2>2, <2>3, <2>4 DEF TypeOK, idxVars, Points
<1>7. ASSUME NEW t \in Thread, CopyRunsOn(t) PROVE TypeOK'
  BY <1>7, StepsAssumption DEF CopyRunsOn, TypeOK, PredIdx, permVars, idxVars
<1>8. ASSUME NEW t \in Thread, CopyWrite(t) \/ BlankWrite(t) PROVE TypeOK'
  <2>1. at' \in [Thread -> Points]
    BY <1>1, <1>8 DEF CopyWrite, BlankWrite, Step
  <2>2. text' \in [Rtn -> {CODE, ZERO}]
    BY <1>8 DEF CopyWrite, BlankWrite, WriteBody, TypeOK
  <2> QED BY <1>8, <2>1, <2>2 DEF CopyWrite, BlankWrite, TypeOK, permVars, idxVars, Points
<1>9. ASSUME NEW t \in Thread, CopyRecord(t) PROVE TypeOK'
  <2>1. at' \in [Thread -> Points] /\ cur[t] \in Rtn
    BY <1>1, <1>9 DEF CopyRecord, Step, PermInv, Holds, OpenPoints
  <2>2. todo' \in [Thread -> SUBSET Rtn] /\ copied_funcs' \subseteq Rtn
    BY <1>9, <2>1 DEF CopyRecord, TypeOK
  <2> QED BY <1>9, <2>1, <2>2 DEF CopyRecord, TypeOK, permVars, idxVars, Points
<1>10. ASSUME NEW t \in Thread, CopySeal(t) \/ BlankSeal(t) PROVE TypeOK'
  <2>1. cur[t] \in Rtn /\ Seal(t)
    BY <1>10 DEF CopySeal, BlankSeal, Step, PermInv, Holds, OpenPoints
  <2>2. /\ perm' \in [Page -> {RX, RWX}]
        /\ last' \in [Page -> {{}} \union {{u} : u \in Thread}]
        /\ leaked' \subseteq Page /\ refused' \subseteq Thread
    BY <2>1, SetPermTyped DEF Seal
  <2>3. /\ at' \in [Thread -> Points]
        /\ UNCHANGED <<text, copied_funcs, idxVars, from, arg, running, fault>>
    BY <1>1, <1>10 DEF CopySeal, BlankSeal, Step
  <2>4. cur' \in [Thread -> Rtn \union {NoRtn}] /\ todo' \in [Thread -> SUBSET Rtn]
    BY <2>1 DEF Seal, TypeOK
  <2> QED BY <2>2, <2>3, <2>4 DEF TypeOK, idxVars, Points
<1>11. ASSUME NEW t \in Thread, BlankBegin(t) PROVE TypeOK'
  BY <1>1, <1>2, <1>11 DEF BlankBegin, Step, TypeOK
<1>12. ASSUME NEW t \in Thread, BlankClear(t) \/ PredictSet(t) \/ WriteFault(t) PROVE TypeOK'
  BY <1>1, <1>12 DEF BlankClear, PredictSet, WriteFault, Step, TypeOK, permVars, idxVars, Points
<1>13. ASSUME NEW t \in Thread, NEW idx \in PredIdx, PredictLazy(t, idx) \/ PredictEager(t, idx)
       PROVE  TypeOK'
  BY <1>1, <1>13 DEF PredictLazy, PredictEager, Step, TypeOK, permVars, idxVars, Points
<1>14. CASE UNCHANGED vars
  BY <1>14 DEF vars, TypeOK, permVars, idxVars
<1> QED BY <1>3, <1>4, <1>5, <1>6, <1>7, <1>8, <1>9, <1>10, <1>11, <1>12, <1>13, <1>14
        DEF Next, Handler, CopyStep, BlankStep

\* No step forgets the routine a thread was called for.
LEMMA StepsCalled == TypeOK /\ CalledInv /\ [Next]_vars => CalledInv'
<1> SUFFICES ASSUME TypeOK, CalledInv, [Next]_vars, NEW u \in Thread,
                    at'[u] \in CopyPoints \union {"lib"}
             PROVE  running'[u] \in Rtn
  BY DEF CalledInv
<1>1. CASE UNCHANGED vars
  BY <1>1 DEF vars, CalledInv
<1>2. ASSUME NEW t \in Thread, Acts(t) PROVE running'[u] \in Rtn
  <2>1. CASE u # t
    BY <1>2, <2>1, OthersStay DEF CalledInv
  <2>2. CASE u = t /\ \E r \in Rtn : Enter(t, r)
    BY <2>2 DEF Enter, TypeOK
  <2>3. CASE u = t /\ ~(\E r \in Rtn : Enter(t, r))
    BY <1>2, <2>3 DEF CalledInv, CopyPoints, TypeOK, Acts, Handler, CopyStep, BlankStep,
       CopyFind, CopyHit, CopyBegin, CopyNext, CopyEnd, CopyRunsOn, CopyWrite, CopyRecord,
       CopySeal, Leave, PredictLazy, PredictEager, BlankBegin, BlankUnseal, BlankWrite,
       BlankSeal, BlankClear, PredictSet, WriteFault, Step, Seal
  <2> QED BY <2>1, <2>2, <2>3
<1> QED BY <1>1, <1>2, NextActs

\* A remap keeps what the other threads hold: it makes them lose a page of
\* theirs only by becoming the last to remap it.
LEMMA RemapKeeps ==
    ASSUME TypeOK, NEW t \in Thread, NEW r \in Rtn, NEW perms \in {RX, RWX},
           SetPerm(t, r, perms), NEW u \in Thread, u # t, Holds(u), cur'[u] = cur[u]
    PROVE  Holds(u)'
<1>1. Remapped(cur[u]) \subseteq Page
  BY PagesKnown DEF Holds
<1>2. \A p \in Page : last'[p] = {t} \/ (last'[p] = last[p] /\ perm'[p] = perm[p])
  BY DEF SetPerm
<1>3. u \in refused' <=> u \in refused
  BY DEF SetPerm
<1> QED BY <1>1, <1>2, <1>3 DEF Holds

\* A thread that is past its first remap holds the pages it opened.
LEMMA OpenHolds ==
    ASSUME TypeOK, NEW t \in Thread, NEW r \in Rtn, SetPerm(t, r, RWX), cur'[t] = r
    PROVE  Holds(t)'
<1>1. Remapped(r) \subseteq Page
  BY PagesKnown
<1> QED BY <1>1 DEF Holds, SetPerm, RX, RWX

\* The steps that open pages, those that close them, and the others.
LEMMA ActsOpen ==
    ASSUME TypeOK, NEW t \in Thread, Acts(t)
    PROVE  \/ /\ at[t] \notin OpenPoints /\ at'[t] \in OpenPoints
              /\ \E r \in Rtn : SetPerm(t, r, RWX) /\ cur' = [cur EXCEPT ![t] = r]
           \/ at[t] \in OpenPoints /\ at'[t] \notin OpenPoints /\ Seal(t)
           \/ UNCHANGED <<permVars, cur>> /\ (at[t] \in OpenPoints <=> at'[t] \in OpenPoints)
<1> USE DEF TypeOK, Step, OpenPoints
<1>1. CASE CopyNext(t) \/ BlankUnseal(t)
  BY <1>1 DEF CopyNext, BlankUnseal
<1>2. CASE CopySeal(t) \/ BlankSeal(t)
  BY <1>2 DEF CopySeal, BlankSeal
<1>3. CASE ~(CopyNext(t) \/ BlankUnseal(t) \/ CopySeal(t) \/ BlankSeal(t))
  BY <1>3 DEF Acts, Handler, CopyStep, BlankStep, Enter, CopyFind, CopyHit, CopyBegin, CopyEnd,
     CopyRunsOn, CopyWrite, CopyRecord, Leave, PredictLazy, PredictEager, BlankBegin,
     BlankWrite, BlankClear, PredictSet, WriteFault
<1> QED BY <1>1, <1>2, <1>3

\* Steps keep what each thread holds between its remaps.
LEMMA StepsPerm == TypeOK /\ PermInv /\ [Next]_vars => PermInv'
<1> SUFFICES ASSUME TypeOK, PermInv, [Next]_vars, NEW u \in Thread, at'[u] \in OpenPoints
             PROVE  Holds(u)'
  BY DEF PermInv
<1>1. CASE UNCHANGED vars
  BY <1>1 DEF vars, permVars, PermInv, Holds
<1>2. ASSUME NEW t \in Thread, Acts(t) PROVE Holds(u)'
  <2>1. CASE \E r \in Rtn : SetPerm(t, r, RWX) /\ cur' = [cur EXCEPT ![t] = r]
    <3>1. PICK r \in Rtn : SetPerm(t, r, RWX) /\ cur' = [cur EXCEPT ![t] = r]
      BY <2>1
    <3>2. CASE u = t
      <4>1. cur'[t] = r
        BY <3>1 DEF TypeOK
      <4> QED BY <3>1, <3>2, <4>1, OpenHolds
    <3>3. CASE u # t
      BY <1>2, <3>1, <3>3, OthersStay, RemapKeeps DEF PermInv
    <3> QED BY <3>2, <3>3
  <2>2. CASE at[t] \in OpenPoints /\ at'[t] \notin OpenPoints /\ Seal(t)
    <3>1. u # t /\ SetPerm(t, cur[t], RX) /\ cur[t] \in Rtn
      BY <2>2 DEF Seal, PermInv, Holds
    <3>2. at[u] \in OpenPoints /\ cur'[u] = cur[u]
      BY <1>2, <3>1, OthersStay
    <3> QED BY <3>1, <3>2, RemapKeeps DEF PermInv
  <2>3. CASE UNCHANGED <<permVars, cur>> /\ (at[t] \in OpenPoints <=> at'[t] \in OpenPoints)
    <3>1. at[u] \in OpenPoints
      BY <1>2, <2>3, OthersStay
    <3> QED BY <2>3, <3>1 DEF PermInv, Holds, permVars
  <2> QED BY <1>2, <2>1, <2>2, <2>3, ActsOpen
<1> QED BY <1>1, <1>2, NextActs

\* Who opened a page still holds it, or it was closed, or that was refused.
LEMMA StepsHeld == TypeOK /\ OpenOnlyWhileHeld /\ [Next]_vars => OpenOnlyWhileHeld'
<1> SUFFICES ASSUME TypeOK, OpenOnlyWhileHeld, [Next]_vars,
                    NEW p \in Page, perm'[p] = RWX, p \notin leaked'
             PROVE  \E u \in Thread : at'[u] \in OpenPoints /\ p \in Remapped(cur'[u])
  BY DEF OpenOnlyWhileHeld
<1>1. CASE UNCHANGED vars
  BY <1>1 DEF vars, permVars, OpenOnlyWhileHeld
<1>2. ASSUME NEW t \in Thread, Acts(t)
      PROVE  \E u \in Thread : at'[u] \in OpenPoints /\ p \in Remapped(cur'[u])
  <2>1. ASSUME NEW u \in Thread, u # t, at[u] \in OpenPoints, p \in Remapped(cur[u])
        PROVE  at'[u] \in OpenPoints /\ p \in Remapped(cur'[u])
    BY <1>2, <2>1, OthersStay
  <2>2. CASE at[t] \notin OpenPoints /\ at'[t] \in OpenPoints
             /\ \E r \in Rtn : SetPerm(t, r, RWX) /\ cur' = [cur EXCEPT ![t] = r]
    <3>1. PICK r \in Rtn : SetPerm(t, r, RWX) /\ cur' = [cur EXCEPT ![t] = r]
      BY <2>2
    <3>2. cur'[t] = r
      BY <3>1 DEF TypeOK
    <3>3. CASE p \in Remapped(r)
      BY <2>2, <3>2, <3>3
    <3>4. CASE p \notin Remapped(r)
      <4>1. perm[p] = RWX /\ p \notin leaked
        BY <3>1, <3>4 DEF SetPerm, RX, RWX
      <4>2. PICK u \in Thread : at[u] \in OpenPoints /\ p \in Remapped(cur[u])
        BY <4>1 DEF OpenOnlyWhileHeld
      <4> QED BY <2>1, <2>2, <4>2
    <3> QED BY <3>3, <3>4
  <2>3. CASE at[t] \in OpenPoints /\ at'[t] \notin OpenPoints /\ Seal(t)
    <3>1. p \notin Remapped(cur[t]) /\ perm[p] = RWX /\ p \notin leaked
      BY <2>3 DEF Seal, SetPerm, RX, RWX
    <3>2. PICK u \in Thread : at[u] \in OpenPoints /\ p \in Remapped(cur[u])
      BY <3>1 DEF OpenOnlyWhileHeld
    <3> QED BY <2>1, <3>1, <3>2
  <2>4. CASE UNCHANGED <<permVars, cur>> /\ (at[t] \in OpenPoints <=> at'[t] \in OpenPoints)
    <3>1. PICK u \in Thread : at[u] \in OpenPoints /\ p \in Remapped(cur[u])
      BY <2>4 DEF OpenOnlyWhileHeld, permVars
    <3> QED BY <2>1, <2>4, <3>1
  <2> QED BY <1>2, <2>2, <2>3, <2>4, ActsOpen
<1> QED BY <1>1, <1>2, NextActs

\* A sealed page stops a write for one of three reasons.
LEMMA WriteFaults ==
    ASSUME TypeOK, NEW t \in Thread, Holds(t), NEW p \in Written(cur[t]), perm[p] # RWX
    PROVE  /\ perm[p] = RX
           /\ \/ t \in refused
              \/ p \notin Remapped(cur[t]) /\ TailCrosses(Addr[cur[t]], size_cp(cur[t]))
              \/ last[p] \notin {{}, {t}}
<1>1. perm[p] = RX
  BY PagesKnown DEF TypeOK, Holds
<1>2. CASE p \in Remapped(cur[t])
  BY <1>1, <1>2 DEF Holds
<1>3. CASE p \notin Remapped(cur[t])
  BY <1>1, <1>3, MissedMeansCrossed DEF Holds
<1> QED BY <1>2, <1>3

\* After a fault nothing moves; before it only a write, or a loop that has run
\* past its set, raises one.
LEMMA StepsFault == TypeOK /\ PermInv /\ FaultExplained /\ [Next]_vars => FaultExplained'
<1> SUFFICES ASSUME TypeOK, PermInv, FaultExplained, [Next]_vars, NEW f \in fault'
             PROVE  \/ PastEnd(f)'
                    \/ /\ at'[f] \in {"copy_write", "blank_write"}
                       /\ \E p \in Written(cur'[f]) :
                             /\ perm'[p] = RX
                             /\ \/ f \in refused'
                                \/ /\ p \notin Remapped(cur'[f])
                                   /\ TailCrosses(Addr[cur'[f]], size_cp(cur'[f]))
                                \/ last'[p] \notin {{}, {f}}
  BY DEF FaultExplained
<1>1. CASE UNCHANGED vars
  BY <1>1 DEF vars, permVars, idxVars, FaultExplained, PastEnd
<1>2. ASSUME NEW t \in Thread, Acts(t), CopyRunsOn(t) PROVE f = t /\ PastEnd(f)'
  BY <1>2 DEF CopyRunsOn, PastEnd, idxVars
<1>3. ASSUME NEW t \in Thread, Acts(t), WriteFault(t)
      PROVE  /\ at'[f] \in {"copy_write", "blank_write"}
             /\ \E p \in Written(cur'[f]) :
                   /\ perm'[p] = RX
                   /\ \/ f \in refused'
                      \/ /\ p \notin Remapped(cur'[f])
                         /\ TailCrosses(Addr[cur'[f]], size_cp(cur'[f]))
                      \/ last'[p] \notin {{}, {f}}
  <2>1. PICK p \in Written(cur[t]) : perm[p] # RWX
    BY <1>3 DEF WriteFault
  <2>2. f = t /\ at[t] \in {"copy_write", "blank_write"} /\ UNCHANGED <<at, cur, permVars>>
    BY <1>3 DEF WriteFault
  <2>3. Holds(t)
    BY <2>2 DEF PermInv, OpenPoints
  <2> QED BY <2>1, <2>2, <2>3, WriteFaults DEF permVars
<1>4. ASSUME NEW t \in Thread, Acts(t), ~CopyRunsOn(t), ~WriteFault(t) PROVE fault' = {}
  <2>1. fault = {}
    BY <1>4, OthersStay
  <2>2. fault' = fault
    BY <1>4 DEF Acts, Handler, CopyStep, BlankStep, Enter, CopyFind, CopyHit, CopyBegin,
       CopyNext, CopyEnd, CopyWrite, CopyRecord, CopySeal, Leave, PredictLazy, PredictEager,
       BlankBegin, BlankUnseal, BlankWrite, BlankSeal, BlankClear, PredictSet
  <2> QED BY <2>1, <2>2
<1> QED BY <1>1, <1>2, <1>3, <1>4, NextActs

\* The inductive invariant holds in every reachable state, whatever the
\* threads do.
THEOREM StepsCorrect == Spec => []StepsInv
<1>1. StepsInv /\ [Next]_vars => StepsInv'
  BY StepsTyped, StepsCalled, StepsPerm, StepsHeld, StepsFault DEF StepsInv
<1> QED BY <1>1, InitSteps, PTL DEF Spec

\* Every variable keeps its type.
THEOREM TypeCorrect == Spec => []TypeOK
<1>1. StepsInv => TypeOK
  BY DEF StepsInv
<1> QED BY <1>1, StepsCorrect, PTL

\* No interleaving of the handlers leaves a page writable behind them, however
\* threads and routines share pages, unless mprotect refused to seal it.
THEOREM SealedCorrect == Spec => []OpenOnlyWhileHeld
<1>1. StepsInv => OpenOnlyWhileHeld
  BY DEF StepsInv
<1> QED BY <1>1, StepsCorrect, PTL

\* A handler faults where mprotect was refused, where the tail of a body lies
\* behind the pages it opened, where another thread came between its remap and
\* its write, or where the prediction changed under its loop.
THEOREM FaultCorrect == Spec => []FaultExplained
<1>1. StepsInv => FaultExplained
  BY DEF StepsInv
<1> QED BY <1>1, StepsCorrect, PTL

--------------------------------------------------------------------------------
(***************************************************************************)
(* Where no prediction comes while another thread is in a library or in a  *)
(* probe: because all threads keep to that, or because there is only one.  *)
(***************************************************************************)
Undisturbed == Quiet \/ SingleThread

\* Who predicts is alone, so the set a copy loop walks is the one predicted.
AloneInv ==
    /\ \A t, u \in Thread : at[t] \in PredictPoints /\ u # t => at[u] = "app"
    /\ \A t \in Thread : from[t] = {} \/ (at[t] \in CopyPoints /\ from[t] = {pred_set_idx})

LEMMA StepsAlone ==
    ASSUME Undisturbed, TypeOK, AloneInv, [Next]_vars
    PROVE  AloneInv'
<1>1. CASE UNCHANGED vars
  BY <1>1 DEF vars, idxVars, AloneInv
<1>2. ASSUME NEW t \in Thread, Acts(t) PROVE AloneInv'
  <2> USE DEF TypeOK, Step
  <2>1. ASSUME NEW x \in Thread, NEW y \in Thread, at'[x] \in PredictPoints, y # x
        PROVE  at'[y] = "app"
    <3> USE DEF PredictPoints, BlankPoints, LoopPoints
    <3>1. CASE at[x] \in PredictPoints
      <4>1. at[y] = "app"
        BY <2>1, <3>1 DEF AloneInv
      <4>2. CASE t # y
        BY <1>2, <4>1, <4>2, OthersStay
      <4>3. CASE t = y
        <5>1. (\E r \in Rtn : Enter(t, r)) \/ \E idx \in PredIdx : PredictLazy(t, idx) \/ PredictEager(t, idx)
          BY <1>2, <4>1, <4>3 DEF Acts, Handler, CopyStep, BlankStep, CopyFind, CopyHit,
             CopyBegin, CopyNext, CopyEnd, CopyRunsOn, PastEnd, CopyWrite, CopyRecord, CopySeal,
             Leave, BlankBegin, BlankUnseal, BlankWrite, BlankSeal, BlankClear, PredictSet,
             WriteFault
        <5>2. ~SingleThread
          BY <2>1 DEF SingleThread
        <5> QED BY <2>1, <3>1, <4>3, <5>1, <5>2
            DEF Undisturbed, Enter, PredictLazy, PredictEager, MayPredict
      <4> QED BY <4>2, <4>3
    <3>2. CASE at[x] \notin PredictPoints
      <4>1. x = t
        BY <1>2, <2>1, <3>2, OthersStay
      <4>2. \E idx \in PredIdx : PredictLazy(t, idx) \/ PredictEager(t, idx)
        BY <1>2, <2>1, <3>2, <4>1 DEF Acts, Handler, CopyStep, BlankStep, Enter, CopyFind,
           CopyHit, CopyBegin, CopyNext, CopyEnd, CopyRunsOn, CopyWrite, CopyRecord, CopySeal,
           Leave, BlankBegin, BlankUnseal, BlankWrite, BlankSeal, BlankClear, PredictSet,
           WriteFault
      <4>3. at[y] = "app"
        BY <2>1, <4>1, <4>2 DEF Undisturbed, SingleThread, PredictLazy, PredictEager, MayPredict
      <4> QED BY <1>2, <2>1, <4>1, <4>3, OthersStay
    <3> QED BY <3>1, <3>2
  <2>2. ASSUME NEW x \in Thread
        PROVE  from'[x] = {} \/ (at'[x] \in CopyPoints /\ from'[x] = {pred_set_idx'})
    <3> USE DEF CopyPoints
    <3>1. CASE pred_set_idx' # pred_set_idx
      <4>1. PredictSet(t) \/ \E idx \in PredIdx : PredictLazy(t, idx)
        BY <1>2, <3>1 DEF idxVars, Acts, Handler, CopyStep, BlankStep, Enter, CopyFind,
           CopyHit, CopyBegin, CopyNext, CopyEnd, CopyRunsOn, CopyWrite, CopyRecord, CopySeal,
           Leave, PredictEager, BlankBegin, BlankUnseal, BlankWrite, BlankSeal, BlankClear,
           WriteFault
      <4>2. from'[x] = from[x] /\ at[x] \notin CopyPoints
        BY <4>1 DEF PredictSet, PredictLazy, AloneInv, MayPredict, Undisturbed,
           SingleThread, PredictPoints
      <4> QED BY <4>2 DEF AloneInv
    <3>2. CASE pred_set_idx' = pred_set_idx /\ x # t
      BY <1>2, <3>2, OthersStay DEF AloneInv
    <3>3. CASE pred_set_idx' = pred_set_idx /\ x = t
      <4>1. CASE CopyFind(t) \/ CopyBegin(t) \/ CopyHit(t) \/ CopyEnd(t)
        BY <3>3, <4>1 DEF CopyFind, CopyBegin, CopyHit, CopyEnd
      <4>2. CASE CopyNext(t) \/ CopyWrite(t) \/ CopyRecord(t) \/ CopySeal(t) \/ CopyRunsOn(t) \/ WriteFault(t)
        BY <3>3, <4>2 DEF CopyNext, CopyWrite, CopyRecord, CopySeal, CopyRunsOn, WriteFault,
           AloneInv
      <4>3. CASE \/ BlankStep(t) \/ Leave(t) \/ \E r \in Rtn : Enter(t, r)
                 \/ \E idx \in PredIdx : PredictLazy(t, idx) \/ PredictEager(t, idx)
        <5>1. at[t] \notin CopyPoints /\ from'[t] = from[t]
          BY <4>3 DEF BlankStep, Leave, Enter, PredictLazy, PredictEager, BlankBegin,
             BlankUnseal, BlankWrite, BlankSeal, BlankClear, PredictSet
        <5> QED BY <3>3, <5>1 DEF AloneInv
      <4> QED BY <1>2, <4>1, <4>2, <4>3 DEF Acts, Handler, CopyStep
    <3> QED BY <3>1, <3>2, <3>3
  <2> QED BY <2>1, <2>2 DEF AloneInv
<1> QED BY <1>1, <1>2, NextActs

\* With one thread, no refused mprotect and every body in reach, no handler
\* ever faults.
THEOREM NoFaultCorrect ==
    ASSUME SingleThread, Denied = {}, \A r \in Rtn : ~TailCrosses(Addr[r], size_cp(r))
    PROVE  Spec => []NoFault
<1> DEFINE NoRefusal == refused = {}
<1>1. Init => AloneInv /\ NoRefusal
  BY DEF Init, AloneInv, PredictPoints, BlankPoints, LoopPoints
<1>2. StepsInv /\ AloneInv /\ NoRefusal /\ [Next]_vars => AloneInv' /\ NoRefusal'
  <2> SUFFICES ASSUME TypeOK, AloneInv, refused = {}, [Next]_vars PROVE refused' = {}
    BY StepsAlone DEF StepsInv, Undisturbed
  <2>1. ASSUME NEW t \in Thread, Acts(t) PROVE refused' = {}
    BY <2>1, ActsOpen DEF Seal, SetPerm, permVars
  <2> QED BY <2>1, NextActs DEF vars, permVars
<1>3. StepsInv /\ AloneInv /\ NoRefusal => NoFault
  <2> SUFFICES ASSUME StepsInv, AloneInv, refused = {}, fault # {} PROVE FALSE
    BY DEF NoFault
  <2>1. PICK t \in Thread : t \in fault
    BY DEF StepsInv, TypeOK
  <2>2. ~PastEnd(t)
    BY DEF AloneInv, PastEnd
  <2>3. /\ at[t] \in OpenPoints
        /\ \E p \in Written(cur[t]) : last[p] \notin {{}, {t}}
                \/ (p \notin Remapped(cur[t]) /\ TailCrosses(Addr[cur[t]], size_cp(cur[t])))
    BY <2>1, <2>2 DEF StepsInv, FaultExplained, OpenPoints
  <2>4. Holds(t)
    BY <2>3 DEF StepsInv, PermInv
  <2>5. PICK p \in Written(cur[t]) : last[p] \notin {{}, {t}}
    BY <2>3, <2>4 DEF Holds
  <2>6. p \in Remapped(cur[t]) /\ p \in Page
    BY <2>4, <2>5, PagesKnown, MissedMeansCrossed DEF Holds
  <2>7. last[p] = {t}
    BY <2>4, <2>6 DEF Holds, StepsInv, TypeOK, SingleThread
  <2> QED BY <2>5, <2>7
<1> HIDE DEF NoRefusal
<1> QED BY <1>1, <1>2, <1>3, StepsCorrect, PTL DEF Spec

\* The text and the records, at every point of the handlers: a body is there
\* where it is recorded or about to be; a loop that blanks has the bodies still
\* there on its list; what a loop has opened is still on its list, and lists are
\* empty outside the loops.
Idle == {"app", "lib", "copy_find", "copy_hit", "copy_begin", "blank_begin", "blank_clear",
         "predict_set"}

WorkInv ==
    /\ RecordedIsComplete
    /\ \A r \in Rtn : text[r] = CODE =>
          r \in copied_funcs \/ \E t \in Thread : at[t] = "copy_record" /\ cur[t] = r
    /\ \A t \in Thread :
          /\ at[t] \in {"copy_record", "copy_seal"} => text[cur[t]] = CODE
          /\ at[t] \in LoopPoints => \A r \in Rtn : text[r] = CODE => r \in todo[t]
          /\ at[t] = "blank_seal" => text[cur[t]] = ZERO
          /\ at[t] \in {"blank_clear", "predict_set"} => \A r \in Rtn : text[r] = ZERO
          /\ at[t] \in Idle => todo[t] = {}
          /\ at[t] \in OpenPoints => cur[t] \in todo[t]
          /\ at[t] = "copy_begin" => running[t] \in PredSets[pred_set_idx]

\* A thread that copies finds nobody blanking, one that blanks nobody copying.
LEMMA Apart ==
    ASSUME TypeOK, AloneInv, NEW t \in Thread
    PROVE  /\ at[t] \in CopyPoints \union {"lib"} => ~Blanking
           /\ at[t] \in PredictPoints =>
                 \A u \in Thread : at[u] \in CopyPoints \union {"lib"} \union PredictPoints => u = t
BY DEF AloneInv, Blanking, PredictPoints, BlankPoints, LoopPoints, CopyPoints

\* Steps that write no body and record or clear nothing.
LEMMA PlainSteps ==
    ASSUME TypeOK, WorkInv, AloneInv, AloneInv', NEW t \in Thread, Acts(t),
           CopyFind(t) \/ CopyHit(t) \/ CopyBegin(t) \/ CopyNext(t) \/ CopyEnd(t)
             \/ CopyRunsOn(t) \/ WriteFault(t) \/ Leave(t) \/ \E r \in Rtn : Enter(t, r)
    PROVE  WorkInv'
<1> USE DEF TypeOK, Step
<1>1. UNCHANGED <<text, copied_funcs, pred_set_idx>>
  BY DEF CopyFind, CopyHit, CopyBegin, CopyNext, CopyEnd, CopyRunsOn, WriteFault, Leave, Enter,
         idxVars
<1>2. \A u \in Thread \ {t} : UNCHANGED <<at[u], cur[u], running[u], todo[u]>>
  BY OthersStay DEF CopyFind, CopyHit, CopyBegin, CopyNext, CopyEnd, CopyRunsOn, WriteFault,
     Leave, Enter
<1>3. Blanking' <=> Blanking
  BY <1>2 DEF CopyFind, CopyHit, CopyBegin, CopyNext, CopyEnd, CopyRunsOn, WriteFault,
     Leave, Enter, Blanking, BlankPoints, LoopPoints, PastEnd
<1>4. RecordedIsComplete'
  BY <1>1, <1>3 DEF WorkInv, RecordedIsComplete
<1>5. ASSUME NEW r \in Rtn, text'[r] = CODE
      PROVE  r \in copied_funcs' \/ \E u \in Thread : at'[u] = "copy_record" /\ cur'[u] = r
  <2>1. CASE r \in copied_funcs
    BY <1>1, <2>1
  <2>2. CASE r \notin copied_funcs
    <3>1. PICK u \in Thread : at[u] = "copy_record" /\ cur[u] = r
      BY <1>1, <1>5, <2>2 DEF WorkInv
    <3>2. u # t
      BY <3>1 DEF CopyFind, CopyHit, CopyBegin, CopyNext, CopyEnd, CopyRunsOn, WriteFault,
         Leave, Enter, PastEnd
    <3> QED BY <1>2, <3>1, <3>2
  <2> QED BY <2>1, <2>2
<1>6. ASSUME NEW u \in Thread \ {t}
      PROVE  /\ at'[u] \in {"copy_record", "copy_seal"} => text'[cur'[u]] = CODE
             /\ at'[u] \in LoopPoints => \A r \in Rtn : text'[r] = CODE => r \in todo'[u]
             /\ at'[u] = "blank_seal" => text'[cur'[u]] = ZERO
             /\ at'[u] \in {"blank_clear", "predict_set"} => \A r \in Rtn : text'[r] = ZERO
             /\ at'[u] \in Idle => todo'[u] = {}
             /\ at'[u] \in OpenPoints => cur'[u] \in todo'[u]
             /\ at'[u] = "copy_begin" => running'[u] \in PredSets[pred_set_idx']
  BY <1>1, <1>2, <1>6 DEF WorkInv
<1>7. /\ at'[t] \notin {"copy_record", "copy_seal", "blank_clear", "predict_set", "blank_seal"}
      /\ at'[t] \in LoopPoints => at[t] = "blank_write" /\ todo' = todo /\ at' = at /\ cur' = cur
      /\ at'[t] \in Idle => todo'[t] = {}
      /\ at'[t] \in OpenPoints => cur'[t] \in todo'[t]
      /\ at'[t] = "copy_begin" => running'[t] \in PredSets[pred_set_idx']
  <2> USE DEF LoopPoints, Idle, OpenPoints, WorkInv
  <2>1. CASE CopyFind(t) \/ CopyEnd(t) \/ CopyRunsOn(t) \/ Leave(t) \/ \E r \in Rtn : Enter(t, r)
    BY <2>1 DEF CopyFind, CopyEnd, CopyRunsOn, Leave, Enter, AtEnd, PastEnd
  <2>2. CASE CopyHit(t)
    BY <1>1, <2>2 DEF CopyHit, AloneInv
  <2>3. CASE CopyBegin(t) \/ CopyNext(t)
    BY <2>3 DEF CopyBegin, CopyNext
  <2>4. CASE WriteFault(t)
    BY <2>4 DEF WriteFault
  <2> QED BY <2>1, <2>2, <2>3, <2>4
<1> QED BY <1>1, <1>4, <1>5, <1>6, <1>7 DEF WorkInv, LoopPoints

\* The facts of WorkInv about one thread.
At(u) ==
    /\ at[u] \in {"copy_record", "copy_seal"} => text[cur[u]] = CODE
    /\ at[u] \in LoopPoints => \A r \in Rtn : text[r] = CODE => r \in todo[u]
    /\ at[u] = "blank_seal" => text[cur[u]] = ZERO
    /\ at[u] \in {"blank_clear", "predict_set"} => \A r \in Rtn : text[r] = ZERO
    /\ at[u] \in Idle => todo[u] = {}
    /\ at[u] \in OpenPoints => cur[u] \in todo[u]
    /\ at[u] = "copy_begin" => running[u] \in PredSets[pred_set_idx]

\* Steps of a copy: nobody blanks meanwhile.
LEMMA CopyWorks ==
    ASSUME TypeOK, PermInv, WorkInv, AloneInv, NEW t \in Thread, Acts(t),
           CopyWrite(t) \/ CopyRecord(t) \/ CopySeal(t)
    PROVE  WorkInv'
<1> USE DEF TypeOK, Step
<1>1. /\ at[t] \in {"copy_write", "copy_record", "copy_seal"}
      /\ cur[t] \in Rtn /\ cur[t] \in todo[t]
      /\ UNCHANGED <<running, pred_set_idx>>
  BY DEF CopyWrite, CopyRecord, CopySeal, PermInv, Holds, OpenPoints, WorkInv, idxVars
<1>2. /\ \A u \in Thread : at[u] \notin PredictPoints
      /\ \A u \in Thread : at'[u] \notin PredictPoints
      /\ at'[t] \in CopyPoints /\ ~Blanking /\ ~Blanking'
  <2>1. \A u \in Thread : at[u] \notin PredictPoints
    BY <1>1 DEF AloneInv, PredictPoints, BlankPoints, LoopPoints
  <2>2. at'[t] \in CopyPoints
    BY DEF CopyWrite, CopyRecord, CopySeal, CopyPoints
  <2>3. \A u \in Thread : at'[u] \notin PredictPoints
    BY <2>1, <2>2, OthersStay DEF PredictPoints, BlankPoints, LoopPoints, CopyPoints
  <2> QED BY <2>1, <2>2, <2>3 DEF Blanking, PredictPoints
<1>3. \A u \in Thread \ {t} : UNCHANGED <<at[u], cur[u], running[u], todo[u]>>
  <2>1. \A u \in Thread : at[u] \notin LoopPoints
    BY <1>2 DEF PredictPoints, BlankPoints
  <2> QED BY <2>1, OthersStay DEF CopyWrite, CopyRecord, CopySeal, Seal
<1>4. \A r \in Rtn : text[r] = CODE => text'[r] = CODE
  BY <1>1 DEF CopyWrite, CopyRecord, CopySeal, WriteBody
<1>5. RecordedIsComplete'
  <2>1. copied_funcs' \subseteq copied_funcs \union {r \in Rtn : text[r] = CODE}
    BY <1>1 DEF CopyWrite, CopyRecord, CopySeal, WorkInv
  <2> QED BY <1>2, <1>4, <2>1 DEF WorkInv, RecordedIsComplete
<1>6. ASSUME NEW r \in Rtn, text'[r] = CODE
      PROVE  r \in copied_funcs' \/ \E u \in Thread : at'[u] = "copy_record" /\ cur'[u] = r
  <2>1. CASE r \in copied_funcs
    BY <2>1 DEF CopyWrite, CopyRecord, CopySeal
  <2>2. ASSUME NEW u \in Thread, at[u] = "copy_record", cur[u] = r
        PROVE  r \in copied_funcs' \/ \E v \in Thread : at'[v] = "copy_record" /\ cur'[v] = r
    <3>1. CASE u # t
      BY <1>3, <2>2, <3>1
    <3>2. CASE u = t
      BY <2>2, <3>2 DEF CopyWrite, CopyRecord, CopySeal
    <3> QED BY <3>1, <3>2
  <2>3. CASE text[r] # CODE
    <3>1. CopyWrite(t) /\ cur[t] = r
      BY <1>1, <1>6, <2>3 DEF CopyWrite, CopyRecord, CopySeal, WriteBody
    <3> QED BY <3>1 DEF CopyWrite
  <2> QED BY <2>1, <2>2, <2>3 DEF WorkInv
<1>7. ASSUME NEW u \in Thread \ {t} PROVE At(u)'
  <2>1. At(u) /\ at[u] \notin LoopPoints \union {"blank_seal", "blank_clear", "predict_set"}
    BY <1>2 DEF WorkInv, At, PredictPoints, BlankPoints, LoopPoints
  <2>2. at[u] \in {"copy_record", "copy_seal"} => cur[u] \in Rtn
    BY DEF PermInv, Holds, OpenPoints
  <2> QED BY <1>1, <1>3, <1>4, <2>1, <2>2 DEF At
<1>8. At(t)'
  <2> USE DEF At, LoopPoints, Idle, OpenPoints
  <2>1. CASE CopyWrite(t)
    BY <1>1, <2>1 DEF CopyWrite, WriteBody
  <2>2. CASE CopyRecord(t)
    BY <1>1, <2>2 DEF CopyRecord, WorkInv
  <2>3. CASE CopySeal(t)
    BY <1>1, <2>3 DEF CopySeal
  <2> QED BY <2>1, <2>2, <2>3
<1>9. \A u \in Thread : At(u)'
  BY <1>7, <1>8
<1> QED BY <1>5, <1>6, <1>9 DEF WorkInv, At

\* Steps of a prediction: everybody else is in the application.
LEMMA PredictWorks ==
    ASSUME Undisturbed, TypeOK, PermInv, WorkInv, AloneInv, AloneInv', NEW t \in Thread, Acts(t),
           BlankStep(t) \/ \E idx \in PredIdx : PredictLazy(t, idx) \/ PredictEager(t, idx)
    PROVE  WorkInv'
<1> USE DEF TypeOK, Step
<1>1. \A u \in Thread \ {t} : at[u] = "app" /\ at'[u] = "app"
  <2>1. \A u \in Thread \ {t} : at[u] = "app"
    BY DEF BlankStep, BlankBegin, BlankUnseal, BlankWrite, BlankSeal, BlankClear, PredictSet,
           PredictLazy, PredictEager, MayPredict, Undisturbed, SingleThread, AloneInv,
           PredictPoints, BlankPoints, LoopPoints
  <2> QED BY <2>1, OthersStay
<1>2. /\ at[t] \in PredictPoints \union {"app"} /\ at'[t] \in PredictPoints \union {"app"}
      /\ UNCHANGED running
  BY DEF BlankStep, BlankBegin, BlankUnseal, BlankWrite, BlankSeal, BlankClear, PredictSet,
         PredictLazy, PredictEager, PredictPoints, BlankPoints, LoopPoints
<1>3. \A u \in Thread : at[u] \notin CopyPoints /\ at'[u] \notin CopyPoints
  BY <1>1, <1>2 DEF PredictPoints, BlankPoints, LoopPoints, CopyPoints
<1>4. \A r \in Rtn : text[r] = CODE => r \in copied_funcs
  BY <1>3 DEF WorkInv, CopyPoints
<1>5. \A u \in Thread \ {t} : At(u)'
  <2>1. \A u \in Thread \ {t} : todo'[u] = todo[u]
    BY DEF BlankStep, BlankBegin, BlankUnseal, BlankWrite, BlankSeal, BlankClear, PredictSet,
         PredictLazy, PredictEager, Seal
  <2> QED BY <1>1, <2>1 DEF At, WorkInv, LoopPoints, OpenPoints, Idle
<1>6. CASE PredictSet(t) \/ \E idx \in PredIdx : PredictLazy(t, idx) \/ PredictEager(t, idx)
  <2>1. UNCHANGED <<text, copied_funcs, todo>> /\ at'[t] \in {"app", "blank_begin"}
        /\ at[t] \in {"app", "predict_set"} /\ todo[t] = {}
    BY <1>6 DEF PredictSet, PredictLazy, PredictEager, WorkInv, Idle
  <2>2. At(t)'
    BY <2>1 DEF At, LoopPoints, OpenPoints, Idle
  <2>3. ~Blanking
    BY <1>1, <2>1 DEF Blanking, BlankPoints, LoopPoints
  <2>4. RecordedIsComplete'
    BY <2>1, <2>3 DEF RecordedIsComplete, WorkInv
  <2>5. \A r \in Rtn : text'[r] = CODE => r \in copied_funcs'
    BY <1>4, <2>1
  <2>6. \A u \in Thread : At(u)'
    BY <1>5, <2>2
  <2> QED BY <2>4, <2>5, <2>6 DEF WorkInv, At
<1>7. CASE BlankBegin(t) \/ BlankUnseal(t) \/ BlankWrite(t) \/ BlankSeal(t)
  <2>1. Blanking' /\ UNCHANGED copied_funcs /\ at[t] \in BlankPoints /\ at'[t] \in BlankPoints
    BY <1>7 DEF BlankBegin, BlankUnseal, BlankWrite, BlankSeal, Blanking, BlankPoints, LoopPoints
  <2>2. at[t] \in OpenPoints => cur[t] \in Rtn /\ cur[t] \in todo[t]
    BY DEF PermInv, Holds, WorkInv
  <2>3. \A r \in Rtn : text'[r] = CODE => text[r] = CODE
    BY <1>7, <2>2 DEF BlankBegin, BlankUnseal, BlankWrite, BlankSeal, WriteBody, OpenPoints,
       CODE, ZERO
  <2>4. At(t)'
    <3> USE DEF At, LoopPoints, Idle, OpenPoints
    <3>1. CASE BlankBegin(t)
      BY <1>4, <3>1 DEF BlankBegin, CODE, ZERO
    <3>2. CASE BlankUnseal(t)
      BY <3>2 DEF BlankUnseal, WorkInv
    <3>3. CASE BlankWrite(t)
      BY <2>2, <2>3, <3>3 DEF BlankWrite, WriteBody, WorkInv
    <3>4. CASE BlankSeal(t)
      <4>1. /\ at[t] = "blank_seal" /\ text' = text /\ text[cur[t]] = ZERO /\ cur[t] \in Rtn
            /\ todo' = [todo EXCEPT ![t] = @ \ {cur[t]}]
            /\ \A r \in Rtn : text[r] = CODE => r \in todo[t]
            /\ at'[t] = IF todo[t] \subseteq {cur[t]} THEN "blank_clear" ELSE "blank_unseal"
        BY <2>2, <3>4 DEF BlankSeal, Seal, WorkInv
      <4>2. \A r \in Rtn : text'[r] = CODE => r \in todo'[t]
        BY <4>1 DEF CODE, ZERO
      <4>3. CASE todo[t] \subseteq {cur[t]}
        <5>1. at'[t] = "blank_clear" /\ todo'[t] = {}
          BY <4>1, <4>3
        <5>2. \A r \in Rtn : text'[r] = ZERO
          BY <4>1, <4>2, <5>1
        <5> QED BY <5>1, <5>2
      <4>4. CASE ~(todo[t] \subseteq {cur[t]})
        <5>1. at'[t] = "blank_unseal"
          BY <4>1, <4>4
        <5> QED BY <4>2, <5>1
      <4> QED BY <4>3, <4>4
    <3> QED BY <1>7, <3>1, <3>2, <3>3, <3>4
  <2>5. RecordedIsComplete'
    BY <2>1 DEF RecordedIsComplete
  <2>6. \A r \in Rtn : text'[r] = CODE => r \in copied_funcs'
    BY <1>4, <2>1, <2>3
  <2>7. \A u \in Thread : At(u)'
    BY <1>5, <2>4
  <2> QED BY <2>5, <2>6, <2>7 DEF WorkInv, At
<1>8. CASE BlankClear(t)
  <2>1. /\ at[t] = "blank_clear" /\ copied_funcs' = {} /\ at'[t] \in {"app", "predict_set"}
        /\ \A r \in Rtn : text'[r] = ZERO
        /\ todo'[t] = {}
    BY <1>8 DEF BlankClear, WorkInv, Idle
  <2>2. At(t)'
    BY <2>1 DEF At, LoopPoints, OpenPoints, Idle
  <2>3. \A u \in Thread : At(u)'
    BY <1>5, <2>2
  <2> QED BY <2>1, <2>3 DEF WorkInv, At, RecordedIsComplete, CODE, ZERO
<1> QED BY <1>6, <1>7, <1>8 DEF BlankStep

LEMMA StepsWork ==
    ASSUME Undisturbed, StepsInv, WorkInv, AloneInv, AloneInv', [Next]_vars
    PROVE  WorkInv'
<1>1. CASE UNCHANGED vars
  BY <1>1 DEF vars, idxVars, WorkInv, RecordedIsComplete, Blanking
<1>2. ASSUME NEW t \in Thread, Acts(t) PROVE WorkInv'
  BY <1>2, PlainSteps, CopyWorks, PredictWorks DEF Acts, Handler, CopyStep, StepsInv
<1> QED BY <1>1, <1>2, NextActs

\* All of it holds whenever predictions are undisturbed.
LEMMA WorkCorrect ==
    ASSUME Undisturbed
    PROVE  Spec => [](StepsInv /\ AloneInv /\ WorkInv)
<1>1. Init => StepsInv /\ AloneInv /\ WorkInv
  <2> SUFFICES ASSUME Init PROVE AloneInv /\ WorkInv
    BY InitSteps
  <2> QED BY DEF Init, AloneInv, PredictPoints, BlankPoints, LoopPoints, OpenPoints, WorkInv,
             RecordedIsComplete, CODE, ZERO
<1>2. StepsInv /\ AloneInv /\ WorkInv /\ [Next]_vars => (StepsInv /\ AloneInv /\ WorkInv)'
  BY StepsTyped, StepsCalled, StepsPerm, StepsHeld, StepsFault, StepsAlone, StepsWork DEF StepsInv
<1> QED BY <1>1, <1>2, PTL DEF Spec

\* If predictions are undisturbed, what is recorded is completely written at
\* every moment, for any number of threads inside the copy loops.
THEOREM RecordedCorrect ==
    ASSUME Undisturbed
    PROVE  Spec => []RecordedIsComplete
<1>1. WorkInv => RecordedIsComplete
  BY DEF WorkInv
<1> QED BY <1>1, WorkCorrect, PTL

\* Under the same assumption the loop over a predicted set never runs past its
\* end, although it reads pred_set_idx anew in every round.
THEOREM LoopsEnd ==
    ASSUME Undisturbed
    PROVE  Spec => [](\A t \in Thread : ~PastEnd(t))
<1>1. AloneInv => \A t \in Thread : ~PastEnd(t)
  BY DEF AloneInv, PastEnd
<1> QED BY <1>1, WorkCorrect, PTL

\* Under the same assumption a copy is skipped only where it is there.
THEOREM SkipsCorrect ==
    ASSUME Undisturbed
    PROVE  Spec => SkipsOnlyWhatIsThere
<1> DEFINE Skips == \A t \in Thread : at[t] = "app" /\ at'[t] = "lib"
                                        => text[running'[t]] = CODE
<1>1. StepsInv /\ AloneInv /\ WorkInv /\ AloneInv' /\ [Next]_vars => [Skips]_vars
  <2> SUFFICES ASSUME StepsInv, AloneInv, WorkInv, AloneInv', Next, NEW t \in Thread,
                      at[t] = "app", at'[t] = "lib"
               PROVE  text[running'[t]] = CODE
    OBVIOUS
  <2>1. TypeOK
    BY DEF StepsInv
  <2>2. PICK u \in Thread : Acts(u)
    BY NextActs
  <2>3. u = t
    BY <2>1, <2>2, OthersStay
  <2>4. PICK r \in Rtn : Enter(t, r)
    BY <2>1, <2>2, <2>3 DEF Acts, Handler, CopyStep, BlankStep, CopyFind, CopyHit, CopyBegin,
       CopyNext, CopyEnd, CopyRunsOn, CopyWrite, CopyRecord, CopySeal, Leave, PredictLazy,
       PredictEager, BlankBegin, BlankUnseal, BlankWrite, BlankSeal, BlankClear, PredictSet,
       WriteFault, Step, TypeOK
  <2>5. r \in copied_funcs /\ running'[t] = r
    BY <2>1, <2>4 DEF Enter, Step, TypeOK
  <2>6. ~Blanking
    <3>1. at[t] \notin BlankPoints
      BY DEF BlankPoints, LoopPoints
    <3>2. \A x \in Thread : x # t => at'[x] = at[x]
      BY <2>1, <2>2, <2>3, OthersStay
    <3>3. \A x \in Thread : x # t => at'[x] \notin PredictPoints
      BY DEF AloneInv
    <3> QED BY <3>1, <3>2, <3>3 DEF Blanking, PredictPoints
  <2> QED BY <2>5, <2>6 DEF WorkInv, RecordedIsComplete
<1>2. Spec => [][Skips]_vars
  BY <1>1, WorkCorrect, PTL DEF Spec
<1> QED BY <1>2 DEF SkipsOnlyWhatIsThere
--------------------------------------------------------------------------------
(***************************************************************************)
(* Undisturbed, the interleaved handlers implement Debloat. The mapping is *)
(* that of Promise: the bodies really in the text, with those a loop is    *)
(* about to write and those a blanking has not finished with.              *)
(***************************************************************************)
LiveNow == IF Blanking THEN copied_funcs ELSE {r \in Rtn : text[r] = CODE} \union Loading
ChainNow == PredSets[IF Blanking /\ Lazy THEN old_pred_set_idx ELSE pred_set_idx]

\* A thread that copies changes the lists of no other.
LEMMA CopyLists ==
    ASSUME TypeOK, AloneInv, AloneInv', NEW t \in Thread, Acts(t),
           CopyStep(t) \/ WriteFault(t) \/ Leave(t) \/ \E r \in Rtn : Enter(t, r)
    PROVE  \A u \in Thread \ {t} : todo'[u] = todo[u]
<1>1. CASE CopyRecord(t)
  <2>1. \A u \in Thread : at[u] \notin LoopPoints
    BY <1>1 DEF CopyRecord, Step, AloneInv, PredictPoints, BlankPoints, LoopPoints
  <2> QED BY <1>1, <2>1 DEF CopyRecord, TypeOK
<1>2. CASE ~CopyRecord(t)
  BY <1>2 DEF CopyStep, Enter, CopyFind, CopyHit, CopyBegin, CopyNext, CopyEnd, CopyRunsOn,
     CopyWrite, CopySeal, Leave, WriteFault, Seal, TypeOK
<1> QED BY <1>1, <1>2

\* Steps of a copy, an entry and a return leave Blanking and the index alone.
LEMMA CopyQuiet ==
    ASSUME TypeOK, AloneInv, AloneInv', NEW t \in Thread, Acts(t),
           CopyStep(t) \/ Leave(t) \/ \E r \in Rtn : Enter(t, r)
    PROVE  /\ Blanking' <=> Blanking
           /\ UNCHANGED <<ChainNow, pred_set_idx>>
           /\ CopyStep(t) => ~Blanking
<1> USE DEF TypeOK, Step
<1>1. at[t] \notin BlankPoints /\ at'[t] \notin BlankPoints /\ UNCHANGED idxVars
  BY DEF CopyStep, Enter, CopyFind, CopyHit, CopyBegin, CopyNext, CopyEnd, CopyRunsOn, PastEnd,
     CopyWrite, CopyRecord, CopySeal, Leave, BlankPoints, LoopPoints
<1>2. Blanking' <=> Blanking
  BY <1>1, OthersStay DEF Blanking
<1>3. CopyStep(t) => at[t] \in CopyPoints
  BY DEF CopyStep, CopyFind, CopyHit, CopyBegin, CopyNext, CopyEnd, CopyRunsOn, PastEnd,
     CopyWrite, CopyRecord, CopySeal, CopyPoints
<1> QED BY <1>1, <1>2, <1>3, Apart DEF ChainNow, idxVars

\* The moment a list is made is that of Run: it holds the routine entered, and
\* else only routines of the prediction.
LEMMA ListRuns ==
    ASSUME TypeOK, CalledInv, AloneInv, AloneInv', WorkInv, NEW t \in Thread, Acts(t),
           CopyHit(t) \/ CopyBegin(t)
    PROVE  /\ UNCHANGED ChainNow
           /\ \/ UNCHANGED LiveNow
              \/ /\ running[t] \in Rtn /\ running[t] \in LiveNow'
                 /\ LiveNow \subseteq LiveNow'
                 /\ LiveNow' \subseteq LiveNow \union {running[t]} \union ChainNow
<1> USE DEF TypeOK, Step
<1>1. /\ ~Blanking /\ ~Blanking' /\ UNCHANGED <<text, ChainNow>>
      /\ ChainNow = PredSets[pred_set_idx]
  BY CopyQuiet DEF CopyStep, CopyHit, CopyBegin, ChainNow
<1>2. /\ \A u \in Thread \ {t} : UNCHANGED <<at[u], todo[u]>>
      /\ at[t] \in CopyPoints /\ at'[t] \in CopyPoints /\ todo[t] = {} /\ running[t] \in Rtn
  <2>1. at[t] \in {"copy_hit", "copy_begin"} /\ at'[t] \in {"copy_begin", "copy_next"}
    BY DEF CopyHit, CopyBegin
  <2> QED BY <2>1, OthersStay, CopyLists DEF CopyStep, CopyPoints, WorkInv, Idle, CalledInv
<1>3. Loading' = Loading \union todo'[t]
  BY <1>2 DEF Loading
<1>4. LiveNow' = LiveNow \union todo'[t]
  BY <1>1, <1>3 DEF LiveNow
<1>5. \/ todo'[t] = {}
      \/ running[t] \in todo'[t] /\ todo'[t] \subseteq {running[t]} \union PredSets[pred_set_idx]
  <2>1. CASE CopyHit(t)
    BY <1>2, <2>1 DEF CopyHit
  <2>2. CASE CopyBegin(t)
    BY <2>2 DEF CopyBegin, WorkInv
  <2> QED BY <2>1, <2>2
<1> QED BY <1>1, <1>2, <1>4, <1>5

\* The other steps of a copy, an entry and a return are invisible: what is
\* dropped from a list is in the text, what is written was on it.
LEMMA CopyStutters ==
    ASSUME TypeOK, PermInv, AloneInv, AloneInv', WorkInv, NEW t \in Thread, Acts(t),
           CopyStep(t) \/ Leave(t) \/ \E r \in Rtn : Enter(t, r),
           ~CopyHit(t), ~CopyBegin(t)
    PROVE  UNCHANGED <<LiveNow, ChainNow>>
<1> USE DEF TypeOK, Step
<1>1. (Blanking' <=> Blanking) /\ UNCHANGED ChainNow /\ (CopyStep(t) => ~Blanking)
  BY CopyQuiet
<1>2. \A u \in Thread \ {t} : UNCHANGED <<at[u], todo[u]>>
  BY OthersStay, CopyLists
<1>3. CASE \/ CopyFind(t) \/ CopyEnd(t) \/ CopyNext(t) \/ CopyRecord(t) \/ Leave(t)
           \/ \E r \in Rtn : Enter(t, r)
  <2>1. UNCHANGED text /\ (Blanking => UNCHANGED copied_funcs)
    BY <1>1, <1>3 DEF CopyFind, CopyEnd, CopyNext, CopyRecord, Leave, Enter, CopyStep
  <2>2. \/ todo'[t] = todo[t] /\ at[t] \in CopyPoints /\ at'[t] \in CopyPoints
        \/ todo'[t] = {} /\ todo[t] = {}
    <3>1. CASE CopyRecord(t)
      <4>1. at[t] = "copy_record" /\ at'[t] = "copy_seal" /\ todo'[t] = todo[t]
        BY <3>1 DEF CopyRecord, LoopPoints
      <4> QED BY <4>1 DEF CopyPoints
    <3>2. CASE CopyNext(t)
      BY <3>2 DEF CopyNext, CopyPoints
    <3>3. CASE CopyFind(t) \/ CopyEnd(t) \/ \E r \in Rtn : Enter(t, r)
      BY <3>3 DEF CopyFind, CopyEnd, AtEnd, Enter, WorkInv, Idle
    <3>4. CASE Leave(t)
      <4>1. at[t] \notin CopyPoints /\ at'[t] \notin CopyPoints /\ UNCHANGED todo
        BY <3>4 DEF Leave, CopyPoints
      <4>2. todo'[t] = todo[t]
        BY <4>1
      <4> QED BY <1>2, <3>4, <4>1, <4>2 DEF Leave, WorkInv, Idle
    <3> QED BY <1>3, <3>1, <3>2, <3>3, <3>4
  <2>3. Loading' = Loading
    BY <1>2, <2>2 DEF Loading
  <2> QED BY <1>1, <2>1, <2>3 DEF LiveNow
<1>4. CASE CopyWrite(t)
  <2>1. /\ cur[t] \in Rtn /\ cur[t] \in todo[t] /\ todo'[t] = todo[t]
        /\ at[t] \in CopyPoints /\ at'[t] \in CopyPoints
        /\ text' = [text EXCEPT ![cur[t]] = CODE]
    BY <1>4 DEF CopyWrite, WriteBody, PermInv, Holds, WorkInv, OpenPoints, CopyPoints
  <2>2. Loading' = Loading /\ cur[t] \in Loading
    BY <1>2, <2>1 DEF Loading
  <2>3. {r \in Rtn : text'[r] = CODE} = {r \in Rtn : text[r] = CODE} \union {cur[t]}
    BY <2>1
  <2> QED BY <1>1, <1>4, <2>2, <2>3 DEF LiveNow, CopyStep
<1>5. CASE CopySeal(t)
  <2>1. /\ cur[t] \in Rtn /\ text[cur[t]] = CODE /\ text' = text
        /\ at[t] \in CopyPoints /\ at'[t] \in CopyPoints
        /\ todo'[t] = todo[t] \ {cur[t]}
    BY <1>5 DEF CopySeal, Seal, PermInv, Holds, WorkInv, OpenPoints, CopyPoints
  <2>2. Loading \subseteq Loading' \union {cur[t]} /\ Loading' \subseteq Loading
    BY <1>2, <2>1 DEF Loading
  <2> QED BY <1>1, <1>5, <2>1, <2>2 DEF LiveNow, CopyStep
<1>6. CASE CopyRunsOn(t)
  BY <1>6 DEF CopyRunsOn, PastEnd, AloneInv
<1> QED BY <1>3, <1>4, <1>5, <1>6 DEF CopyStep

\* With nobody copying, the bodies in the text are those recorded.
LEMMA AloneLive ==
    ASSUME TypeOK, WorkInv, NEW t \in Thread, at[t] \in PredictPoints \union {"app"},
           \A u \in Thread \ {t} : at[u] = "app"
    PROVE  LiveNow = copied_funcs /\ Loading = {}
<1>1. \A u \in Thread : at[u] \notin CopyPoints
  BY DEF PredictPoints, BlankPoints, LoopPoints, CopyPoints
<1>2. Loading = {} /\ \A u \in Thread : at[u] # "copy_record"
  BY <1>1 DEF Loading, CopyPoints
<1>3. CASE ~Blanking
  BY <1>2, <1>3 DEF LiveNow, WorkInv, RecordedIsComplete, TypeOK
<1> QED BY <1>2, <1>3 DEF LiveNow

\* A blanking removes every body when it ends, and the chain changes then or,
\* in the other build, in the next step.
LEMMA PredictRepredicts ==
    ASSUME Undisturbed, TypeOK, TypeOK', AloneInv, AloneInv', WorkInv, WorkInv',
           NEW t \in Thread, Acts(t),
           BlankStep(t) \/ \E idx \in PredIdx : PredictLazy(t, idx) \/ PredictEager(t, idx)
    PROVE  \/ UNCHANGED <<LiveNow, ChainNow>>
           \/ LiveNow' = {} /\ ChainNow' \subseteq Rtn
<1> USE DEF Step
<1>1. /\ at[t] \in PredictPoints \union {"app"} /\ at'[t] \in PredictPoints \union {"app"}
      /\ \A u \in Thread \ {t} : at[u] = "app" /\ at'[u] = "app"
  <2>1. at[t] \in PredictPoints \union {"app"} /\ at'[t] \in PredictPoints \union {"app"}
    BY DEF TypeOK, BlankStep, BlankBegin, BlankUnseal, BlankWrite, BlankSeal, BlankClear,
       PredictSet, PredictLazy, PredictEager, PredictPoints, BlankPoints, LoopPoints
  <2>2. \A u \in Thread \ {t} : at[u] = "app"
    BY DEF BlankStep, BlankBegin, BlankUnseal, BlankWrite, BlankSeal, BlankClear, PredictSet,
           PredictLazy, PredictEager, MayPredict, Undisturbed, SingleThread, AloneInv,
           PredictPoints, BlankPoints, LoopPoints
  <2> QED BY <2>1, <2>2, OthersStay
<1>2. LiveNow = copied_funcs /\ LiveNow' = copied_funcs'
  <2>1. LiveNow = copied_funcs
    BY <1>1, AloneLive
  <2>2. LiveNow' = copied_funcs'
    <3>1. \A u \in Thread : at'[u] \notin CopyPoints
      BY <1>1 DEF PredictPoints, BlankPoints, LoopPoints, CopyPoints
    <3>2. Loading' = {} /\ \A u \in Thread : at'[u] # "copy_record"
      BY <3>1 DEF Loading, CopyPoints
    <3>3. CASE ~Blanking'
      BY <3>2, <3>3 DEF LiveNow, WorkInv, RecordedIsComplete, TypeOK
    <3> QED BY <3>2, <3>3 DEF LiveNow
  <2> QED BY <2>1, <2>2
<1>3. (Blanking <=> at[t] \in BlankPoints) /\ (Blanking' <=> at'[t] \in BlankPoints)
  BY <1>1 DEF Blanking, BlankPoints, LoopPoints
<1>4. ChainNow' \subseteq Rtn
  BY StepsAssumption DEF ChainNow, TypeOK, PredIdx
<1>5. CASE \E idx \in PredIdx : PredictLazy(t, idx) \/ PredictEager(t, idx)
  <2>1. PICK idx \in PredIdx : PredictLazy(t, idx) \/ PredictEager(t, idx)
    BY <1>5
  <2>2. ~Blanking /\ UNCHANGED copied_funcs /\ at[t] = "app"
    BY <1>3, <2>1 DEF PredictLazy, PredictEager, BlankPoints, LoopPoints
  <2>3. CASE PredictLazy(t, idx)
    BY <1>2, <1>3, <2>2, <2>3 DEF PredictLazy, ChainNow, BlankPoints, TypeOK
  <2>4. CASE PredictEager(t, idx)
    BY <1>2, <1>3, <2>2, <2>4 DEF PredictEager, ChainNow, idxVars
  <2> QED BY <2>1, <2>3, <2>4
<1>6. CASE BlankBegin(t) \/ BlankUnseal(t) \/ BlankWrite(t) \/ BlankSeal(t)
  <2>1. UNCHANGED <<copied_funcs, idxVars>> /\ at[t] \in BlankPoints /\ at'[t] \in BlankPoints
    BY <1>6 DEF BlankBegin, BlankUnseal, BlankWrite, BlankSeal, BlankPoints, LoopPoints, TypeOK
  <2> QED BY <1>2, <1>3, <2>1 DEF ChainNow, idxVars
<1>7. CASE BlankClear(t)
  BY <1>2, <1>4, <1>7 DEF BlankClear
<1>8. CASE PredictSet(t)
  <2>1. at[t] = "predict_set" /\ UNCHANGED copied_funcs
    BY <1>8 DEF PredictSet
  <2>2. ~Blanking /\ \A r \in Rtn : text[r] = ZERO
    BY <1>3, <2>1 DEF WorkInv, BlankPoints, LoopPoints
  <2>3. copied_funcs = {}
    BY <2>2 DEF WorkInv, RecordedIsComplete, TypeOK, CODE, ZERO
  <2> QED BY <1>2, <1>4, <2>1, <2>3
<1> QED BY <1>5, <1>6, <1>7, <1>8 DEF BlankStep

\* If threads predict only while the others are in the application, or there is
\* one thread, the handlers interleaved step by step implement Debloat: the
\* text, not only the records, is at all times what the promise allows.
THEOREM StepsPromiseKept ==
    ASSUME Undisturbed
    PROVE  Spec => KeepsPromise
<1>1. Init => Promise!AbsInit
  <2> SUFFICES ASSUME Init PROVE Promise!AbsInit
    OBVIOUS
  <2>1. ~Blanking /\ Loading = {} /\ {r \in Rtn : text[r] = CODE} = {}
    BY DEF Init, Blanking, Loading, BlankPoints, LoopPoints, CopyPoints, CODE, ZERO
  <2>2. PredSets[pred_set_idx] \subseteq Rtn
    BY StepsAssumption DEF Init, PredIdx
  <2> QED BY <2>1, <2>2 DEF Promise!AbsInit
<1>2. StepsInv /\ StepsInv' /\ AloneInv /\ AloneInv' /\ WorkInv /\ WorkInv' /\ [Next]_vars
        => [Promise!AbsNext]_(Promise!absVars)
  <2> SUFFICES ASSUME StepsInv, StepsInv', AloneInv, AloneInv', WorkInv, WorkInv', [Next]_vars
               PROVE  [Promise!AbsNext]_(Promise!absVars)
    OBVIOUS
  <2>0. TypeOK /\ TypeOK' /\ PermInv /\ CalledInv
    BY DEF StepsInv
  <2>1. LiveNow' \subseteq Rtn
    BY <2>0 DEF LiveNow, Loading, TypeOK
  <2>2. ASSUME NEW r \in Rtn, r \in LiveNow', LiveNow \subseteq LiveNow', UNCHANGED ChainNow,
               LiveNow' \subseteq LiveNow \union {r} \union ChainNow
        PROVE  Promise!AbsNext
    BY <2>1, <2>2 DEF LiveNow, ChainNow, Promise!AbsNext, Promise!Run
  <2>3. ASSUME LiveNow' = {}, ChainNow' \subseteq Rtn
        PROVE  Promise!AbsNext
    BY <2>3 DEF LiveNow, ChainNow, Promise!AbsNext, Promise!Repredict
  <2>4. ASSUME UNCHANGED <<LiveNow, ChainNow>>
        PROVE  [Promise!AbsNext]_(Promise!absVars)
    BY <2>4 DEF LiveNow, ChainNow, Promise!absVars
  <2>5. ASSUME NEW t \in Thread, Acts(t)
        PROVE  [Promise!AbsNext]_(Promise!absVars)
    <3>1. CASE CopyHit(t) \/ CopyBegin(t)
      <4>1. \/ UNCHANGED <<LiveNow, ChainNow>>
            \/ /\ running[t] \in Rtn /\ running[t] \in LiveNow' /\ LiveNow \subseteq LiveNow'
               /\ UNCHANGED ChainNow
               /\ LiveNow' \subseteq LiveNow \union {running[t]} \union ChainNow
        BY <2>0, <2>5, <3>1, ListRuns
      <4> QED BY <2>2, <2>4, <4>1
    <3>2. CASE (CopyStep(t) \/ Leave(t) \/ \E r \in Rtn : Enter(t, r))
               /\ ~CopyHit(t) /\ ~CopyBegin(t)
      BY <2>0, <2>4, <2>5, <3>2, CopyStutters
    <3>3. CASE WriteFault(t)
      BY <2>4, <3>3 DEF WriteFault, LiveNow, ChainNow, Blanking, Loading, idxVars
    <3>4. CASE BlankStep(t) \/ \E idx \in PredIdx : PredictLazy(t, idx) \/ PredictEager(t, idx)
      <4>1. UNCHANGED <<LiveNow, ChainNow>> \/ (LiveNow' = {} /\ ChainNow' \subseteq Rtn)
        BY <2>0, <2>5, <3>4, PredictRepredicts
      <4> QED BY <2>3, <2>4, <4>1
    <3> QED BY <2>5, <3>1, <3>2, <3>3, <3>4 DEF Acts, Handler
  <2>6. CASE UNCHANGED vars
    BY <2>4, <2>6 DEF vars, idxVars, LiveNow, ChainNow, Blanking, Loading
  <2> QED BY <2>5, <2>6, NextActs
<1> QED BY <1>1, <1>2, WorkCorrect, PTL DEF Spec, KeepsPromise, Promise!AbsSpec

================================================================================
