-------------------------- MODULE DecryptProbeProofs ---------------------------
(***************************************************************************)
(* Proofs about DecryptProbe, for every choice of libraries, lists, names, *)
(* prediction sets, build flags and stack depth.                           *)
(***************************************************************************)
EXTENDS DecryptProbe, SequenceTheorems, TLAPS

\* The environment in which image_load saves only real code: no list leads to a
\* routine twice, or Pin refuses a second probe.
LEMMA ListedRtnFresh ==
    ASSUME CleanLists, BookkeepingInv, loading # NoImage, pos <= Len(Approved[loading]),
           ListedRtn # NoRtn, CanProbe(ListedRtn)
    PROVE  /\ ListedRtn \in Rtn \ Probed
           /\ loading \in Image /\ pos \in DOMAIN Approved[loading]
           /\ ImageOf[ListedRtn] = loading
           /\ ListedRtn = ListedAt(loading, pos)
           /\ ListedRtn \in Findable
<1> USE ConstantsAssumption
<1>1. loading \in Image /\ pos \in 1..Len(Approved[loading])
  BY DEF BookkeepingInv, TypeOK, ProbedWereListed
<1>2. Approved[loading] \in Seq(Name)
  BY <1>1
<1>3. pos \in DOMAIN Approved[loading] /\ Approved[loading][pos] \in Name
  BY <1>1, <1>2
<1>4. /\ ListedRtn \in Rtn /\ ImageOf[ListedRtn] = loading
      /\ ListedRtn = ListedAt(loading, pos)
      /\ ListedRtn \in Findable
  BY <1>1, <1>3 DEF ListedRtn, ListedAt, Findable
<1>5. ListedRtn \notin Probed
  <2>1. CASE ~Reprobe
    BY <2>1 DEF CanProbe, Probed
  <2>2. CASE Reprobe
    <3>1. SUFFICES ASSUME ListedRtn \in Probed PROVE FALSE
      OBVIOUS
    <3>2. loading \notin loaded
      BY DEF BookkeepingInv, ProbedWereListed
    <3>3. PICK i \in DOMAIN Approved[loading] :
             i < pos /\ ListedAt(loading, i) = ListedRtn
      BY <3>1, <3>2, <1>4 DEF BookkeepingInv, ProbedWereListed
    <3>4. i = pos
      BY <3>3, <1>1, <1>3, <1>4, <2>2 DEF CleanLists, ListedAt
    <3>. QED
      BY <3>3, <3>4, <1>1
  <2>. QED
    BY <2>1, <2>2
<1>. QED
  BY <1>1, <1>3, <1>4, <1>5

\* The bookkeeping is right before anything is loaded.
LEMMA InitBookkeeping == Init => BookkeepingInv
<1> SUFFICES ASSUME Init PROVE BookkeepingInv
  OBVIOUS
<1> USE ConstantsAssumption DEF Init
<1>1. TypeOK
  BY DEF TypeOK, CODE, ZERO, NONE
<1>2. Probed = {}
  BY DEF Probed
<1>3. UnprobedUntouched
  BY DEF UnprobedUntouched
<1>4. CopiesIntact /\ CopiedExactlyLive /\ NamesKnown /\ ProbedWereListed
  BY <1>2 DEF CopiesIntact, CopiedExactlyLive, NamesKnown, ProbedWereListed
<1>. QED
  BY <1>1, <1>3, <1>4 DEF BookkeepingInv

\* What pushing and popping a frame does to the stack.
LEMMA StackSteps ==
    ASSUME NEW F, NEW s \in Seq(F)
    PROVE  /\ \A f \in F : /\ Append(s, f) \in Seq(F)
                          /\ Len(Append(s, f)) = Len(s) + 1
                          /\ \A i \in 1..Len(s) : Append(s, f)[i] = s[i]
                          /\ Append(s, f)[Len(s) + 1] = f
           /\ s # <<>> => /\ SubSeq(s, 1, Len(s) - 1) \in Seq(F)
                          /\ Len(SubSeq(s, 1, Len(s) - 1)) = Len(s) - 1
                          /\ \A i \in 1..Len(s) - 1 : SubSeq(s, 1, Len(s) - 1)[i] = s[i]
<1>1. ASSUME NEW f \in F
      PROVE  /\ Append(s, f) \in Seq(F)
             /\ Len(Append(s, f)) = Len(s) + 1
             /\ \A i \in 1..Len(s) : Append(s, f)[i] = s[i]
             /\ Append(s, f)[Len(s) + 1] = f
  BY AppendProperties
<1>2. ASSUME s # <<>>
      PROVE  /\ SubSeq(s, 1, Len(s) - 1) \in Seq(F)
             /\ Len(SubSeq(s, 1, Len(s) - 1)) = Len(s) - 1
             /\ \A i \in 1..Len(s) - 1 : SubSeq(s, 1, Len(s) - 1)[i] = s[i]
  <2> DEFINE n == Len(s) - 1
  <2>1. n \in 0..Len(s)
    BY <1>2, EmptySeq
  <2>2. /\ SubSeq(s, 1, n) \in Seq(F)
        /\ Len(SubSeq(s, 1, n)) = n
        /\ \A i \in 1..n : SubSeq(s, 1, n)[i] = s[i]
    <3> HIDE <1>2 DEF n
    <3>. QED
      BY <2>1
  <2>. QED
    BY <2>2
<1>. QED
  BY <1>1, <1>2

\* Loading an image keeps the bookkeeping.
LEMMA LoadBookkeeping ==
    ASSUME CleanLists, BookkeepingInv, Load
    PROVE  BookkeepingInv'
<1> USE ConstantsAssumption
<1>1. ASSUME NEW img \in Image, ImageLoad(img) PROVE BookkeepingInv'
  <2> USE <1>1 DEF ImageLoad, mapVars, predVars, auditVars, history
  <2>1. TypeOK'
    BY DEF BookkeepingInv, TypeOK
  <2>2. Probed' = Probed
    BY DEF Probed
  <2>3. ProbedWereListed'
    BY <2>2 DEF BookkeepingInv, ProbedWereListed
  <2>. QED
    BY <2>1, <2>2, <2>3 DEF BookkeepingInv, UnprobedUntouched, CopiesIntact,
                            CopiedExactlyLive, NamesKnown
<1>2. ASSUME SkipListed PROVE BookkeepingInv'
  <2> USE <1>2 DEF SkipListed, mapVars, predVars, auditVars, history
  <2>1. TypeOK'
    BY DEF BookkeepingInv, TypeOK
  <2>2. Probed' = Probed
    BY DEF Probed
  <2>3. ProbedWereListed'
    BY <2>2 DEF BookkeepingInv, ProbedWereListed, TypeOK
  <2>. QED
    BY <2>1, <2>2, <2>3 DEF BookkeepingInv, UnprobedUntouched, CopiesIntact,
                            CopiedExactlyLive, NamesKnown
<1>3. ASSUME ProbeListed PROVE BookkeepingInv'
  <2> DEFINE r == ListedRtn
  <2>1. /\ r \in (Rtn \ Probed) \intersect Findable
        /\ ImageOf[r] = loading /\ r = ListedAt(loading, pos)
        /\ pos \in DOMAIN Approved[loading]
    BY <1>3, ListedRtnFresh DEF ProbeListed
  <2>2. text[r] = CODE /\ probes[r] = {}
    BY <2>1 DEF BookkeepingInv, UnprobedUntouched, Probed
  <2>3. /\ addr_to_copy' = [addr_to_copy EXCEPT ![r] = CODE]
        /\ name_to_addr' = [name_to_addr EXCEPT ![RtnName[r]] = r]
        /\ text' = [text EXCEPT ![r] = ZERO]
        /\ probes' = [probes EXCEPT ![r] = {CODE}]
        /\ pos' = pos + 1
        /\ UNCHANGED <<copied_funcs, predVars, auditVars, loaded, loading, stack, history>>
    BY <1>3, <2>1, <2>2 DEF ProbeListed, Instrument, BookkeepingInv, TypeOK
  <2> HIDE DEF r
  <2>4. TypeOK'
    BY <2>1, <2>3 DEF BookkeepingInv, TypeOK, predVars, auditVars, history
  <2>5. Probed' = Probed \union {r}
    <3>1. \A x \in Rtn : probes'[x] = IF x = r THEN {CODE} ELSE probes[x]
      BY <2>3 DEF BookkeepingInv, TypeOK
    <3>2. \A x \in Rtn : probes'[x] # {} <=> (x = r \/ probes[x] # {})
      BY <3>1
    <3>. QED
      BY <2>1, <3>2 DEF Probed
  <2>6. UnprobedUntouched'
    BY <2>1, <2>3, <2>5 DEF BookkeepingInv, UnprobedUntouched, TypeOK
  <2>7. CopiesIntact'
    BY <2>1, <2>3, <2>5 DEF BookkeepingInv, CopiesIntact, TypeOK
  <2>8. CopiedExactlyLive'
    BY <2>1, <2>3, <2>5 DEF BookkeepingInv, CopiedExactlyLive, TypeOK, CODE, ZERO
  <2>9. NamesKnown'
    BY <2>1, <2>3, <2>5 DEF BookkeepingInv, NamesKnown, TypeOK
  <2>10. ProbedWereListed'
    <3>1. loading' \notin loaded' /\ pos' >= 1 /\ Probed' \subseteq Findable
      BY <2>1, <2>3, <2>5 DEF BookkeepingInv, ProbedWereListed, TypeOK
    <3>2. ASSUME NEW s \in Probed'
          PROVE  \/ ImageOf[s] \in loaded'
                 \/ /\ loading' # NoImage
                    /\ \E i \in DOMAIN Approved[loading'] :
                         i < pos' /\ ListedAt(loading', i) = s
      <4>1. CASE s = r
        <5>1. loading' = loading /\ loading # NoImage /\ pos < pos'
          BY <2>3, <1>3 DEF ProbeListed, BookkeepingInv, TypeOK
        <5>. QED
          BY <4>1, <5>1, <2>1, <2>3 DEF ListedAt
      <4>2. CASE s \in Probed
        BY <4>2, <2>3 DEF ListedAt, BookkeepingInv, TypeOK, ProbedWereListed
      <4>. QED
        BY <3>2, <4>1, <4>2, <2>5
    <3>. QED
      BY <3>1, <3>2 DEF ProbedWereListed
  <2>. QED
    BY <2>4, <2>6, <2>7, <2>8, <2>9, <2>10 DEF BookkeepingInv
<1>4. ASSUME ImageLoaded PROVE BookkeepingInv'
  <2> USE <1>4 DEF ImageLoaded, mapVars, predVars, auditVars, history
  <2>1. TypeOK'
    BY DEF BookkeepingInv, TypeOK
  <2>2. Probed' = Probed
    BY DEF Probed
  <2>3. \A r \in Probed : ImageOf[r] \in loaded \/ ImageOf[r] = loading
    <3>1. ASSUME NEW r \in Probed, ImageOf[r] \notin loaded PROVE ImageOf[r] = loading
      <4>1. PICK i \in DOMAIN Approved[loading] : ListedAt(loading, i) = r
        BY <3>1 DEF BookkeepingInv, ProbedWereListed
      <4>2. loading \in Image /\ Approved[loading][i] \in Name /\ r # NoRtn
        BY <3>1, <4>1 DEF BookkeepingInv, TypeOK, Probed
      <4>. QED
        BY <4>1, <4>2 DEF ListedAt
    <3>. QED
      BY <3>1
  <2>4. ProbedWereListed'
    BY <2>2, <2>3 DEF BookkeepingInv, ProbedWereListed, TypeOK
  <2>. QED
    BY <2>1, <2>2, <2>4 DEF BookkeepingInv, UnprobedUntouched, CopiesIntact,
                            CopiedExactlyLive, NamesKnown
<1>. QED
  BY <1>1, <1>2, <1>3, <1>4 DEF Load

\* Writing saved bodies over probed routines, recording them, keeps the
\* agreement of copied_funcs with the text.
LEMMA CopyAuxBookkeeping ==
    ASSUME BookkeepingInv, NEW rs \in SUBSET Probed, NEW copy,
           \A r \in rs : copy[r] = CODE,
           ProbeCopyAux(rs, copy), UNCHANGED mapVars
    PROVE  /\ text' \in [Rtn -> {CODE, ZERO}] /\ copied_funcs' \subseteq Rtn
           /\ Probed' = Probed
           /\ UnprobedUntouched' /\ CopiesIntact' /\ CopiedExactlyLive' /\ NamesKnown'
           /\ \A r \in rs : text'[r] = CODE
           /\ \A r \in Rtn : text[r] = CODE => text'[r] = CODE
<1>1. Probed' = Probed /\ Probed \subseteq Rtn
  BY DEF Probed, mapVars
<1>2. \A r \in Rtn : text'[r] = IF r \in rs THEN CODE ELSE text[r]
  BY <1>1 DEF ProbeCopyAux
<1>3. text' \in [Rtn -> {CODE, ZERO}] /\ copied_funcs' \subseteq Rtn
  BY <1>1 DEF ProbeCopyAux, BookkeepingInv, TypeOK
<1>4. UnprobedUntouched' /\ CopiedExactlyLive'
  BY <1>1, <1>2 DEF ProbeCopyAux, BookkeepingInv, UnprobedUntouched, CopiedExactlyLive
<1>5. CopiesIntact' /\ NamesKnown'
  BY <1>1 DEF mapVars, BookkeepingInv, CopiesIntact, NamesKnown
<1>. QED
  BY <1>1, <1>2, <1>3, <1>4, <1>5

\* Blanking what copied_funcs lists leaves no body of a probed routine behind.
LEMMA BlankAuxBookkeeping ==
    ASSUME BookkeepingInv, ProbeBlankAux, UNCHANGED mapVars
    PROVE  /\ text' \in [Rtn -> {CODE, ZERO}] /\ copied_funcs' = {}
           /\ Probed' = Probed
           /\ UnprobedUntouched' /\ CopiesIntact' /\ CopiedExactlyLive' /\ NamesKnown'
<1>1. Probed' = Probed /\ Probed \subseteq Rtn
  BY DEF Probed, mapVars
<1>2. \A r \in Rtn : text'[r] = IF r \in copied_funcs THEN ZERO ELSE text[r]
  BY DEF ProbeBlankAux
<1>3. text' \in [Rtn -> {CODE, ZERO}] /\ copied_funcs' = {}
  BY DEF ProbeBlankAux, BookkeepingInv, TypeOK
<1>4. copied_funcs = {r \in Probed : text[r] = CODE}
  BY DEF BookkeepingInv, CopiedExactlyLive
<1>5. UnprobedUntouched'
  BY <1>1, <1>2, <1>4 DEF BookkeepingInv, UnprobedUntouched
<1>6. CopiedExactlyLive'
  <2>1. \A r \in Probed : text'[r] # CODE
    BY <1>1, <1>2, <1>4 DEF CODE, ZERO
  <2>. QED
    BY <1>1, <1>3, <2>1 DEF CopiedExactlyLive
<1>7. CopiesIntact' /\ NamesKnown'
  BY <1>1 DEF mapVars, BookkeepingInv, CopiesIntact, NamesKnown
<1>. QED
  BY <1>1, <1>3, <1>5, <1>6, <1>7

\* What probe_copy loads are probed routines with intact copies.
LEMMA WantedProbed ==
    ASSUME BookkeepingInv, NEW r \in Probed
    PROVE  /\ Wanted(r) \in SUBSET Probed
           /\ \A x \in Wanted(r) : addr_to_copy[x] = CODE
<1> USE ConstantsAssumption
<1>1. RtnName[r] \in Name /\ pred_set_idx \in PredIdx
  BY DEF Probed, BookkeepingInv, TypeOK
<1>2. PredSets[pred_set_idx] \subseteq Name
  BY <1>1
<1>3. Chain \subseteq Probed
  BY <1>2 DEF Chain, BookkeepingInv, NamesKnown
<1>4. name_to_addr[RtnName[r]] \in Probed
  BY <1>1 DEF BookkeepingInv, NamesKnown
<1>5. Wanted(r) \in SUBSET Probed
  BY <1>3, <1>4 DEF Wanted
<1>. QED
  BY <1>5 DEF BookkeepingInv, CopiesIntact

\* The frames of a call.
LEMMA CallFrames ==
    ASSUME BookkeepingInv, NEW r \in Rtn, Call(r)
    PROVE  /\ stack' \in Seq(Rtn \union {App}) /\ stale' \in 0..Len(stack')
           /\ Len(stack') = Len(stack) + 1 /\ Len(stack) \in Nat
           /\ stack'[Len(stack) + 1] = r
           /\ \A i \in 1..Len(stack) : stack'[i] = stack[i]
<1>1. stack \in Seq(Rtn \union {App}) /\ stale \in 0..Len(stack)
  BY DEF BookkeepingInv, TypeOK
<1>2. stack' = Append(stack, r) /\ stale' = stale
  BY DEF Call
<1>3. Len(stack) \in Nat
  BY <1>1
<1>. QED
  BY <1>1, <1>2, <1>3, StackSteps

\* Entering a routine keeps the bookkeeping.
LEMMA EnterBookkeeping ==
    ASSUME BookkeepingInv, NEW r \in Rtn, Enter(r)
    PROVE  BookkeepingInv'
<1>1. Call(r)
  BY DEF Enter, CallUnprobed, CallCopied, CallPredicted, CallMispredicted
<1>2. /\ stack' \in Seq(Rtn \union {App}) /\ stale' \in 0..Len(stack')
      /\ UNCHANGED <<mapVars, predVars, loadVars>>
  BY <1>1, CallFrames DEF Call
<1>3. Probed' = Probed
  BY <1>2 DEF mapVars, Probed
<1>4. ProbedWereListed'
  BY <1>2, <1>3 DEF loadVars, BookkeepingInv, ProbedWereListed
<1>5. /\ blank_state' \in {"INACTIVE", "ACTIVE", "MISPREDICTED", "DONE"}
      /\ entry_lib_func' \in Rtn \union {NoRtn}
      /\ entered' \subseteq Rtn /\ first' \in Rtn \union {NoRtn}
  BY DEF Enter, CallUnprobed, CallCopied, CallPredicted, CallMispredicted, AuditEntry,
         Enters, auditVars, BookkeepingInv, TypeOK
<1>6. /\ text' \in [Rtn -> {CODE, ZERO}] /\ copied_funcs' \subseteq Rtn
      /\ UnprobedUntouched' /\ CopiesIntact' /\ CopiedExactlyLive' /\ NamesKnown'
  <2>1. CASE UNCHANGED <<text, copied_funcs>>
    BY <2>1, <1>2, <1>3 DEF mapVars, BookkeepingInv, TypeOK, UnprobedUntouched,
                            CopiesIntact, CopiedExactlyLive, NamesKnown
  <2>2. CASE CallPredicted(r)
    <3>1. r \in Probed /\ ProbeCopyAux(Wanted(r), addr_to_copy)
      BY <2>2 DEF CallPredicted, Probed
    <3>. QED
      BY <3>1, <1>2, WantedProbed, CopyAuxBookkeeping
  <2>3. CASE CallMispredicted(r)
    <3>1. r \in Probed
      BY <2>3 DEF CallMispredicted, Probed
    <3>2. PICK body \in probes[r] : ProbeCopyAux({r}, [x \in {r} |-> body])
      BY <2>3 DEF CallMispredicted
    <3>3. body = CODE
      BY <3>1, <3>2 DEF BookkeepingInv, CopiesIntact
    <3>. QED
      BY <3>1, <3>2, <3>3, <1>2, CopyAuxBookkeeping
  <2>. QED
    BY <2>1, <2>2, <2>3 DEF Enter, CallUnprobed, CallCopied
<1>7. TypeOK'
  BY <1>2, <1>5, <1>6 DEF mapVars, predVars, loadVars, BookkeepingInv, TypeOK
<1>. QED
  BY <1>4, <1>6, <1>7 DEF BookkeepingInv

\* Callbacks and returns touch the stack only.
LEMMA FrameBookkeeping ==
    ASSUME BookkeepingInv, Callback \/ Return
    PROVE  BookkeepingInv'
<1>1. stack \in Seq(Rtn \union {App}) /\ stale \in 0..Len(stack) /\ Len(stack) \in Nat
  BY DEF BookkeepingInv, TypeOK
<1>2. stack' \in Seq(Rtn \union {App}) /\ stale' \in 0..Len(stack')
  <2>1. CASE Callback
    BY <2>1, <1>1, StackSteps DEF Callback, history
  <2>2. CASE Return
    <3>1. /\ stack # <<>> /\ stack' = SubSeq(stack, 1, Len(stack) - 1)
          /\ stale' = IF stale = Len(stack) THEN stale - 1 ELSE stale
      BY <2>2 DEF Return
    <3>2. /\ stack' \in Seq(Rtn \union {App})
          /\ Len(stack') = Len(stack) - 1
      BY <3>1, <1>1, StackSteps
    <3>3. Len(stack) >= 1
      BY <3>1, <1>1, EmptySeq
    <3>. QED
      BY <3>1, <3>2, <3>3, <1>1
  <2>. QED
    BY <2>1, <2>2
<1>3. /\ UNCHANGED <<text, mapVars, copied_funcs, predVars, auditVars, loadVars>>
      /\ UNCHANGED <<entered, first>>
  BY DEF Callback, Return, history
<1>4. Probed' = Probed
  BY <1>3 DEF mapVars, Probed
<1>5. TypeOK'
  BY <1>2, <1>3 DEF mapVars, predVars, auditVars, loadVars, BookkeepingInv, TypeOK
<1>. QED
  BY <1>3, <1>4, <1>5 DEF mapVars, loadVars, BookkeepingInv, UnprobedUntouched,
        CopiesIntact, CopiedExactlyLive, NamesKnown, ProbedWereListed

\* A prediction keeps the bookkeeping, whether or not it blanks.
LEMMA PredictBookkeeping ==
    ASSUME BookkeepingInv, NEW idx \in PredIdx, Predict(idx)
    PROVE  BookkeepingInv'
<1>1. /\ UNCHANGED <<mapVars, loadVars, stack>>
      /\ pred_set_idx' = idx /\ old_pred_set_idx' \in PredIdx
      /\ blank_state' \in {"INACTIVE", "ACTIVE", "MISPREDICTED", "DONE"}
      /\ entry_lib_func' = entry_lib_func
      /\ first' = NoRtn
      /\ ProbeBlankAux \/ UNCHANGED <<text, copied_funcs, entered, stale>>
  BY DEF Predict, PredictEager, PredictLazy, auditVars, BookkeepingInv, TypeOK
<1>2. Probed' = Probed
  BY <1>1 DEF mapVars, Probed
<1>3. /\ text' \in [Rtn -> {CODE, ZERO}] /\ copied_funcs' \subseteq Rtn
      /\ UnprobedUntouched' /\ CopiesIntact' /\ CopiedExactlyLive' /\ NamesKnown'
  <2>1. CASE ProbeBlankAux
    BY <2>1, <1>1, BlankAuxBookkeeping
  <2>2. CASE UNCHANGED <<text, copied_funcs, entered, stale>>
    BY <2>2, <1>1, <1>2 DEF mapVars, BookkeepingInv, TypeOK, UnprobedUntouched,
                            CopiesIntact, CopiedExactlyLive, NamesKnown
  <2>. QED
    BY <1>1, <2>1, <2>2
<1>4. entered' \subseteq Rtn /\ stale' \in 0..Len(stack')
  <2>1. Len(stack) \in Nat
    BY DEF BookkeepingInv, TypeOK
  <2>. QED
    BY <2>1, <1>1 DEF ProbeBlankAux, BookkeepingInv, TypeOK
<1>5. TypeOK'
  BY <1>1, <1>3, <1>4 DEF mapVars, loadVars, BookkeepingInv, TypeOK
<1>6. ProbedWereListed'
  BY <1>1, <1>2 DEF loadVars, BookkeepingInv, ProbedWereListed
<1>. QED
  BY <1>3, <1>5, <1>6 DEF BookkeepingInv

\* Every step keeps the bookkeeping.
LEMMA StepBookkeeping ==
    ASSUME CleanLists, BookkeepingInv, [Next]_vars
    PROVE  BookkeepingInv'
<1>1. CASE Load
  BY <1>1, LoadBookkeeping
<1>2. CASE \E r \in Rtn : Enter(r)
  BY <1>2, EnterBookkeeping
<1>3. CASE Callback \/ Return
  BY <1>3, FrameBookkeeping
<1>4. CASE \E idx \in PredIdx : Predict(idx)
  BY <1>4, PredictBookkeeping
<1>5. CASE UNCHANGED vars
  BY <1>5 DEF vars, mapVars, predVars, auditVars, loadVars, history, BookkeepingInv,
        TypeOK, UnprobedUntouched, CopiesIntact, CopiedExactlyLive, NamesKnown,
        ProbedWereListed, Probed
<1>. QED
  BY <1>1, <1>2, <1>3, <1>4, <1>5 DEF Next

\* Whatever the libraries, lists, predictions, build flags and callbacks, the
\* tool's maps agree with the text in memory: BookkeepingInv always holds if
\* no list leads to a routine twice or Pin refuses to probe one again.
THEOREM BookkeepingCorrect ==
    ASSUME CleanLists
    PROVE  Spec => []BookkeepingInv
<1>1. Init => BookkeepingInv
  BY InitBookkeeping
<1>2. BookkeepingInv /\ [Next]_vars => BookkeepingInv'
  BY StepBookkeeping
<1>. QED
  BY <1>1, <1>2, PTL DEF Spec

\* The type invariant of the tool.
THEOREM ToolTypeCorrect ==
    ASSUME CleanLists
    PROVE  Spec => []TypeOK
<1>1. BookkeepingInv => TypeOK
  BY DEF BookkeepingInv
<1>. QED
  BY <1>1, BookkeepingCorrect, PTL

\* copied_funcs is exactly the set of probed routines whose body is in memory.
THEOREM CopiedCorrect ==
    ASSUME CleanLists
    PROVE  Spec => []CopiedExactlyLive
<1>1. BookkeepingInv => CopiedExactlyLive
  BY DEF BookkeepingInv
<1>. QED
  BY <1>1, BookkeepingCorrect, PTL
--------------------------------------------------------------------------------
(***************************************************************************)
(* What is in memory is justified.                                         *)
(***************************************************************************)

\* What a predicted hit loads carries names of the current prediction.
LEMMA WantedPredicted ==
    ASSUME BookkeepingInv, NEW r \in Probed, Predicted(r)
    PROVE  \A x \in Wanted(r) : Predicted(x)
<1> USE ConstantsAssumption
<1>1. RtnName[r] \in Name /\ pred_set_idx \in PredIdx
  BY DEF Probed, BookkeepingInv, TypeOK
<1>2. PredSets[pred_set_idx] \subseteq Name
  BY <1>1
<1>3. \A x \in Chain : Predicted(x)
  BY <1>2 DEF Chain, Predicted, BookkeepingInv, NamesKnown
<1>4. RtnName[name_to_addr[RtnName[r]]] = RtnName[r]
  BY <1>1 DEF BookkeepingInv, NamesKnown
<1>. QED
  BY <1>3, <1>4 DEF Wanted, Predicted

\* No step leaves a body live that is neither predicted nor entered since.
LEMMA StepJustified ==
    ASSUME BookkeepingInv, LiveJustified, [Next]_vars
    PROVE  LiveJustified'
<1>1. CASE Load
  BY <1>1 DEF Load, ImageLoad, SkipListed, ProbeListed, ImageLoaded, predVars, history,
              LiveJustified, Predicted
<1>2. ASSUME NEW r \in Rtn, Enter(r) PROVE LiveJustified'
  <2>1. UNCHANGED predVars
    BY <1>2 DEF Enter, CallUnprobed, CallCopied, CallPredicted, CallMispredicted, Call
  <2>2. \A x : Predicted(x)' <=> Predicted(x)
    BY <2>1 DEF predVars, Predicted
  <2>3. CASE CallUnprobed(r) \/ CallCopied(r)
    BY <2>2, <2>3 DEF CallUnprobed, CallCopied, Enters, LiveJustified
  <2>4. CASE CallPredicted(r)
    <3>1. r \in Probed /\ \A x \in Wanted(r) : Predicted(x)
      BY <2>4, WantedPredicted DEF CallPredicted, Probed
    <3>2. copied_funcs' = copied_funcs \union Wanted(r) /\ entered \subseteq entered'
      BY <2>4 DEF CallPredicted, ProbeCopyAux, Enters
    <3>. QED
      BY <2>2, <3>1, <3>2 DEF LiveJustified
  <2>5. CASE CallMispredicted(r)
    <3>1. copied_funcs' = copied_funcs \union {r} /\ entered' = entered \union {r}
      BY <2>5 DEF CallMispredicted, ProbeCopyAux, Enters
    <3>. QED
      BY <2>2, <3>1 DEF LiveJustified
  <2>. QED
    BY <1>2, <2>3, <2>4, <2>5 DEF Enter
<1>3. CASE Callback \/ Return
  BY <1>3 DEF Callback, Return, predVars, history, LiveJustified, Predicted
<1>4. ASSUME NEW idx \in PredIdx, Predict(idx) PROVE LiveJustified'
  BY <1>4 DEF Predict, PredictEager, PredictLazy, ProbeBlankAux, LiveJustified, Predicted
<1>5. CASE UNCHANGED vars
  BY <1>5 DEF vars, predVars, history, LiveJustified, Predicted
<1>. QED
  BY <1>1, <1>2, <1>3, <1>4, <1>5 DEF Next

\* No body outlives the prediction that brought it in, whatever names collide.
THEOREM JustifiedCorrect ==
    ASSUME CleanLists
    PROVE  Spec => []LiveJustified
<1>1. Init => LiveJustified
  BY DEF Init, LiveJustified
<1>2. BookkeepingInv /\ LiveJustified /\ [Next]_vars => LiveJustified'
  BY StepJustified
<1>. QED
  BY <1>1, <1>2, BookkeepingCorrect, PTL DEF Spec
--------------------------------------------------------------------------------
(***************************************************************************)
(* Frames pushed since the last blanking have their bodies.                *)
(***************************************************************************)

\* The three parts of FramesInv, with the frames counted in 1..Len(stack).
LEMMA FramesParts ==
    ASSUME TypeOK
    PROVE  FramesInv <=>
             /\ \A i \in 1..Len(stack) : stack[i] # App => ImageOf[stack[i]] \in loaded
             /\ \A r \in Probed : name_to_addr[RtnName[r]] = r
             /\ FreshFramesLive
<1>1. DOMAIN stack = 1..Len(stack)
  BY LenProperties DEF TypeOK
<1>. QED
  BY <1>1 DEF FramesInv

\* Entering r leaves r's body in place: a predicted hit finds r under its name.
LEMMA EnteredLive ==
    ASSUME BookkeepingInv, FramesInv, NEW r \in Rtn, Enter(r)
    PROVE  /\ text'[r] = CODE
           /\ \A x \in Rtn : text[x] = CODE => text'[x] = CODE
<1> USE ConstantsAssumption
<1>1. Call(r)
  BY DEF Enter, CallUnprobed, CallCopied, CallPredicted, CallMispredicted
<1>2. UNCHANGED mapVars
  BY <1>1 DEF Call
<1>3. CASE CallUnprobed(r)
  BY <1>3 DEF CallUnprobed, BookkeepingInv, UnprobedUntouched, Probed
<1>4. CASE CallCopied(r)
  BY <1>4 DEF CallCopied, BookkeepingInv, CopiedExactlyLive
<1>5. CASE CallPredicted(r)
  <2>1. r \in Probed /\ ProbeCopyAux(Wanted(r), addr_to_copy) /\ Predicted(r)
    BY <1>5 DEF CallPredicted, Probed
  <2>2. name_to_addr[RtnName[r]] = r /\ r # NoRtn
    BY <2>1 DEF FramesInv, Probed
  <2>3. r \in Wanted(r)
    <3>1. r \in Chain
      BY <2>1, <2>2 DEF Predicted, Chain
    <3>. QED
      BY <2>2, <3>1 DEF Wanted
  <2>. QED
    BY <2>1, <2>3, <1>2, WantedProbed, CopyAuxBookkeeping
<1>6. CASE CallMispredicted(r)
  <2>1. r \in Probed
    BY <1>6 DEF CallMispredicted, Probed
  <2>2. PICK body \in probes[r] : ProbeCopyAux({r}, [x \in {r} |-> body])
    BY <1>6 DEF CallMispredicted
  <2>3. body = CODE
    BY <2>1, <2>2 DEF BookkeepingInv, CopiesIntact
  <2>. QED
    BY <2>1, <2>2, <2>3, <1>2, CopyAuxBookkeeping
<1>. QED
  BY <1>3, <1>4, <1>5, <1>6 DEF Enter

\* Loading an image leaves the bodies of fresh frames alone.
LEMMA LoadFrames ==
    ASSUME CleanLists, UniqueNames, BookkeepingInv, BookkeepingInv', FramesInv, Load
    PROVE  FramesInv'
<1> USE ConstantsAssumption
<1>1. UNCHANGED stack /\ UNCHANGED stale /\ loaded \subseteq loaded' /\ TypeOK /\ TypeOK'
  BY DEF Load, ImageLoad, SkipListed, ProbeListed, ImageLoaded, history, BookkeepingInv
<1>2. \A i \in 1..Len(stack') : stack'[i] # App => ImageOf[stack'[i]] \in loaded'
  BY <1>1, FramesParts
<1>3. CASE UNCHANGED <<text, mapVars>>
  <2>1. Probed' = Probed /\ name_to_addr' = name_to_addr /\ text' = text
    BY <1>3 DEF mapVars, Probed
  <2>2. /\ \A r \in Probed' : name_to_addr'[RtnName[r]] = r
        /\ FreshFramesLive'
    BY <1>1, <2>1 DEF FramesInv, FreshFramesLive
  <2>. QED
    BY <1>1, <1>2, <2>2 DEF FramesInv
<1>4. CASE ProbeListed
  <2> DEFINE p == ListedRtn
  <2>1. /\ p \in Rtn \ Probed /\ ImageOf[p] = loading
        /\ p \in Findable
    BY <1>4, ListedRtnFresh DEF ProbeListed
  <2>2. /\ name_to_addr' = [name_to_addr EXCEPT ![RtnName[p]] = p]
        /\ text' = [text EXCEPT ![p] = ZERO]
        /\ probes' = [probes EXCEPT ![p] = @ \union {text[p]}]
    BY <1>4 DEF ProbeListed, Instrument
  <2> HIDE DEF p
  <2>3. \A r \in Probed' : r # p => r \in Probed
    BY <2>1, <2>2 DEF Probed, BookkeepingInv, TypeOK
  <2>4. \A r \in Probed : r \in Rtn /\ RtnName[r] # RtnName[p]
    BY <2>1 DEF UniqueNames, BookkeepingInv, ProbedWereListed, Probed
  <2>5. \A r \in Probed' : name_to_addr'[RtnName[r]] = r
    BY <2>1, <2>2, <2>3, <2>4 DEF FramesInv, BookkeepingInv, TypeOK
  <2>6. FreshFramesLive'
    <3>1. ASSUME NEW i \in stale + 1 .. Len(stack), stack[i] # App
          PROVE  text'[stack[i]] = CODE
      <4>1. i \in 1..Len(stack)
        BY DEF BookkeepingInv, TypeOK
      <4>2. ImageOf[stack[i]] \in loaded /\ stack[i] \in Rtn
        <5>1. TypeOK
          BY DEF BookkeepingInv
        <5>2. stack[i] \in Rtn \union {App}
          BY <4>1, <5>1 DEF TypeOK
        <5>. QED
          BY <3>1, <4>1, <5>1, <5>2, FramesParts
      <4>3. stack[i] # p
        BY <2>1, <4>2 DEF BookkeepingInv, ProbedWereListed
      <4>4. text[stack[i]] = CODE
        BY <3>1 DEF FramesInv, FreshFramesLive
      <4>. QED
        BY <2>2, <4>2, <4>3, <4>4 DEF BookkeepingInv, TypeOK
    <3>. QED
      BY <3>1, <1>1 DEF FreshFramesLive
  <2>. QED
    BY <1>1, <1>2, <2>5, <2>6 DEF FramesInv
<1>. QED
  BY <1>3, <1>4 DEF Load, ImageLoad, SkipListed, ImageLoaded

\* Entering a routine puts its body in place and removes none.
LEMMA EnterFrames ==
    ASSUME BookkeepingInv, BookkeepingInv', FramesInv, NEW r \in Rtn, Enter(r)
    PROVE  FramesInv'
<1>1. Call(r)
  BY DEF Enter, CallUnprobed, CallCopied, CallPredicted, CallMispredicted
<1>2. /\ UNCHANGED mapVars /\ UNCHANGED loaded /\ stale' = stale
      /\ ImageOf[r] \in loaded /\ TypeOK /\ TypeOK'
  BY <1>1 DEF Call, loadVars, BookkeepingInv
<1>3. /\ Len(stack) \in Nat /\ Len(stack') = Len(stack) + 1
      /\ stack'[Len(stack) + 1] = r
      /\ \A i \in 1..Len(stack) : stack'[i] = stack[i]
  BY <1>1, CallFrames
<1>4. \A i \in 1..Len(stack') : i \in 1..Len(stack) \/ i = Len(stack) + 1
  BY <1>3
<1>5. \A i \in 1..Len(stack') : stack'[i] # App => ImageOf[stack'[i]] \in loaded'
  BY <1>2, <1>3, <1>4, FramesParts
<1>6. \A x \in Probed' : name_to_addr'[RtnName[x]] = x
  BY <1>2 DEF mapVars, Probed, FramesInv
<1>7. FreshFramesLive'
  <2>1. ASSUME NEW i \in stale + 1 .. Len(stack'), stack'[i] # App
        PROVE  text'[stack'[i]] = CODE
    <3>1. CASE i = Len(stack) + 1
      BY <1>3, <3>1, EnteredLive
    <3>2. CASE i \in stale + 1 .. Len(stack)
      <4>1. i \in 1..Len(stack) /\ stack'[i] = stack[i]
        BY <1>2, <1>3, <3>2 DEF TypeOK
      <4>2. stack[i] \in Rtn
        BY <2>1, <4>1, <1>2 DEF TypeOK
      <4>3. text[stack[i]] = CODE
        BY <2>1, <3>2, <4>1 DEF FramesInv, FreshFramesLive
      <4>. QED
        BY <4>1, <4>2, <4>3, EnteredLive
    <3>. QED
      BY <2>1, <3>1, <3>2, <1>3, <1>2 DEF TypeOK
  <2>. QED
    BY <2>1, <1>2 DEF FreshFramesLive
<1>. QED
  BY <1>2, <1>5, <1>6, <1>7, FramesParts DEF FramesInv

\* A callback adds a frame of the application, a return takes one away.
LEMMA FrameFrames ==
    ASSUME BookkeepingInv, BookkeepingInv', FramesInv, Callback \/ Return
    PROVE  FramesInv'
<1>1. /\ UNCHANGED <<text, mapVars, loaded>> /\ TypeOK /\ TypeOK'
      /\ stack \in Seq(Rtn \union {App}) /\ stale \in 0..Len(stack) /\ Len(stack) \in Nat
  BY DEF Callback, Return, loadVars, BookkeepingInv, TypeOK
<1>2. Probed' = Probed /\ \A r \in Probed : name_to_addr'[RtnName[r]] = r
  BY <1>1 DEF mapVars, Probed, FramesInv
<1>3. CASE Callback
  <2>1. /\ stack' = Append(stack, App) /\ stale' = stale
    BY <1>3 DEF Callback, history
  <2>2. /\ Len(stack') = Len(stack) + 1
        /\ stack'[Len(stack) + 1] = App
        /\ \A i \in 1..Len(stack) : stack'[i] = stack[i]
    BY <1>1, <2>1, StackSteps
  <2>3. \A i \in 1..Len(stack') : stack'[i] # App => i \in 1..Len(stack)
    BY <1>1, <2>2
  <2>4. \A i \in 1..Len(stack') : stack'[i] # App => ImageOf[stack'[i]] \in loaded'
    BY <1>1, <2>2, <2>3, FramesParts
  <2>5. FreshFramesLive'
    <3>1. ASSUME NEW i \in stale + 1 .. Len(stack'), stack'[i] # App
          PROVE  text'[stack'[i]] = CODE
      <4>1. i \in stale + 1 .. Len(stack) /\ stack'[i] = stack[i]
        BY <1>1, <2>2, <3>1
      <4>. QED
        BY <1>1, <3>1, <4>1 DEF FramesInv, FreshFramesLive
    <3>. QED
      BY <2>1, <3>1 DEF FreshFramesLive
  <2>. QED
    BY <1>1, <1>2, <2>4, <2>5, FramesParts DEF FramesInv
<1>4. CASE Return
  <2>1. /\ stack # <<>> /\ stack' = SubSeq(stack, 1, Len(stack) - 1)
        /\ stale' = IF stale = Len(stack) THEN stale - 1 ELSE stale
    BY <1>4 DEF Return
  <2>2. /\ Len(stack') = Len(stack) - 1
        /\ \A i \in 1..Len(stack) - 1 : stack'[i] = stack[i]
    BY <1>1, <2>1, StackSteps
  <2>3. \A i \in 1..Len(stack') : stack'[i] # App => ImageOf[stack'[i]] \in loaded'
    BY <1>1, <2>2, FramesParts
  <2>4. FreshFramesLive'
    <3>1. ASSUME NEW i \in stale' + 1 .. Len(stack'), stack'[i] # App
          PROVE  text'[stack'[i]] = CODE
      <4>1. i \in stale + 1 .. Len(stack) /\ i \in 1..Len(stack) - 1
        BY <1>1, <2>1, <2>2, <3>1
      <4>. QED
        BY <1>1, <2>2, <3>1, <4>1 DEF FramesInv, FreshFramesLive
    <3>. QED
      BY <3>1 DEF FreshFramesLive
  <2>. QED
    BY <1>1, <1>2, <2>3, <2>4, FramesParts DEF FramesInv
<1>. QED
  BY <1>3, <1>4

\* A blanking prediction makes every frame on the stack stale.
LEMMA PredictFrames ==
    ASSUME BookkeepingInv, BookkeepingInv', FramesInv, NEW idx \in PredIdx, Predict(idx)
    PROVE  FramesInv'
<1>1. /\ UNCHANGED <<mapVars, loaded, stack>> /\ TypeOK /\ TypeOK' /\ Len(stack) \in Nat
      /\ ProbeBlankAux \/ UNCHANGED <<text, copied_funcs, entered, stale>>
  BY DEF Predict, PredictEager, PredictLazy, loadVars, BookkeepingInv, TypeOK
<1>2. /\ \A r \in Probed' : name_to_addr'[RtnName[r]] = r
      /\ \A i \in 1..Len(stack') : stack'[i] # App => ImageOf[stack'[i]] \in loaded'
  BY <1>1, FramesParts DEF mapVars, Probed
<1>3. FreshFramesLive'
  BY <1>1 DEF ProbeBlankAux, FramesInv, FreshFramesLive
<1>. QED
  BY <1>1, <1>2, <1>3, FramesParts DEF FramesInv

\* Every step keeps fresh frames live.
LEMMA StepFrames ==
    ASSUME CleanLists, UniqueNames, BookkeepingInv, BookkeepingInv', FramesInv, [Next]_vars
    PROVE  FramesInv'
<1>1. CASE Load
  BY <1>1, LoadFrames
<1>2. CASE \E r \in Rtn : Enter(r)
  BY <1>2, EnterFrames
<1>3. CASE Callback \/ Return
  BY <1>3, FrameFrames
<1>4. CASE \E idx \in PredIdx : Predict(idx)
  BY <1>4, PredictFrames
<1>5. CASE UNCHANGED vars
  BY <1>5 DEF vars, mapVars, loadVars, history, FramesInv, FreshFramesLive, Probed
<1>. QED
  BY <1>1, <1>2, <1>3, <1>4, <1>5 DEF Next

\* The invariant of the frames holds in every reachable state.
LEMMA FramesStay ==
    ASSUME CleanLists, UniqueNames
    PROVE  Spec => []FramesInv
<1>1. Init => FramesInv
  BY DEF Init, FramesInv, FreshFramesLive, Probed
<1>2. BookkeepingInv /\ BookkeepingInv' /\ FramesInv /\ [Next]_vars => FramesInv'
  BY StepFrames
<1>. QED
  BY <1>1, <1>2, BookkeepingCorrect, PTL DEF Spec

\* Through nested calls, callbacks and libraries loaded meanwhile, every library
\* frame pushed since the last blanking has its body in place, if names are
\* unique and no routine is probed twice.
THEOREM FramesCorrect ==
    ASSUME CleanLists, UniqueNames
    PROVE  Spec => []FreshFramesLive
<1>1. FramesInv => FreshFramesLive
  BY DEF FramesInv
<1>. QED
  BY <1>1, FramesStay, PTL
--------------------------------------------------------------------------------
(***************************************************************************)
(* The tool implements Debloat: the mapping is that of Promise.            *)
(***************************************************************************)

\* The mapped state in terms of the tool's own records.
LEMMA LiveIsCopied == BookkeepingInv => Live = copied_funcs
BY DEF BookkeepingInv, CopiedExactlyLive, Live

\* A probe adds its routine, blanked, to the probed ones.
LEMMA ProbeAdds ==
    ASSUME CleanLists, BookkeepingInv, BookkeepingInv', ProbeListed
    PROVE  /\ ListedRtn \in Rtn \ Probed
           /\ Probed' = Probed \union {ListedRtn}
           /\ Live' = Live
           /\ UNCHANGED <<pred_set_idx, copied_funcs>>
<1> DEFINE p == ListedRtn
<1>1. p \in Rtn \ Probed
  BY ListedRtnFresh DEF ProbeListed
<1>2. probes' = [probes EXCEPT ![p] = @ \union {text[p]}]
  BY DEF ProbeListed, Instrument
<1>3. UNCHANGED <<pred_set_idx, copied_funcs>>
  BY DEF ProbeListed, predVars
<1> HIDE DEF p
<1>4. \A x \in Rtn : probes'[x] = IF x = p THEN probes[x] \union {text[p]} ELSE probes[x]
  BY <1>1, <1>2 DEF BookkeepingInv, TypeOK
<1>5. Probed' = Probed \union {p}
  BY <1>1, <1>4 DEF Probed
<1>6. Live' = copied_funcs'
  BY LiveIsCopied DEF BookkeepingInv, CopiedExactlyLive, Live
<1>. QED
  BY <1>1, <1>3, <1>5, <1>6, LiveIsCopied DEF p

\* Loading an image is Manage or nothing.
LEMMA LoadPromise ==
    ASSUME CleanLists, BookkeepingInv, BookkeepingInv', Load
    PROVE  [Promise!AbsNext]_(Promise!absVars)
<1>1. CASE ProbeListed
  <2>1. {r \in Rtn : Predicted(r)}' = {r \in Rtn : Predicted(r)}
    BY <1>1, ProbeAdds DEF Predicted
  <2>. QED
    BY <1>1, <2>1, ProbeAdds DEF Promise!AbsNext, Promise!Manage
<1>2. CASE \/ \E img \in Image : ImageLoad(img)
           \/ SkipListed \/ ImageLoaded
  BY <1>2 DEF ImageLoad, SkipListed, ImageLoaded, mapVars, predVars, Probed, Live,
              Predicted, Promise!absVars
<1>. QED
  BY <1>1, <1>2 DEF Load

\* Entering a probed routine is Run: besides the routine only predicted ones
\* appear.
LEMMA EnterPromise ==
    ASSUME BookkeepingInv, BookkeepingInv', FramesInv, NEW r \in Rtn, Enter(r)
    PROVE  [Promise!AbsNext]_(Promise!absVars)
<1>1. Call(r)
  BY DEF Enter, CallUnprobed, CallCopied, CallPredicted, CallMispredicted
<1>2. /\ Probed' = Probed
      /\ {x \in Rtn : Predicted(x)}' = {x \in Rtn : Predicted(x)}
  BY <1>1 DEF Call, mapVars, predVars, Probed, Predicted
<1>3. Live = copied_funcs /\ Live' = copied_funcs'
  BY LiveIsCopied DEF BookkeepingInv, CopiedExactlyLive, Live
<1>4. CASE CallUnprobed(r) \/ CallCopied(r)
  BY <1>2, <1>3, <1>4 DEF CallUnprobed, CallCopied, Promise!absVars
<1>5. CASE CallPredicted(r) \/ CallMispredicted(r)
  <2>1. r \in Probed
    BY <1>5 DEF CallPredicted, CallMispredicted, Probed
  <2>2. /\ r \in Live'
        /\ Live \subseteq Live' /\ Live' \subseteq Probed
    BY <1>2, <2>1, EnteredLive DEF Live, Probed
  <2>3. Live' \subseteq Live \union {r} \union {x \in Rtn : Predicted(x)}
    <3>1. CASE CallPredicted(r)
      <4>1. Live' = Live \union Wanted(r)
        BY <3>1, <1>3 DEF CallPredicted, ProbeCopyAux
      <4>2. \A x \in Wanted(r) : x \in Rtn /\ Predicted(x)
        BY <3>1, <2>1, WantedProbed, WantedPredicted DEF CallPredicted, Probed
      <4>. QED
        BY <4>1, <4>2
    <3>2. CASE CallMispredicted(r)
      BY <3>2, <1>3 DEF CallMispredicted, ProbeCopyAux
    <3>. QED
      BY <1>5, <3>1, <3>2
  <2>. QED
    BY <1>2, <2>1, <2>2, <2>3 DEF Promise!AbsNext, Promise!Run
<1>. QED
  BY <1>4, <1>5 DEF Enter

\* A prediction is Repredict: all bodies go, or the chain stays the same.
LEMMA PredictPromise ==
    ASSUME BookkeepingInv, BookkeepingInv', NEW idx \in PredIdx, Predict(idx)
    PROVE  [Promise!AbsNext]_(Promise!absVars)
<1>1. Probed' = Probed
  BY DEF Predict, PredictEager, PredictLazy, mapVars, Probed
<1>2. Live = copied_funcs /\ Live' = copied_funcs'
  BY LiveIsCopied DEF BookkeepingInv, CopiedExactlyLive, Live
<1>3. CASE ProbeBlankAux
  <2>1. Live' = {}
    BY <1>2, <1>3 DEF ProbeBlankAux
  <2>2. {x \in Rtn : Predicted(x)}' \subseteq Rtn
    OBVIOUS
  <2>. QED
    BY <1>1, <2>1, <2>2 DEF Promise!AbsNext, Promise!Repredict
<1>4. CASE UNCHANGED copied_funcs /\ pred_set_idx' = pred_set_idx
  BY <1>1, <1>2, <1>4 DEF Predicted, Promise!absVars
<1>. QED
  BY <1>3, <1>4 DEF Predict, PredictEager, PredictLazy

\* Every step of the tool is a step of Debloat or leaves its variables alone.
LEMMA StepPromise ==
    ASSUME CleanLists, BookkeepingInv, BookkeepingInv', FramesInv, [Next]_vars
    PROVE  [Promise!AbsNext]_(Promise!absVars)
<1>1. CASE Load
  BY <1>1, LoadPromise
<1>2. CASE \E r \in Rtn : Enter(r)
  BY <1>2, EnterPromise
<1>3. CASE Callback \/ Return \/ UNCHANGED vars
  BY <1>3 DEF Callback, Return, vars, mapVars, predVars, Probed, Live, Predicted,
              Promise!absVars
<1>4. CASE \E idx \in PredIdx : Predict(idx)
  BY <1>4, PredictPromise
<1>. QED
  BY <1>1, <1>2, <1>3, <1>4 DEF Next

\* Whatever is loaded, called and predicted, and however calls and callbacks
\* nest, the tool implements Debloat: bodies appear only when entered or
\* predicted, an entered routine is present, bodies go only all together.
THEOREM PromiseKept ==
    ASSUME CleanLists, UniqueNames
    PROVE  Spec => KeepsPromise
<1>1. Init => Promise!AbsInit
  BY DEF Init, Promise!AbsInit, Probed, Live
<1>2. BookkeepingInv /\ BookkeepingInv' /\ FramesInv /\ [Next]_vars
         => [Promise!AbsNext]_(Promise!absVars)
  BY StepPromise
<1>. QED
  BY <1>1, <1>2, BookkeepingCorrect, FramesStay, PTL DEF Spec, KeepsPromise, Promise!AbsSpec
--------------------------------------------------------------------------------
(***************************************************************************)
(* Program, single-call build and audit log.                               *)
(***************************************************************************)

\* Without callbacks all frames are of the library, and no blanking leaves
\* frames behind: the application predicts when none is on the stack.
LibraryFramesOnly ==
    /\ \A i \in 1..Len(stack) : stack[i] # App
    /\ stale = 0

\* Every step keeps it so.
LEMMA StepLibraryFrames ==
    ASSUME ~Callbacks, BookkeepingInv, LibraryFramesOnly, [Next]_vars
    PROVE  LibraryFramesOnly'
<1> USE DEF LibraryFramesOnly
<1>1. stack \in Seq(Rtn \union {App}) /\ Len(stack) \in Nat
  BY DEF BookkeepingInv, TypeOK
<1>2. CASE Load \/ UNCHANGED vars
  BY <1>2 DEF Load, ImageLoad, SkipListed, ProbeListed, ImageLoaded, history, vars
<1>3. ASSUME NEW r \in Rtn, Enter(r) PROVE LibraryFramesOnly'
  <2>1. Call(r)
    BY <1>3 DEF Enter, CallUnprobed, CallCopied, CallPredicted, CallMispredicted
  <2>2. /\ stale' = stale /\ Len(stack') = Len(stack) + 1
        /\ stack'[Len(stack) + 1] = r
        /\ \A i \in 1..Len(stack) : stack'[i] = stack[i]
    BY <2>1, CallFrames DEF Call
  <2>3. \A i \in 1..Len(stack') : i \in 1..Len(stack) \/ i = Len(stack) + 1
    <3>. HIDE DEF LibraryFramesOnly
    <3>. QED
      BY <1>1, <2>2
  <2>4. r # App
    BY ConstantsAssumption
  <2>. QED
    BY <2>2, <2>3, <2>4
<1>4. CASE Callback \/ Return
  <2>1. /\ stack # <<>> /\ stack' = SubSeq(stack, 1, Len(stack) - 1)
        /\ stale' = IF stale = Len(stack) THEN stale - 1 ELSE stale
    BY <1>4 DEF Callback, Return
  <2>2. /\ Len(stack') = Len(stack) - 1
        /\ \A i \in 1..Len(stack) - 1 : stack'[i] = stack[i]
    BY <1>1, <2>1, StackSteps
  <2>3. Len(stack) # 0
    BY <1>1, <2>1, EmptySeq
  <2>. QED
    BY <1>1, <2>1, <2>2, <2>3
<1>5. CASE \E idx \in PredIdx : Predict(idx)
  <2>1. /\ UNCHANGED stack /\ InApp
        /\ stale' = Len(stack) \/ stale' = stale
    BY <1>5 DEF Predict, PredictEager, PredictLazy, ProbeBlankAux
  <2>2. Len(stack) = 0
    BY <1>1, <2>1, EmptySeq DEF InApp, Top
  <2>. QED
    BY <2>1, <2>2
<1>. QED
  BY <1>2, <1>3, <1>4, <1>5 DEF Next

\* Without callbacks the program never runs into a blanked body, whatever is
\* predicted, entered and loaded.
THEOREM RunsCorrect ==
    ASSUME ~Callbacks, CleanLists, UniqueNames
    PROVE  Spec => []NeverRunsZeros
<1>1. Init => LibraryFramesOnly
  BY DEF Init, LibraryFramesOnly
<1>2. BookkeepingInv /\ LibraryFramesOnly /\ [Next]_vars => LibraryFramesOnly'
  BY StepLibraryFrames
<1>3. BookkeepingInv /\ FramesInv /\ LibraryFramesOnly => NeverRunsZeros
  <2> SUFFICES ASSUME BookkeepingInv, FramesInv, LibraryFramesOnly, stack # <<>>
               PROVE  text[Top] = CODE
    BY DEF NeverRunsZeros, InLib, InApp, Top
  <2>1. stack \in Seq(Rtn \union {App}) /\ Len(stack) \in Nat /\ Len(stack) # 0
    BY EmptySeq DEF BookkeepingInv, TypeOK
  <2>2. Len(stack) \in stale + 1 .. Len(stack) /\ stack[Len(stack)] # App
    BY <2>1 DEF LibraryFramesOnly
  <2>. QED
    BY <2>2 DEF FramesInv, FreshFramesLive, Top
<1>. QED
  BY <1>1, <1>2, <1>3, BookkeepingCorrect, FramesStay, PTL DEF Spec

\* In the single-call build only entered routines are in memory.
THEOREM OnlyEnteredCorrect ==
    ASSUME SingleCall, CleanLists, UniqueNames
    PROVE  Spec => []OnlyEnteredLive
<1>1. Init => OnlyEnteredLive
  BY DEF Init, OnlyEnteredLive
<1>2. BookkeepingInv /\ FramesInv /\ OnlyEnteredLive /\ [Next]_vars => OnlyEnteredLive'
  <2> SUFFICES ASSUME BookkeepingInv, FramesInv, OnlyEnteredLive, [Next]_vars
               PROVE  OnlyEnteredLive'
    OBVIOUS
  <2>1. CASE Load \/ Callback \/ Return \/ UNCHANGED vars
    BY <2>1 DEF Load, ImageLoad, SkipListed, ProbeListed, ImageLoaded, Callback, Return,
                history, vars, OnlyEnteredLive
  <2>2. ASSUME NEW r \in Rtn, Enter(r) PROVE OnlyEnteredLive'
    <3>1. CASE CallUnprobed(r) \/ CallCopied(r)
      BY <3>1 DEF CallUnprobed, CallCopied, Enters, OnlyEnteredLive
    <3>2. CASE CallPredicted(r)
      <4>1. r \in Probed
        BY <3>2 DEF CallPredicted, Probed
      <4>2. Wanted(r) = {r}
        BY <4>1 DEF Wanted, FramesInv
      <4>. QED
        BY <3>2, <4>2 DEF CallPredicted, ProbeCopyAux, Enters, OnlyEnteredLive
    <3>3. CASE CallMispredicted(r)
      BY <3>3 DEF CallMispredicted, ProbeCopyAux, Enters, OnlyEnteredLive
    <3>. QED
      BY <2>2, <3>1, <3>2, <3>3 DEF Enter
  <2>3. CASE \E idx \in PredIdx : Predict(idx)
    BY <2>3 DEF Predict, PredictEager, PredictLazy, ProbeBlankAux, OnlyEnteredLive
  <2>. QED
    BY <2>1, <2>2, <2>3 DEF Next
<1>. QED
  BY <1>1, <1>2, BookkeepingCorrect, FramesStay, PTL DEF Spec

\* In the lazy build the audit log names the routine entered first since the
\* last prediction, whatever lists and names the tool works on.
THEOREM AuditCorrect ==
    ASSUME Audit, Lazy
    PROVE  Spec => []AuditNamesFirstEntry
<1>1. Init => AuditNamesFirstEntry
  BY DEF Init, AuditNamesFirstEntry
<1>2. AuditNamesFirstEntry /\ [Next]_vars => AuditNamesFirstEntry'
  <2> SUFFICES ASSUME AuditNamesFirstEntry, [Next]_vars PROVE AuditNamesFirstEntry'
    OBVIOUS
  <2> USE DEF AuditNamesFirstEntry
  <2>1. CASE Load \/ Callback \/ Return \/ UNCHANGED vars
    BY <2>1 DEF Load, ImageLoad, SkipListed, ProbeListed, ImageLoaded, Callback, Return,
                auditVars, history, vars
  <2>2. ASSUME NEW r \in Rtn, Enter(r) PROVE AuditNamesFirstEntry'
    <3>1. r # NoRtn
      BY ConstantsAssumption
    <3>2. CASE CallUnprobed(r)
      BY <3>2 DEF CallUnprobed, auditVars
    <3>3. CASE CallCopied(r) \/ CallPredicted(r)
      BY <3>1, <3>3 DEF CallCopied, CallPredicted, AuditEntry, Enters, auditVars
    <3>4. CASE CallMispredicted(r)
      BY <3>1, <3>4 DEF CallMispredicted, Enters, auditVars
    <3>. QED
      BY <2>2, <3>2, <3>3, <3>4 DEF Enter
  <2>3. CASE \E idx \in PredIdx : Predict(idx)
    BY <2>3 DEF Predict, PredictEager, PredictLazy
  <2>. QED
    BY <2>1, <2>2, <2>3 DEF Next
<1>. QED
  BY <1>1, <1>2, PTL DEF Spec

\* The comment on the single-call branch is true where names are unique: the
\* routine whose probe runs is the one copied into place.
THEOREM CopiesThisCorrect ==
    ASSUME CleanLists, UniqueNames
    PROVE  Spec => CopiesThisFunction
<1>1. BookkeepingInv /\ FramesInv /\ [Next]_vars
         => [\A r \in Rtn : CallPredicted(r) => text'[r] = CODE]_vars
  BY EnteredLive DEF Enter
<1>. QED
  BY <1>1, BookkeepingCorrect, FramesStay, PTL DEF Spec, CopiesThisFunction
================================================================================
