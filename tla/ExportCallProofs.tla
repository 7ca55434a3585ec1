-------------------------- MODULE ExportCallProofs --------------------------
(***************************************************************************)
(* A call from q to an exported function leaves the counters of q's        *)
(* objects balanced, nothing dangling and nothing leaked, for any          *)
(* signature, any body and any heap.                                       *)
(*                                                                         *)
(* Every step is a step of RefCount, so RefCount's invariant holds.  What  *)
(* the call adds rests on one fact: a step changes what its own roots hold *)
(* and what freed or new lists hold, and nothing else (Confined).  So the  *)
(* owners that an object had when the function was entered, q's references *)
(* and the slots of the objects of that time, keep holding it (Borrowed).  *)
(***************************************************************************)
EXTENDS ExportCall, RefCountProofs

Running == {"convert", "body", "unwind", "return", "get", "release", "destroy", "void"}
InCall  == Running \cup {"answered"}

\* The owners that the function must not disturb.
Kept == {w \in Owner : \/ w \in Ref /\ w # Result
                       \/ w \in Slot /\ w[1] \in entry.live}
KeptOf(x) == {w \in Kept : ptr[w] = x}

Borrowed == phase \in InCall =>
              \A x \in entry.live : x \in live /\ entry.r[x] + 1 = Cardinality(KeptOf(x))

\* Outside the call C++ holds nothing, and an owner of q holds something
\* only while it plays its part.
Handover ==
  /\ phase \in {"idle", "push", "answered", "pop"} =>
       resume = NULL /\ \A h \in Handle : ptr[h] = NULL
  /\ phase \in {"idle", "push"} => ptr[Result] = NULL
  /\ phase = "idle" => \A w \in Args : ptr[w] = NULL
  /\ \A w \in Ref \ (Args \cup Var \cup {Result}) : ptr[w] = NULL

\* No object is part of itself: among any objects one is in none of the others.
Acyclic == \A S \in SUBSET live : S = {} \/
             \E x \in S : \A s \in Slot : ptr[s] = x => s[1] \notin S

CallInv == IInv /\ CallTypeOK /\ Borrowed /\ Handover /\ Acyclic

\* A step touches, of the live heap, only what the roots in W hold; the
\* slots of a new list are filled with what was there before.
Confined(W) ==
  /\ \A v \in Root \ W : ptr'[v] = ptr[v]
  /\ \A s \in Slot : s[1] \in live => ptr'[s] = ptr[s]
  /\ \A s \in Slot : s[1] \in live' \ live => ptr'[s] \in live \cup {NULL}

-----------------------------------------------------------------------------
\* The roles are references, none of them a handle or a slot.
LEMMA Roles ==
  /\ Params \subseteq Handle /\ Scratch \in Handle /\ Value \in Handle
  /\ Args \subseteq Ref /\ Var \subseteq Ref /\ Result \in Ref
  /\ Args \cap Var = {} /\ Result \notin Args \cup Var
  /\ DOMAIN Param = DOMAIN Arg
  /\ \A i \in DOMAIN Param : Param[i] \in Params /\ Arg[i] \in Args
BY CallAssumption DEF Params, Args

LEMMA RootsApart ==
  /\ Handle \cap Ref = {} /\ Root \cap Slot = {} /\ Root = Handle \cup Ref
  /\ Root \subseteq Owner /\ Slot \subseteq Owner /\ Owner = Root \cup Slot
BY HeapAssumption DEF Root, Owner

\* Each step of q and of the call is a step of RefCount.
LEMMA QStepIsStep == QStep => [Next]_vars
<1> SUFFICES ASSUME QStep PROVE [Next]_vars
  OBVIOUS
<1>1. ASSUME NEW v \in Var, SetVariable(v) PROVE Next
  BY <1>1, Roles DEF SetVariable, Next, BorderOp, Kind
<1>2. ASSUME NEW v \in Var, DeleteVariable(v) PROVE Next
  BY <1>2, Roles DEF DeleteVariable, Next, BorderOp
<1>3. ASSUME NEW v \in Var, KeepResult(v) PROVE Next
  BY <1>3, Roles DEF KeepResult, Next, BorderOp
<1>4. ASSUME NEW i \in DOMAIN Arg, PushArg(i) PROVE Next
  <2>1. Arg[i] \in Ref /\ Var \subseteq Ref
    BY Roles
  <2> QED
    BY <1>4, <2>1 DEF PushArg, Next, BorderOp, Kind
<1>5. ASSUME NEW i \in DOMAIN Arg, PopArg(i) PROVE Next
  <2>1. Arg[i] \in Ref
    BY Roles
  <2> QED
    BY <1>5, <2>1 DEF PopArg, Next, BorderOp
<1>6. CASE DropResult
  BY <1>6, Roles DEF DropResult, Next, BorderOp
<1>7. CASE StartCall \/ EnterFunction \/ ResumeQ \/ EndCall
  BY <1>7 DEF StartCall, EnterFunction, ResumeQ, EndCall, NoHeapOp
<1> QED
  BY <1>1, <1>2, <1>3, <1>4, <1>5, <1>6, <1>7 DEF QStep

LEMMA BodyStepIsStep == BodyStep => Next
<1> SUFFICES ASSUME BodyStep PROVE Next
  OBVIOUS
<1>0. Scratch \in Handle /\ Params \subseteq Handle /\ \A i \in DOMAIN Param : Param[i] \in Handle
  BY Roles
<1>1. ASSUME NEW i \in DOMAIN Param,
             \/ CopyConstruct(Scratch, Param[i])
             \/ MoveConstruct(Scratch, Param[i])
             \/ CopyAssign(Param[i], Scratch)
      PROVE  Next
  BY <1>0, <1>1 DEF Next, HandleOp
<1>2. ASSUME NEW i \in DOMAIN Param, NEW j \in DOMAIN Param,
             CopyAssign(Param[i], Param[j]) \/ MoveAssign(Param[i], Param[j])
      PROVE  Next
  BY <1>0, <1>2 DEF Next, HandleOp
<1>3. ASSUME NEW x \in Obj, NewObject(Scratch, x, "atom") PROVE Next
  BY <1>0, <1>3 DEF Next, HandleOp
<1>4. ASSUME NEW x \in Obj, NEW n \in Idx, NEW gs \in [1..n -> Params],
             MakeTuple(Scratch, x, gs)
      PROVE  Next
  <2>1. n \in 0..MaxLen /\ gs \in [1..n -> Handle]
    BY <1>0, HeapAssumption DEF Idx
  <2> QED
    BY <1>0, <1>4, <2>1 DEF Next, HandleOp
<1> QED
  BY <1>1, <1>2, <1>3, <1>4 DEF BodyStep

LEMMA CallStepIsStep == CallStep => [Next]_vars
<1> SUFFICES ASSUME CallStep PROVE [Next]_vars
  OBVIOUS
<1>0. /\ Scratch \in Handle /\ Value \in Handle /\ Params \subseteq Handle /\ Result \in Ref
      /\ \A i \in DOMAIN Param : Param[i] \in Handle /\ Arg[i] \in Ref
  BY Roles
<1>1. ASSUME NEW i \in DOMAIN Param, Convert(i) PROVE Next
  BY <1>0, <1>1 DEF Convert, Next, BorderOp
<1>2. CASE EnterBody \/ BodyThrow \/ ReturnVoid \/ EnterToQ \/ Answer \/ AnswerError
  BY <1>2 DEF EnterBody, BodyThrow, ReturnVoid, EnterToQ, Answer, AnswerError, NoHeapOp
<1>3. ASSUME NEW g \in Params \cup {Scratch}, ReturnValue(g) PROVE [Next]_vars
  BY <1>0, <1>3 DEF ReturnValue, NoHeapOp, Next, HandleOp
<1>4. ASSUME NEW g \in Params, DestroyParam(g) PROVE Next
  BY <1>0, <1>4 DEF DestroyParam, Next, HandleOp
<1>5. CASE DestroyLocal \/ ToQDestroy
  BY <1>0, <1>5 DEF DestroyLocal, ToQDestroy, Next, HandleOp
<1>6. CASE ToQGet
  BY <1>0, <1>6 DEF ToQGet, NoHeapOp, Next, HandleOp
<1>7. CASE ToQRelease
  BY <1>0, <1>7 DEF ToQRelease, NoHeapOp, Next, BorderOp
<1>8. CASE AnswerVoid
  BY <1>0, <1>8 DEF AnswerVoid, Next, BorderOp, Kind
<1> QED
  BY <1>1, <1>2, <1>3, <1>4, <1>5, <1>6, <1>7, <1>8, BodyStepIsStep DEF CallStep

LEMMA CNextIsStep == [CNext]_allvars => [Next]_vars
BY QStepIsStep, CallStepIsStep DEF CNext, InsideOp, Next, allvars

-----------------------------------------------------------------------------
\* What the operations of a call touch.

LEMMA ConfinedToRoots ==
  ASSUME NEW W, \A v \in Owner \ W : ptr'[v] = ptr[v], W \cap Slot = {}, live' \subseteq live
  PROVE  Confined(W)
BY RootsApart DEF Confined

LEMMA NothingTouched == ASSUME NEW W, UNCHANGED vars PROVE Confined(W)
BY DEF Confined, vars

LEMMA R1Confined ==
  ASSUME HeapInv, NEW W, W \cap Slot = {}, NEW w \in W, NEW x, R1(w, x)
  PROVE  Confined(W)
<1>1. live' = live /\ \A v \in Owner \ W : ptr'[v] = ptr[v]
  BY DEF R1, HeapInv, HeapType, Pointers
<1> QED
  BY <1>1, ConfinedToRoots

LEMMA R0Confined ==
  ASSUME HeapInv, NEW W, W \cap Slot = {}, NEW w \in W, R0(w)
  PROVE  Confined(W)
<1>1. live' \subseteq live /\ \A v \in Owner \ W : ptr'[v] = ptr[v]
  BY DEF R0, HeapInv, HeapType, Pointers
<1> QED
  BY <1>1, ConfinedToRoots

LEMMA StealConfined ==
  ASSUME HeapInv, NEW W, W \cap Slot = {}, NEW w \in W, NEW v \in W, Steal(w, v)
  PROVE  Confined(W)
<1>1. live' = live /\ \A u \in Owner \ W : ptr'[u] = ptr[u]
  BY DEF Steal, HeapInv, HeapType, Pointers
<1> QED
  BY <1>1, ConfinedToRoots

\* While nothing is pending the slots of a free address are empty.
LEMMA NewConfined ==
  ASSUME HeapInv, Quiet, NEW W, W \cap Slot = {}, NEW w \in W, NEW x, NEW k, New(w, x, k)
  PROVE  Confined(W)
<1>1. live' = live \cup {x} /\ x \notin live /\ \A v \in Owner \ W : ptr'[v] = ptr[v]
  BY DEF New, Fresh, HeapInv, HeapType, Pointers
<1>2. \A s \in Slot : s[1] = x => ptr[s] = NULL
  BY <1>1 DEF Quiet, Pending
<1> QED
  BY <1>1, <1>2, RootsApart DEF Confined

LEMMA KnkConfined ==
  ASSUME NEW W, W \cap Slot = {}, NEW w \in W, NEW x, NEW k, NEW es,
         \A i \in DOMAIN es : es[i] \in live, Knk(w, x, k, es)
  PROVE  Confined(W)
<1>1. x \notin live /\ live' = live \cup {x}
  BY DEF Knk, Fresh
<1>2. ptr' = [v \in Owner |-> IF v = w THEN x
                              ELSE IF v \in SlotsOf(x) THEN Element(es, v)
                              ELSE ptr[v]]
  BY DEF Knk
<1>3. \A s : Element(es, s) \in live \cup {NULL}
  BY DEF Element
<1> QED
  BY <1>1, <1>2, <1>3, RootsApart DEF Confined, SlotsOf

\* A cascade works on freed lists only.
LEMMA CascadeConfined == ASSUME HeapInv, NEW W, Cascade PROVE Confined(W)
<1>1. PICK s \in Slot : s[1] \notin live /\ live' \subseteq live
                        /\ ptr' = [ptr EXCEPT ![s] = NULL]
  BY DEF Cascade, DropElement, Pending, R0
<1> QED
  BY <1>1, RootsApart DEF Confined, HeapInv, HeapType, Pointers

LEMMA AssignConfined ==
  ASSUME HeapInv, NEW W, W \cap Slot = {}, NEW h \in W, NEW g \in W, NEW m, ReleaseOld(h, g, m)
  PROVE  Confined(W)
<1>1. CASE ptr[h] = NULL
  BY <1>1 DEF ReleaseOld, heap, Confined
<1>2. CASE ptr[h] # NULL
  BY <1>2, R0Confined DEF ReleaseOld
<1> QED
  BY <1>1, <1>2

LEMMA FinishConfined ==
  ASSUME IInv, NEW W, W \cap Slot = {}, Handle \subseteq W, FinishAssign
  PROVE  Confined(W)
<1>1. HeapInv /\ resume.to \in W /\ resume.from \in W
  BY DEF IInv, Assignment, FinishAssign
<1>2. CASE FinishCopy
  BY <1>1, <1>2, R1Confined DEF FinishCopy, heap, Confined
<1>3. CASE FinishMove
  <2>1. live' = live /\ \A v \in Owner \ W : ptr'[v] = ptr[v]
    BY <1>1, <1>3 DEF FinishMove, HeapInv, HeapType, Pointers
  <2> QED
    BY <2>1, ConfinedToRoots
<1> QED
  BY <1>2, <1>3 DEF FinishAssign

\* The roots of q and of the exported function.
QRoots == Args \cup Var \cup {Result}
CallRoots == Handle \cup {Result}

LEMMA QRootsAreRoots == QRoots \cap Slot = {} /\ CallRoots \cap Slot = {}
BY Roles, RootsApart DEF QRoots, CallRoots

\* q works on its own references.
LEMMA QStepConfined == IInv /\ QStep => Confined(QRoots)
<1> SUFFICES ASSUME IInv, QStep PROVE Confined(QRoots)
  OBVIOUS
<1>0. HeapInv /\ QRoots \cap Slot = {} /\ DOMAIN Arg = DOMAIN Param
      /\ Var \subseteq QRoots /\ Result \in QRoots /\ \A i \in DOMAIN Arg : Arg[i] \in QRoots
  BY Roles, QRootsAreRoots DEF IInv, QRoots
<1>1. ASSUME NEW w \in QRoots, NEW x \in Obj, NEW k, ManualNew(w, x, k) PROVE Confined(QRoots)
  BY <1>0, <1>1, NewConfined DEF ManualNew, Atomically
<1>2. ASSUME NEW w \in QRoots, NEW v, ManualR1(w, v) PROVE Confined(QRoots)
  BY <1>0, <1>2, R1Confined DEF ManualR1, Atomically
<1>3. ASSUME NEW w \in QRoots, ManualR0(w) PROVE Confined(QRoots)
  BY <1>0, <1>3, R0Confined DEF ManualR0, Atomically
<1>4. ASSUME NoHeapOp PROVE Confined(QRoots)
  BY <1>4, NothingTouched DEF NoHeapOp
<1>5. ASSUME NEW v \in Var, SetVariable(v) \/ DeleteVariable(v) \/ KeepResult(v)
      PROVE  Confined(QRoots)
  BY <1>0, <1>1, <1>2, <1>3, <1>5 DEF SetVariable, DeleteVariable, KeepResult
<1>6. ASSUME NEW i \in DOMAIN Arg, PushArg(i) \/ PopArg(i) PROVE Confined(QRoots)
  BY <1>0, <1>1, <1>2, <1>3, <1>6 DEF PushArg, PopArg
<1>7. CASE StartCall \/ EnterFunction \/ ResumeQ \/ EndCall
  BY <1>4, <1>7 DEF StartCall, EnterFunction, ResumeQ, EndCall
<1>8. CASE DropResult
  BY <1>0, <1>3, <1>8 DEF DropResult
<1> QED
  BY <1>5, <1>6, <1>7, <1>8 DEF QStep

LEMMA BodyStepConfined == IInv /\ BodyStep => Confined(CallRoots)
<1> SUFFICES ASSUME IInv, BodyStep PROVE Confined(CallRoots)
  OBVIOUS
<1>0. HeapInv /\ CallRoots \cap Slot = {} /\ Handle \subseteq CallRoots
      /\ Scratch \in Handle /\ Params \subseteq Handle /\ Handle \subseteq Owner
      /\ \A i \in DOMAIN Param : Param[i] \in Handle
  BY Roles, RootsApart, QRootsAreRoots DEF IInv, CallRoots
<1>1. ASSUME NEW h \in Handle, NEW g \in Handle, CopyConstruct(h, g) \/ MoveConstruct(h, g)
      PROVE  Confined(CallRoots)
  BY <1>0, <1>1, R1Confined, StealConfined DEF CopyConstruct, MoveConstruct, Atomically
<1>2. ASSUME NEW h \in Handle, NEW g \in Handle, CopyAssign(h, g) \/ MoveAssign(h, g)
      PROVE  Confined(CallRoots)
  BY <1>0, <1>2, AssignConfined DEF CopyAssign, MoveAssign
<1>3. ASSUME NEW x \in Obj, NewObject(Scratch, x, "atom") PROVE Confined(CallRoots)
  BY <1>0, <1>3, NewConfined DEF NewObject, Atomically
<1>4. ASSUME NEW x \in Obj, NEW n \in Idx, NEW gs \in [1..n -> Params],
             MakeTuple(Scratch, x, gs)
      PROVE  Confined(CallRoots)
  <2> DEFINE es == [i \in DOMAIN gs |-> ptr[gs[i]]]
  <2>1. /\ \A i \in DOMAIN gs : ptr[gs[i]] # NULL
        /\ Knk(Scratch, x, "tuple", es)
    BY <1>4 DEF MakeTuple, Atomically
  <2>2. \A i \in DOMAIN es : es[i] \in live
    BY <1>0, <2>1, HeldIsLive
  <2> HIDE DEF es
  <2> QED
    BY <1>0, <2>1, <2>2, KnkConfined
<1> QED
  BY <1>0, <1>1, <1>2, <1>3, <1>4 DEF BodyStep

\* The function works on handles and on the result: q's arguments and
\* variables are only read.
LEMMA CallStepConfined == IInv /\ CallStep => Confined(CallRoots)
<1> SUFFICES ASSUME IInv, CallStep PROVE Confined(CallRoots)
  OBVIOUS
<1>0. /\ HeapInv /\ CallRoots \cap Slot = {} /\ Handle \subseteq CallRoots
      /\ Scratch \in Handle /\ Value \in Handle /\ Params \subseteq Handle
      /\ Result \in CallRoots
      /\ \A i \in DOMAIN Param : Param[i] \in Handle
  BY Roles, QRootsAreRoots DEF IInv, CallRoots
<1>1. ASSUME NEW h \in Handle, NEW g \in Handle, CopyConstruct(h, g) \/ MoveConstruct(h, g)
      PROVE  Confined(CallRoots)
  BY <1>0, <1>1, R1Confined, StealConfined DEF CopyConstruct, MoveConstruct, Atomically
<1>2. ASSUME NEW h \in Handle, Destruct(h) PROVE Confined(CallRoots)
  BY <1>0, <1>2, R0Confined DEF Destruct, Atomically
<1>3. ASSUME NoHeapOp PROVE Confined(CallRoots)
  BY <1>3, NothingTouched DEF NoHeapOp
<1>4. ASSUME NEW i \in DOMAIN Param, Convert(i) PROVE Confined(CallRoots)
  BY <1>0, <1>4, R1Confined DEF Convert, MakeNonOwning, Atomically
<1>5. CASE EnterBody \/ BodyThrow \/ ReturnVoid \/ EnterToQ \/ Answer \/ AnswerError
  BY <1>3, <1>5 DEF EnterBody, BodyThrow, ReturnVoid, EnterToQ, Answer, AnswerError
<1>6. ASSUME NEW g \in Params \cup {Scratch}, ReturnValue(g) PROVE Confined(CallRoots)
  BY <1>0, <1>1, <1>3, <1>6 DEF ReturnValue
<1>7. ASSUME NEW g \in Params, DestroyParam(g) PROVE Confined(CallRoots)
  BY <1>0, <1>2, <1>7 DEF DestroyParam
<1>8. CASE DestroyLocal \/ ToQDestroy \/ ToQGet
  BY <1>0, <1>1, <1>2, <1>3, <1>8 DEF DestroyLocal, ToQDestroy, ToQGet
<1>9. CASE ToQRelease
  BY <1>0, <1>3, <1>9, StealConfined DEF ToQRelease, Release, Atomically
<1>10. CASE AnswerVoid
  BY <1>0, <1>10, NewConfined DEF AnswerVoid, ManualNew, Atomically
<1> QED
  BY <1>4, <1>5, <1>6, <1>7, <1>8, <1>9, <1>10, BodyStepConfined DEF CallStep

-----------------------------------------------------------------------------
\* The phases, and the variables of the call.

LEMMA CallInitType == CInit => CallTypeOK
<1> SUFFICES ASSUME CInit PROVE CallTypeOK
  OBVIOUS
<1>1. sig \in Sigs
  BY DEF CInit, Sigs
<1>2. entry \in [live : SUBSET Obj, r : [Obj -> Nat]]
  BY DEF CInit, AtRest
<1>3. fuel \in 0..MaxBody
  BY CallAssumption DEF CInit
<1> QED
  BY <1>1, <1>2, <1>3 DEF CInit, CallTypeOK, Phase

\* A step of the function stays inside the call; it answers with every
\* handle empty and nothing in progress.
LEMMA CallStepPhase ==
  ASSUME IInv, CallStep
  PROVE  /\ phase \in Running /\ phase' \in InCall /\ entry' = entry
         /\ phase' = "answered" => resume' = NULL /\ \A h \in Handle : ptr'[h] = NULL
<1> DEFINE Stays == phase \in Running /\ phase' \in Running /\ entry' = entry
<1>1. ASSUME NEW i \in DOMAIN Param, Convert(i) PROVE Stays
  BY <1>1 DEF Convert, Running
<1>2. CASE EnterBody \/ BodyStep \/ BodyThrow \/ ReturnVoid
  <2>1. Stays
    BY <1>2 DEF EnterBody, BodyStep, BodyThrow, ReturnVoid, Goto, Stay, Rest, Running
  <2> QED
    BY <2>1 DEF Running, InCall
<1>3. ASSUME NEW g, ReturnValue(g) \/ DestroyParam(g) PROVE Stays
  BY <1>3 DEF ReturnValue, DestroyParam, Goto, Stay, Rest, Running
<1>4. CASE DestroyLocal \/ EnterToQ \/ ToQGet \/ ToQRelease \/ ToQDestroy
  <2>1. Stays
    BY <1>4 DEF DestroyLocal, EnterToQ, ToQGet, ToQRelease, ToQDestroy, Goto, Stay, Rest, Running
  <2> QED
    BY <2>1 DEF Running, InCall
<1>5. CASE Answer \/ AnswerError
  BY <1>5 DEF Answer, AnswerError, Goto, Rest, NoHeapOp, Quiet, Unwound, vars, Running, InCall
<1>6. CASE AnswerVoid
  <2>1. phase = "void" /\ phase' = "answered" /\ entry' = entry /\ Unwound
        /\ resume' = NULL /\ \E x \in Obj : ptr' = [ptr EXCEPT ![Result] = x]
    BY <1>6 DEF AnswerVoid, Goto, Rest, ManualNew, Atomically, Quiet, New
  <2>2. Result \notin Handle /\ Handle \subseteq Owner /\ ptr \in Pointers
    BY Roles, RootsApart DEF IInv, HeapInv, HeapType
  <2>3. \A h \in Handle : ptr'[h] = NULL
    BY <2>1, <2>2 DEF Unwound, Pointers
  <2> QED
    BY <2>1, <2>3 DEF Running, InCall
<1>7. Stays => phase' # "answered" /\ phase' \in InCall
  BY DEF Running, InCall
<1> QED
  BY <1>1, <1>2, <1>3, <1>4, <1>5, <1>6, <1>7 DEF CallStep

\* What a step of q does to the phase and to the remembered heap.
LEMMA QStepPhase ==
  QStep => \/ /\ phase \notin Running /\ phase' = phase /\ UNCHANGED entry
           \/ phase = "idle" /\ phase' = "push"
           \/ EnterFunction /\ phase = "push" /\ phase' = "convert"
           \/ phase = "answered" /\ phase' = "pop"
           \/ EndCall /\ phase = "pop" /\ phase' = "idle"
BY DEF QStep, SetVariable, DeleteVariable, KeepResult, PushArg, PopArg, StartCall,
       EnterFunction, ResumeQ, DropResult, EndCall, Goto, Stay, Rest, Running

LEMMA QStepType == IInv /\ CallTypeOK /\ QStep => CallTypeOK'
<1> SUFFICES ASSUME IInv, CallTypeOK, QStep PROVE CallTypeOK'
  OBVIOUS
<1>1. MaxBody \in Nat /\ DOMAIN Param = DOMAIN Param
  BY CallAssumption
<1>2. CASE EnterFunction
  <2>1. entry' = [live |-> live, r |-> r] /\ live \in SUBSET Obj /\ r \in [Obj -> Nat]
    BY <1>2 DEF EnterFunction, IInv, HeapInv, HeapType
  <2> QED
    BY <1>1, <1>2, <2>1 DEF EnterFunction, CallTypeOK, Goto, Phase
<1>3. CASE EndCall
  BY <1>1, <1>3 DEF EndCall, CallTypeOK, Goto, Phase, Sigs, AtRest
<1>4. CASE ~EnterFunction /\ ~EndCall
  <2>1. Rest /\ phase' \in {phase, "push", "pop"}
    BY <1>4 DEF QStep, SetVariable, DeleteVariable, KeepResult, PushArg, PopArg,
                StartCall, ResumeQ, DropResult, Goto, Stay
  <2> QED
    BY <2>1 DEF Rest, CallTypeOK, Phase, Sigs
<1> QED
  BY <1>2, <1>3, <1>4

LEMMA CallStepType == IInv /\ CallTypeOK /\ CallStep => CallTypeOK'
<1> SUFFICES ASSUME IInv, CallTypeOK, CallStep PROVE CallTypeOK'
  OBVIOUS
<1>1. phase' \in Phase /\ entry' = entry
  BY CallStepPhase DEF InCall, Running, Phase
<1>2. UNCHANGED sig
  BY DEF CallStep, Convert, EnterBody, BodyStep, BodyThrow, ReturnValue, ReturnVoid,
         DestroyParam, DestroyLocal, EnterToQ, ToQGet, ToQRelease, ToQDestroy, Answer,
         AnswerError, AnswerVoid, Rest
<1>3. converted' \subseteq DOMAIN Param
  <2>1. ASSUME NEW i \in DOMAIN Param, Convert(i) PROVE converted' \subseteq DOMAIN Param
    BY <2>1 DEF Convert, CallTypeOK
  <2>2. (\E i \in DOMAIN Param : Convert(i)) \/ UNCHANGED converted
    BY DEF CallStep, EnterBody, BodyStep, BodyThrow, ReturnValue, ReturnVoid,
           DestroyParam, DestroyLocal, EnterToQ, ToQGet, ToQRelease, ToQDestroy, Answer,
           AnswerError, AnswerVoid, Rest
  <2> QED
    BY <2>1, <2>2 DEF CallTypeOK
<1>4. fuel' \in 0..MaxBody
  <2>1. (fuel > 0 /\ fuel' = fuel - 1) \/ UNCHANGED fuel
    BY DEF CallStep, Convert, EnterBody, BodyStep, BodyThrow, ReturnValue, ReturnVoid,
           DestroyParam, DestroyLocal, EnterToQ, ToQGet, ToQRelease, ToQDestroy, Answer,
           AnswerError, AnswerVoid, Rest
  <2> QED
    BY <2>1, CallAssumption DEF CallTypeOK
<1> QED
  BY <1>1, <1>2, <1>3, <1>4 DEF CallTypeOK, Sigs

LEMMA TypeStep == IInv /\ CallTypeOK /\ [CNext]_allvars => CallTypeOK'
BY QStepType, CallStepType DEF CNext, InsideOp, allvars, call, CallTypeOK, Sigs

-----------------------------------------------------------------------------
\* The invariant of a call.

\* A step inside an operation stays inside: between calls there is no
\* assignment to finish.
LEMMA InsideConfined ==
  ASSUME CallInv, InsideOp
  PROVE  /\ Confined(Handle) /\ phase' = phase /\ entry' = entry
         /\ resume = NULL => resume' = NULL /\ Confined({})
<1>1. Handle \cap Slot = {} /\ HeapInv
  BY RootsApart DEF CallInv, IInv
<1>2. CASE Cascade
  BY <1>1, <1>2, CascadeConfined DEF InsideOp, call, Cascade
<1>3. CASE FinishAssign
  BY <1>1, <1>3, FinishConfined DEF CallInv, InsideOp, call, FinishAssign
<1> QED
  BY <1>2, <1>3 DEF InsideOp

\* More roots confine less.
LEMMA ConfinedMono == ASSUME NEW V, NEW W, V \subseteq W, Confined(V) PROVE Confined(W)
BY DEF Confined

\* As long as the function runs, what q holds keeps what it held alive.
LEMMA BorrowedKept ==
  ASSUME CallInv, IInv', phase \in InCall, entry' = entry, Confined(CallRoots)
  PROVE  Borrowed'
<1> SUFFICES ASSUME NEW x \in entry.live
             PROVE  x \in live' /\ entry.r[x] + 1 = Cardinality(KeptOf(x)')
  BY DEF Borrowed
<1>1. x \in live /\ entry.r[x] + 1 = Cardinality(KeptOf(x)) /\ x \in Obj
      /\ entry.r[x] \in Nat /\ \A y \in entry.live : y \in live
  BY DEF CallInv, Borrowed, CallTypeOK
<1>2. \A w \in Kept : ptr'[w] = ptr[w]
  BY <1>1, Roles, RootsApart DEF Kept, Confined, CallRoots
<1>3. KeptOf(x)' = KeptOf(x)
  BY <1>2 DEF KeptOf, Kept
<1>4. Cardinality(KeptOf(x)) # 0
  BY <1>1
<1>5. KeptOf(x) # {}
  BY <1>4, FS_EmptySet
<1>6. PICK w \in Kept : ptr'[w] = x
  BY <1>5, <1>2 DEF KeptOf
<1>7. x \in live'
  BY <1>1, <1>6, HeapAssumption DEF IInv, HeapInv, NoDangling, Kept
<1>8. Cardinality(KeptOf(x)') = Cardinality(KeptOf(x))
  BY <1>3, Zenon
<1> QED
  BY <1>1, <1>7, <1>8

\* When q enters the function every owner is one of q's.
LEMMA BorrowedAtEntry ==
  ASSUME CallInv, IInv', phase = "push", EnterFunction
  PROVE  Borrowed'
<1> SUFFICES ASSUME NEW x \in entry'.live
             PROVE  x \in live' /\ (entry'.r)[x] + 1 = Cardinality(KeptOf(x)')
  BY DEF Borrowed
<1>1. /\ Pending = {} /\ UNCHANGED vars /\ entry' = [live |-> live, r |-> r]
      /\ \A h \in Handle : ptr[h] = NULL
      /\ ptr[Result] = NULL
  BY DEF EnterFunction, NoHeapOp, Quiet, CallInv, Handover
<1>2. x \in live /\ x \in live' /\ x \in Obj /\ ptr' = ptr
  BY <1>1 DEF vars, CallInv, IInv, HeapInv, HeapType
<1>3. KeptOf(x)' = OwnersIn(ptr, x)
  BY <1>1, <1>2, HeapAssumption DEF KeptOf, Kept, OwnersIn, Pending, Owner, Root
<1>4. Cardinality(KeptOf(x)') = Cardinality(OwnersIn(ptr, x))
  BY <1>3, Zenon
<1>5. (entry'.r)[x] = r[x]
  BY <1>1
<1>6. r[x] + 1 = Cardinality(OwnersIn(ptr, x))
  BY <1>2 DEF CallInv, IInv, HeapInv, RefCountExact, Owners
<1> QED
  BY <1>2, <1>4, <1>5, <1>6

LEMMA BorrowedStep == CallInv /\ IInv' /\ [CNext]_allvars => Borrowed'
<1> SUFFICES ASSUME CallInv, IInv', [CNext]_allvars PROVE Borrowed'
  OBVIOUS
<1>1. CASE CallStep
  <2>1. Confined(CallRoots) /\ phase \in InCall /\ entry' = entry
    BY <1>1, CallStepConfined, CallStepPhase DEF CallInv, InCall
  <2> QED
    BY <2>1, BorrowedKept
<1>2. CASE InsideOp
  <2>1. Confined(CallRoots) /\ phase' = phase /\ entry' = entry
    BY <1>2, InsideConfined, ConfinedMono DEF CallRoots
  <2>2. CASE phase \in InCall
    BY <2>1, <2>2, BorrowedKept
  <2>3. CASE phase \notin InCall
    BY <2>1, <2>3 DEF Borrowed
  <2> QED
    BY <2>2, <2>3
<1>3. CASE QStep
  <2>1. CASE EnterFunction /\ phase = "push"
    BY <2>1, BorrowedAtEntry
  <2>2. CASE phase' \notin InCall
    BY <2>2 DEF Borrowed
  <2>3. CASE ~(EnterFunction /\ phase = "push") /\ phase' \in InCall
    <3>1. phase = "answered" /\ phase' = "answered"
      BY <1>3, <2>3, QStepPhase DEF InCall, Running
    <3> QED
      BY <1>3, <3>1 DEF QStep, SetVariable, DeleteVariable, KeepResult, PushArg, PopArg,
             StartCall, EnterFunction, ResumeQ, DropResult, EndCall, Goto, Stay
  <2> QED
    BY <2>1, <2>2, <2>3
<1>4. CASE UNCHANGED allvars
  BY <1>4 DEF allvars, vars, call, CallInv, Borrowed, KeptOf, Kept
<1> QED
  BY <1>1, <1>2, <1>3, <1>4 DEF CNext

LEMMA HandoverStep == CallInv /\ [CNext]_allvars => Handover'
<1> SUFFICES ASSUME CallInv, [CNext]_allvars PROVE Handover'
  OBVIOUS
<1> DEFINE Others == Ref \ (Args \cup Var \cup {Result})
<1>0. /\ IInv /\ Handover /\ ptr \in Pointers
      /\ Handle \subseteq Root \ QRoots
      /\ Others \subseteq (Root \ QRoots) \cap (Root \ CallRoots)
      /\ Args \subseteq Root \ CallRoots /\ Args \subseteq Root \ Handle
      /\ Result \in Root \ Handle
      /\ Others \subseteq Root \ Handle /\ Handle \subseteq Root /\ Others \subseteq Root
  BY Roles, RootsApart DEF CallInv, IInv, HeapInv, HeapType, QRoots, CallRoots
<1>1. CASE CallStep
  <2>1. /\ Confined(CallRoots) /\ phase' \in InCall
        /\ phase' = "answered" => resume' = NULL /\ \A h \in Handle : ptr'[h] = NULL
    BY <1>0, <1>1, CallStepConfined, CallStepPhase
  <2>2. \A w \in Others : ptr'[w] = NULL
    BY <1>0, <2>1 DEF Confined, Handover
  <2> QED
    BY <2>1, <2>2 DEF Handover, InCall, Running
<1>2. CASE InsideOp
  <2>1. /\ Confined(Handle) /\ phase' = phase
        /\ resume = NULL => resume' = NULL /\ Confined({})
    BY <1>2, InsideConfined
  <2>2. \A w \in Root \ Handle : ptr'[w] = ptr[w]
    BY <2>1 DEF Confined
  <2>3. resume = NULL => \A w \in Root : ptr'[w] = ptr[w]
    BY <2>1 DEF Confined
  <2> QED
    BY <1>0, <2>1, <2>2, <2>3 DEF Handover
<1>3. CASE QStep
  <2>1. \A w \in Root \ QRoots : ptr'[w] = ptr[w]
    BY <1>0, <1>3, QStepConfined DEF Confined
  <2>2. \A w \in Others : ptr'[w] = NULL
    BY <1>0, <2>1 DEF Handover
  <2>3. phase' \in {"idle", "push", "answered", "pop"} =>
          resume' = NULL /\ \A h \in Handle : ptr'[h] = NULL
    <3>1. phase' \in {"idle", "push", "answered", "pop"} =>
            phase \in {"idle", "push", "answered", "pop"}
      BY <1>3, QStepPhase DEF Running
    <3>2. UNCHANGED resume
      BY <1>3 DEF QStep, SetVariable, DeleteVariable, KeepResult, PushArg, PopArg,
             StartCall, EnterFunction, ResumeQ, DropResult, EndCall, NoHeapOp, vars,
             ManualNew, ManualR0, ManualR1, Atomically
    <3> QED
      BY <1>0, <2>1, <3>1, <3>2 DEF Handover
  <2>4. /\ phase' \in {"idle", "push"} => ptr'[Result] = NULL
        /\ phase' = "idle" => \A w \in Args : ptr'[w] = NULL
    <3>1. ASSUME NEW v \in Var, SetVariable(v) \/ DeleteVariable(v)
          PROVE  phase = "idle" /\ \A w \in Args \cup {Result} : ptr'[w] = ptr[w]
      <4>1. phase = "idle" /\ \E y : ptr' = [ptr EXCEPT ![v] = y]
        BY <3>1 DEF SetVariable, DeleteVariable, Stay, ManualNew, ManualR0, Atomically, New, R0
      <4>2. v \notin Args \cup {Result} /\ Args \cup {Result} \subseteq Owner
        BY Roles, RootsApart
      <4> QED
        BY <1>0, <4>1, <4>2 DEF Pointers
    <3>2. ASSUME NEW v \in Var, KeepResult(v) PROVE phase' = "pop"
      BY <3>2 DEF KeepResult, Stay
    <3>3. ASSUME NEW i \in DOMAIN Arg, PushArg(i)
          PROVE  phase = "push" /\ phase' = "push" /\ ptr'[Result] = ptr[Result]
      <4>1. phase = "push" /\ phase' = phase /\ \E y : ptr' = [ptr EXCEPT ![Arg[i]] = y]
        BY <3>3 DEF PushArg, Stay, ManualNew, ManualR1, Atomically, New, R1
      <4>2. Arg[i] # Result /\ Result \in Owner
        BY Roles, RootsApart
      <4> QED
        BY <1>0, <4>1, <4>2 DEF Pointers
    <3>4. ASSUME (\E i \in DOMAIN Arg : PopArg(i)) \/ DropResult PROVE phase' = "pop"
      BY <3>4 DEF PopArg, DropResult, Stay
    <3>5. CASE StartCall
      BY <1>0, <3>5 DEF StartCall, Goto, NoHeapOp, vars, Handover
    <3>6. CASE EnterFunction \/ ResumeQ
      BY <3>6 DEF EnterFunction, ResumeQ, Goto
    <3>7. CASE EndCall
      BY <3>7 DEF EndCall, NoHeapOp, vars
    <3> QED
      BY <1>0, <1>3, <3>1, <3>2, <3>3, <3>4, <3>5, <3>6, <3>7 DEF QStep, Handover
  <2> QED
    BY <2>2, <2>3, <2>4 DEF Handover
<1>4. CASE UNCHANGED allvars
  BY <1>0, <1>4 DEF allvars, vars, call, Handover
<1> QED
  BY <1>1, <1>2, <1>3, <1>4 DEF CNext

\* No step puts an object into one that is already there: elements enter a
\* list when it is made, and a new list is in no other.
LEMMA AcyclicKept ==
  ASSUME IInv, Acyclic, IInv', NEW W, Confined(W)
  PROVE  Acyclic'
<1> SUFFICES ASSUME NEW S \in SUBSET live', S # {}
             PROVE  \E x \in S : \A s \in Slot : ptr'[s] = x => s[1] \notin S
  BY DEF Acyclic
<1>0. /\ \A s \in Slot : s[1] \in live => ptr'[s] = ptr[s]
      /\ \A s \in Slot : s[1] \in live' \ live => ptr'[s] \in live \cup {NULL}
      /\ \A s \in Slot : ptr[s] # NULL => ptr[s] \in live
      /\ NULL \notin live' /\ live' \subseteq Obj
  BY HeapAssumption, RootsApart DEF Confined, IInv, HeapInv, HeapType, NoDangling
<1>1. CASE S \subseteq live
  BY <1>0, <1>1 DEF Acyclic
<1>2. CASE ~(S \subseteq live)
  <2>1. PICK x \in S : x \notin live
    BY <1>2
  <2>2. ASSUME NEW s \in Slot, ptr'[s] = x, s[1] \in S PROVE FALSE
    BY <1>0, <2>1, <2>2
  <2> QED
    BY <2>1, <2>2
<1> QED
  BY <1>1, <1>2

LEMMA AcyclicStep == CallInv /\ IInv' /\ [CNext]_allvars => Acyclic'
<1> SUFFICES ASSUME CallInv, IInv', [CNext]_allvars PROVE Acyclic'
  OBVIOUS
<1>1. \E W : Confined(W)
  <2>1. CASE QStep
    BY <2>1, QStepConfined DEF CallInv
  <2>2. CASE CallStep
    BY <2>2, CallStepConfined DEF CallInv
  <2>3. CASE InsideOp
    BY <2>3, InsideConfined
  <2>4. CASE UNCHANGED allvars
    BY <2>4, NothingTouched DEF allvars
  <2> QED
    BY <2>1, <2>2, <2>3, <2>4 DEF CNext
<1> QED
  BY <1>1, AcyclicKept DEF CallInv

LEMMA CallInvInit == CInit => CallInv
<1> SUFFICES ASSUME CInit PROVE CallInv
  OBVIOUS
<1>1. IInv /\ CallTypeOK
  BY InitInv, CallInitType DEF CInit
<1>2. phase = "idle" /\ resume = NULL /\ live = {} /\ \A w \in Owner : ptr[w] = NULL
  BY DEF CInit, Init, HeapInit
<1>3. Handover
  BY <1>2, Roles, RootsApart DEF Handover
<1>4. Borrowed /\ Acyclic
  BY <1>2 DEF Borrowed, Acyclic, InCall, Running
<1> QED
  BY <1>1, <1>3, <1>4 DEF CallInv

LEMMA CallInvStep == CallInv /\ [CNext]_allvars => CallInv'
<1> SUFFICES ASSUME CallInv, [CNext]_allvars PROVE CallInv'
  OBVIOUS
<1>1. IInv'
  BY CNextIsStep, StepInv DEF CallInv
<1>2. CallTypeOK'
  BY TypeStep DEF CallInv
<1> QED
  BY <1>1, <1>2, BorrowedStep, HandoverStep, AcyclicStep DEF CallInv

LEMMA CallInductive == CSpec => []CallInv
BY CallInvInit, CallInvStep, PTL DEF CSpec

-----------------------------------------------------------------------------
\* What q may rely on.

\* In a program of exported functions, too, k0::r is one less than the
\* number of owners and nothing freed is held.
THEOREM CallKeepsCounters == CSpec => []HeapInv
<1>1. CallInv => HeapInv
  BY DEF CallInv, IInv
<1> QED
  BY <1>1, CallInductive, PTL

\* q's arguments and variables stay valid while C++ code runs.
THEOREM ArgumentsStayValid == CSpec => []BorrowsValid
<1>1. CallInv => BorrowsValid
  BY RootsApart DEF CallInv, IInv, HeapInv, NoDangling, BorrowsValid
<1> QED
  BY <1>1, CallInductive, PTL

\* A live object's owners when the function answers are those that were
\* kept and those that the result brings.
LEMMA OwnersAtAnswer ==
  ASSUME CallInv, phase = "answered", Quiet, NEW x \in entry.live
  PROVE  LET new == {w \in Owners(x) : w = Result \/ (w \in Slot /\ w[1] \notin entry.live)}
         IN  r[x] = entry.r[x] + Cardinality(new)
<1> DEFINE new == {w \in Owners(x) : w = Result \/ (w \in Slot /\ w[1] \notin entry.live)}
<1>1. /\ x \in live /\ x \in Obj /\ entry.r[x] \in Nat /\ r[x] \in Nat
      /\ entry.r[x] + 1 = Cardinality(KeptOf(x))
      /\ r[x] + 1 = Cardinality(Owners(x))
  BY DEF CallInv, Borrowed, InCall, CallTypeOK, IInv, HeapInv, HeapType, RefCountExact
<1>2. x # NULL /\ \A h \in Handle : ptr[h] = NULL
  BY <1>1, HeapAssumption DEF CallInv, Handover
<1>3. Owners(x) = KeptOf(x) \cup new /\ KeptOf(x) \cap new = {}
  BY <1>2, Roles, RootsApart DEF Owners, OwnersIn, KeptOf, Kept
<1>4. /\ IsFiniteSet(KeptOf(x)) /\ IsFiniteSet(new)
      /\ Cardinality(KeptOf(x)) \in Nat /\ Cardinality(new) \in Nat
  <2>1. KeptOf(x) \in SUBSET Owner /\ new \in SUBSET Owner
    BY DEF KeptOf, Kept, Owners, OwnersIn
  <2> HIDE DEF new
  <2> QED
    BY <2>1, OwnerFinite, FS_Subset, FS_CardinalityType
<1> HIDE DEF new
<1>5. Cardinality(KeptOf(x) \cup new)
        = Cardinality(KeptOf(x)) + Cardinality(new) - Cardinality({})
  BY <1>3, <1>4, FS_Union, Zenon
<1>6. Cardinality(Owners(x)) = Cardinality(KeptOf(x) \cup new) /\ Cardinality({}) = 0
  BY <1>3, FS_EmptySet, Zenon
<1>7. r[x] = entry.r[x] + Cardinality(new)
  BY <1>1, <1>4, <1>5, <1>6
<1> QED
  BY <1>7 DEF new

\* On every path out of the function, the one where a later argument does
\* not convert included, each object q had is alive and its counter has
\* moved by the references of the result only (to_cpp's r1 is undone).
THEOREM CallsBalance == CSpec => []CallBalanced
<1>1. CallInv => CallBalanced
  <2> SUFFICES ASSUME CallInv, phase = "answered", Quiet, NEW x \in entry.live
               PROVE  /\ x \in live
                      /\ r[x] = entry.r[x] + Cardinality({w \in Owners(x) :
                             w = Result \/ (w \in Slot /\ w[1] \notin entry.live)})
    BY DEF CallBalanced
  <2>1. x \in live
    BY DEF CallInv, Borrowed, InCall
  <2> QED
    BY <2>1, OwnersAtAnswer
<1> QED
  BY <1>1, CallInductive, PTL

\* Between calls whatever is alive can be reached from q's variables: no
\* call leaves an object behind that only counts itself.
THEOREM NothingLeaks == CSpec => []NoGarbage
<1>1. CallInv => NoGarbage
  <2> SUFFICES ASSUME CallInv, phase = "idle", NEW S \in SUBSET live, S # {}
               PROVE  \E x \in S : \E w \in Owners(x) :
                        w \in Var \/ (w \in Slot /\ w[1] \notin S)
    BY DEF NoGarbage
  <2>1. PICK x \in S : \A s \in Slot : ptr[s] = x => s[1] \notin S
    BY DEF CallInv, Acyclic
  <2>2. HeapInv /\ x \in Obj /\ x \in live /\ x # NULL
    BY HeapAssumption DEF CallInv, IInv, HeapInv, HeapType
  <2>3. PICK w \in Owner : ptr[w] = x /\ w \in Owners(x)
    BY <2>2, LiveIffOwned DEF OwnersIn, Owners
  <2>4. \A v \in Handle \cup Ref : ptr[v] # NULL => v \in Var
    BY DEF CallInv, Handover
  <2>5. w \in Var \/ w \in Slot
    BY <2>2, <2>3, <2>4, RootsApart
  <2> QED
    BY <2>1, <2>3, <2>5
<1> QED
  BY <1>1, CallInductive, PTL

\* Calls implement Ownership: the counters of a program of exported
\* functions decide as ownership would.
THEOREM CallsImplementOwnership == CSpec => OwnershipSpec
<1>1. CInit => Ideal!Init
  BY DEF CInit, Init, HeapInit, Ideal!Init
<1>2. CallInv /\ CallInv' /\ [CNext]_allvars => [Ideal!Next]_<<ptr, live>>
  BY CNextIsStep, StepPrimitive, PrimitiveIdeal DEF CallInv, IInv
<1> QED
  BY <1>1, <1>2, CallInductive, PTL DEF CSpec, OwnershipSpec, Ideal!Spec
=============================================================================
