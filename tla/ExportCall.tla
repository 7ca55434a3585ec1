---------------------------- MODULE ExportCall -----------------------------
(***************************************************************************)
(* A call from q to a C++ function exported with QBIND_FN_EXPORT.          *)
(*                                                                         *)
(* q pushes one reference per argument, the generated function converts    *)
(* the arguments (Converter::to_cpp, in any order), runs the body, hands   *)
(* the result to q (Converter::to_q) or turns an exception into krr, and q *)
(* pops its arguments.  Every step that touches the heap is an operation   *)
(* of RefCount, so this module says when they happen, not what they do.    *)
(***************************************************************************)
EXTENDS RefCount

CONSTANTS Param,    \* sequence of handles: the function's parameters
          Scratch,  \* handle: a local of the body, then the temporary of to_q
          Value,    \* handle: the returned wrapper, to_q's parameter
          Arg,      \* sequence of references: q's argument list
          Result,   \* reference: the ::K the exported function returns
          Var,      \* references: q's variables
          MaxBody   \* bound: heap operations in one run of the body

Params == {Param[i] : i \in DOMAIN Param}
Args   == {Arg[i] : i \in DOMAIN Arg}

ASSUME CallAssumption ==
  /\ Param \in Seq(Handle) /\ Arg \in Seq(Ref) /\ Len(Param) = Len(Arg)
  /\ \A i, j \in DOMAIN Param : i # j => Param[i] # Param[j] /\ Arg[i] # Arg[j]
  /\ {Scratch, Value} \subseteq Handle \ Params /\ Scratch # Value
  /\ Var \subseteq Ref \ Args /\ Result \in Ref \ (Args \cup Var)
  /\ MaxBody \in Nat

VARIABLES phase,     \* where the call is
          sig,       \* wrapper type of each parameter: Atom or Vector
          converted, \* parameters whose constructor has finished
          fuel,      \* heap operations the body may still do
          entry      \* history: the heap when q entered the function

call == <<phase, sig, converted, fuel, entry>>
allvars == <<vars, call>>

Phase == {"idle", "push", "convert", "body", "unwind", "return", "get",
          "release", "destroy", "void", "answered", "pop"}

Sigs == [DOMAIN Param -> {"atom", "vector"}]
AtRest == [live |-> {}, r |-> [x \in Obj |-> 0]]

CInit == /\ Init
         /\ phase = "idle" /\ converted = {} /\ fuel = 0 /\ entry = AtRest
         /\ sig = [i \in DOMAIN Param |-> "atom"]

\* From phase p on to phase q, the heap operation A done on the way.
Goto(p, q) == phase = p /\ phase' = q
Stay(ps) == phase \in ps /\ UNCHANGED phase
Rest == UNCHANGED <<sig, converted, fuel, entry>>
NoHeapOp == Quiet /\ UNCHANGED vars

-----------------------------------------------------------------------------
\* q, before the call.

\* Bound: an address is free for what the function may answer, and n more.
HeapRoom(n) == Cardinality(live) + n < Cardinality(Obj)

SetVariable(v) == /\ Stay({"idle"}) /\ Rest /\ HeapRoom(1)
                  /\ \E x \in Obj, k \in {"atom", "vector"} : ManualNew(v, x, k)

DeleteVariable(v) == Stay({"idle"}) /\ Rest /\ ManualR0(v)

StartCall == Goto("idle", "push") /\ Rest /\ NoHeapOp /\ HeapRoom(0)

\* An argument is a variable's value or a temporary of the q expression.
PushArg(i) == /\ Stay({"push"}) /\ Rest
              /\ \/ \E v \in Var : ManualR1(Arg[i], v)
                 \/ HeapRoom(1) /\ \E x \in Obj, k \in {"atom", "vector"} : ManualNew(Arg[i], x, k)

EnterFunction == /\ Goto("push", "convert") /\ NoHeapOp
                 /\ \A w \in Args : ptr[w] # NULL
                 /\ sig' \in Sigs
                 /\ entry' = [live |-> live, r |-> r]
                 /\ converted' = {} /\ fuel' = MaxBody

-----------------------------------------------------------------------------
\* The generated function.

\* A plausible bug: to_cpp hands the borrowed pointer to T without an r1.
Convert_Borrowed(i) ==
  /\ phase = "convert" /\ i \notin converted /\ Quiet
  /\ ptr[Param[i]] = NULL /\ ptr' = [ptr EXCEPT ![Param[i]] = ptr[Arg[i]]]
  /\ IF kind[ptr[Arg[i]]] = sig[i]
       THEN converted' = converted \cup {i} /\ UNCHANGED phase
       ELSE phase' = "unwind" /\ UNCHANGED converted
  /\ UNCHANGED <<r, live, kind, resume, sig, fuel, entry>>

\* A plausible bug: on a type mismatch T throws before a member holds the
\* reference that to_cpp took.
Convert_Unheld(i) ==
  /\ phase = "convert" /\ i \notin converted
  /\ IF kind[ptr[Arg[i]]] = sig[i]
       THEN /\ MakeNonOwning(Param[i], Arg[i])
            /\ converted' = converted \cup {i} /\ UNCHANGED phase
       ELSE /\ Quiet /\ r' = [r EXCEPT ![ptr[Arg[i]]] = @ + 1]
            /\ phase' = "unwind"
            /\ UNCHANGED <<ptr, live, kind, resume, converted>>
  /\ UNCHANGED <<sig, fuel, entry>>

\* to_cpp<T>: take a reference of its own, then T's constructor checks the
\* type; on a mismatch it throws with the reference held by its member.
Convert(i) == /\ phase = "convert" /\ i \notin converted
              /\ MakeNonOwning(Param[i], Arg[i])
              /\ IF kind[ptr[Arg[i]]] = sig[i]
                   THEN converted' = converted \cup {i} /\ UNCHANGED phase
                   ELSE phase' = "unwind" /\ UNCHANGED converted
              /\ UNCHANGED <<sig, fuel, entry>>

EnterBody == /\ Goto("convert", "body") /\ Rest /\ NoHeapOp
             /\ converted = DOMAIN Param

\* The user's function: its parameters are its own, by value, and a wrapper
\* is assigned only from a wrapper of its own type.
BodyStep ==
  /\ Stay({"body"})
  /\ fuel > 0 /\ fuel' = fuel - 1
  /\ UNCHANGED <<sig, converted, entry>>
  /\ \/ \E i \in DOMAIN Param :
          \/ CopyConstruct(Scratch, Param[i])
          \/ MoveConstruct(Scratch, Param[i])
          \/ /\ ptr[Scratch] # NULL /\ kind[ptr[Scratch]] = sig[i]
             /\ CopyAssign(Param[i], Scratch)
     \/ \E i, j \in DOMAIN Param :
          sig[i] = sig[j] /\ (CopyAssign(Param[i], Param[j]) \/ MoveAssign(Param[i], Param[j]))
     \/ \E x \in Obj : \/ NewObject(Scratch, x, "atom")
                       \/ \E n \in Idx : \E gs \in [1..n -> Params] :
                             MakeTuple(Scratch, x, gs)

BodyThrow == Goto("body", "unwind") /\ Rest /\ NoHeapOp

\* return g; the wrapper may be one that was moved from.
ReturnValue(g) == /\ Goto("body", "return") /\ Rest
                  /\ IF ptr[g] = NULL THEN NoHeapOp ELSE MoveConstruct(Value, g)

ReturnVoid == Goto("body", "void") /\ Rest /\ NoHeapOp

\* Parameters are destroyed when the body returns or at the end of the full
\* expression, to_q included: the implementation chooses.
DestroyParam(g) == /\ Stay({"unwind", "return", "get", "release", "destroy", "void"})
                   /\ Rest /\ Destruct(g)

DestroyLocal == Stay({"unwind", "return", "void"}) /\ Rest /\ Destruct(Scratch)

EnterToQ == /\ Goto("return", "get") /\ Rest /\ NoHeapOp
            /\ ptr[Scratch] = NULL

\* A plausible bug: the returned wrapper is taken to hold an object.
ToQGet_NotNull == /\ Goto("get", "release") /\ Rest
                  /\ CopyConstruct(Scratch, Value)

\* to_q: value.get() copies the K ...
ToQGet == /\ Goto("get", "release") /\ Rest
          /\ IF ptr[Value] = NULL THEN NoHeapOp ELSE CopyConstruct(Scratch, Value)

\* A plausible bug: the result is r1'ed as if release() kept a reference.
ToQRelease_Twice ==
  /\ Goto("release", "destroy") /\ Rest /\ Quiet
  /\ IF ptr[Scratch] = NULL THEN UNCHANGED vars
       ELSE /\ ptr' = [ptr EXCEPT ![Result] = ptr[Scratch], ![Scratch] = NULL]
            /\ r' = [r EXCEPT ![ptr[Scratch]] = @ + 1]
            /\ UNCHANGED <<live, kind, resume>>

\* ... .release() leaves the copy's reference to q ...
ToQRelease == /\ Goto("release", "destroy") /\ Rest
              /\ IF ptr[Scratch] = NULL THEN NoHeapOp ELSE Release(Result, Scratch)

\* ... and value is destroyed.
ToQDestroy == Stay({"destroy"}) /\ Rest /\ Destruct(Value)

Unwound == \A h \in Handle : ptr[h] = NULL

Answer == /\ Goto("destroy", "answered") /\ Rest /\ NoHeapOp
          /\ Unwound

\* catch: krr(..) returns null.
AnswerError == /\ Goto("unwind", "answered") /\ Rest /\ NoHeapOp
               /\ Unwound

\* A function without a result answers the generic null, knk(0).
AnswerVoid == /\ Goto("void", "answered") /\ Rest
              /\ Unwound
              /\ \E x \in Obj : ManualNew(Result, x, "tuple")

-----------------------------------------------------------------------------
\* q, after the call.

ResumeQ == Goto("answered", "pop") /\ Rest /\ NoHeapOp

PopArg(i) == Stay({"pop"}) /\ Rest /\ ManualR0(Arg[i])

KeepResult(v) == Stay({"pop"}) /\ Rest /\ ManualR1(v, Result)

DropResult == Stay({"pop"}) /\ Rest /\ ManualR0(Result)

EndCall == /\ Goto("pop", "idle") /\ NoHeapOp
           /\ \A w \in Args \cup {Result} : ptr[w] = NULL
           /\ converted' = {} /\ fuel' = 0 /\ entry' = AtRest
           /\ sig' = [i \in DOMAIN Param |-> "atom"]

-----------------------------------------------------------------------------
QStep == \/ \E v \in Var : \/ SetVariable(v) \/ DeleteVariable(v) \/ KeepResult(v)
         \/ \E i \in DOMAIN Arg : PushArg(i) \/ PopArg(i)
         \/ StartCall \/ EnterFunction \/ ResumeQ \/ DropResult \/ EndCall

CallStep == \/ \E i \in DOMAIN Param : Convert(i)
            \/ EnterBody \/ BodyStep \/ BodyThrow \/ ReturnVoid
            \/ \E g \in Params \cup {Scratch} : ReturnValue(g)
            \/ \E g \in Params : DestroyParam(g)
            \/ DestroyLocal \/ EnterToQ \/ ToQGet \/ ToQRelease \/ ToQDestroy
            \/ Answer \/ AnswerError \/ AnswerVoid

InsideOp == (Cascade \/ FinishAssign) /\ UNCHANGED call

CNext == QStep \/ CallStep \/ InsideOp

\* The exported function runs on; the body is assumed to end (MaxBody).
CFairness == WF_allvars(CallStep) /\ WF_allvars(InsideOp)

CSpec == CInit /\ [][CNext]_allvars /\ CFairness

-----------------------------------------------------------------------------
\* The types of the call's own variables, for the proofs; no run checks them.
CallTypeOK == /\ phase \in Phase
              /\ sig \in Sigs
              /\ converted \subseteq DOMAIN Param
              /\ fuel \in 0..MaxBody
              /\ entry \in [live : SUBSET Obj, r : [Obj -> Nat]]

\* When the function answers, with a result or with an error, every object
\* q had is still there and its count has moved by exactly the references
\* the result brings with it: to_cpp's r1 is undone on every path, the one
\* where a later argument fails to convert included (converter.h:21-40).
CallBalanced ==
  phase = "answered" /\ Quiet =>
    \A x \in entry.live :
      /\ x \in live
      /\ r[x] = entry.r[x] + Cardinality({w \in Owners(x) :
                   w = Result \/ (w \in Slot /\ w[1] \notin entry.live)})

\* Between calls every live object can be reached from q's variables: no
\* set of objects is held only from inside itself.
NoGarbage ==
  phase = "idle" /\ Quiet =>
    \A S \in SUBSET live : S = {} \/
      \E x \in S : \E w \in Owners(x) : w \in Var \/ (w \in Slot /\ w[1] \notin S)

\* q's arguments and variables stay valid while C++ code works on them.
BorrowsValid == \A w \in Ref : ptr[w] # NULL => ptr[w] \in live

\* A call that was entered is answered.
CallReturns == phase = "convert" ~> phase = "answered"
=============================================================================
