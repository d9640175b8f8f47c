------------------------------ MODULE Exceptions ------------------------------
(***************************************************************************)
(* C++ exceptions at the boundary: the shim of cxx_exception.rs that       *)
(* catches, the landing pad helper of native_invoke.rs, and the Rust       *)
(* wrapper that decodes (rust_bindings.rs, exception.rs).                  *)
(*                                                                         *)
(* A thread has a stack of calls.  While C++ runs for a call, in the       *)
(* callee or in what() of the exception it threw, it may invoke a          *)
(* CxxCallback, whose closure makes the next call of the stack.  Each arm  *)
(* of a shim has its own thread_local std::string; the shim returns a      *)
(* pointer into it, which Rust reads later.                                *)
(***************************************************************************)
EXTENDS Naturals, Sequences, FiniteSets

CONSTANTS Thread, Site, Exc, Std, Bases, Catches, Native, Exact, Msg, Fixed, MaxDepth,
  Ret,        \* what a site returns: "void", "scalar", "class", or "self" for a constructor
  MaxRaise    \* bound on the exceptions of a thread

ASSUME ThrowingAssumption ==
  /\ Std \subseteq Exc /\ Native \subseteq Site /\ Exact \subseteq Native
  /\ Bases \in [Exc -> SUBSET Exc] /\ \A e \in Exc : e \in Bases[e]
  /\ \A s \in Site : Catches[s] \in Seq(Std)
  /\ Ret \in [Site -> {"void", "scalar", "class", "self"}]
  /\ Fixed \notin Msg /\ MaxDepth \in Nat /\ MaxRaise \in Nat /\ 1 .. MaxRaise \subseteq Msg

VARIABLES
  stack,   \* the frames of each thread
  buf,     \* the thread_local buffers: thread, site, arm
  caught,  \* the exceptions a thread has begun and not ended to catch
  raised,  \* the exceptions thrown so far
  result   \* what the last call of each thread returned

vars == <<stack, buf, caught, raised, result>>

-----------------------------------------------------------------------------
Running == [how |-> "running"]
Returned == [how |-> "returned"]
Thrown(e, m) == [how |-> "thrown", exc |-> e, msg |-> m]

(* Tags: CXX_EXC_OK, CXX_EXC_STD, CXX_EXC_UNKNOWN, and CXX_EXC_TYPED_BASE    *)
(* plus the place in the list.                                               *)
OkTag == 0
StdTag == 1
UnknownTagBug == 0
UnknownTag == 2
TypedBase == 16

Null == [at |-> "null"]
Static == [at |-> "static"]
Into(s, arm) == [at |-> "buffer", site |-> s, arm |-> arm]
NoRaw == [tag |-> OkTag, message |-> Null]

(* The catch clauses of a shim, in the order they are written: the list,     *)
(* std::exception, and the rest.  Arm Len + 1 is that of std::exception.     *)
ArmTag(s, arm) == IF arm > Len(Catches[s]) THEN StdTag ELSE TypedBase + arm - 1
Arms(s) == 1 .. Len(Catches[s]) + 1
CatchesIn(s, arm, e) ==
  IF arm > Len(Catches[s]) THEN e \in Std ELSE Catches[s][arm] \in Bases[e]
HasArm(s, e) == \E arm \in Arms(s) : CatchesIn(s, arm, e)
ArmOf(s, e) == CHOOSE arm \in Arms(s) :
  CatchesIn(s, arm, e) /\ \A b \in Arms(s) : CatchesIn(s, b, e) => arm <= b

(* The selector of a landing pad is the place in the list of its first       *)
(* clause that matches, or 0.                                                *)
FirstOrNone(I) == IF I = {} THEN 0 ELSE CHOOSE i \in I : \A j \in I : i <= j

(* The GCC backend has the class of the exception compared with each of the  *)
(* list; LLVM leaves the clauses to the personality function, which takes a  *)
(* class that derives from the clause's.                                     *)
MatchTypeinfo(s, e) == FirstOrNone({i \in DOMAIN Catches[s] : Catches[s][i] = e})
MatchClauses(s, e) == FirstOrNone({i \in DOMAIN Catches[s] : Catches[s][i] \in Bases[e]})
Selector(s, e) == IF s \in Exact THEN MatchTypeinfo(s, e) ELSE MatchClauses(s, e)

BufferSharedBug(t) == CHOOSE u \in Thread : TRUE
BufferThread(t) == t

Deref(t, p) == CASE p.at = "null" -> ""
                 [] p.at = "static" -> Fixed
                 [] OTHER -> buf[BufferThread(t)][p.site][p.arm]

-----------------------------------------------------------------------------
Depth(t) == Len(stack[t])
Top(t) == stack[t][Depth(t)]
At(t, pc) == stack[t] # <<>> /\ Top(t).pc = pc
Put(t, f) == stack' = [stack EXCEPT ![t][Depth(t)] = f]

Init ==
  /\ stack = [t \in Thread |-> <<>>]
  /\ buf = [t \in Thread |-> [s \in Site |-> [arm \in Arms(s) |-> ""]]]
  /\ caught = [t \in Thread |-> <<>>]
  /\ raised = 0
  /\ result = [t \in Thread |-> [kind |-> "ok"]]

(* The wrapper makes an uninitialized slot and enters the try block.  The    *)
(* caller is the thread's own Rust code, or a closure that thunk runs for    *)
(* the C++ code of the call below.                                           *)
Call(t, s) ==
  /\ stack[t] = <<>> \/ At(t, "body") \/ At(t, "what")
  /\ Depth(t) < MaxDepth
  /\ stack' = [stack EXCEPT ![t] = Append(@,
       [site |-> s, pc |-> "body", out |-> Running, arm |-> 1, raw |-> NoRaw,
        slot |-> IF Ret[s] = "void" THEN "none" ELSE "uninit"])]
  /\ UNCHANGED <<buf, caught, raised, result>>

(* The callee returns: `new (__out) T(...)` constructs, `*__out = f(...)`    *)
(* assigns.                                                                  *)
Return(t) ==
  /\ At(t, "body")
  /\ Put(t, [Top(t) EXCEPT !.pc = "raw", !.out = Returned,
       !.slot = CASE Ret[Top(t).site] = "void" -> "none"
                  [] Ret[Top(t).site] = "class" -> "assigned"
                  [] OTHER -> "init"])
  /\ UNCHANGED <<buf, caught, raised, result>>

(* It throws, and a clause with a buffer begins to catch.                    *)
CatchArm(t, e) ==
  /\ At(t, "body") /\ raised < MaxRaise
  /\ Top(t).site \notin Native /\ HasArm(Top(t).site, e)
  /\ Put(t, [Top(t) EXCEPT !.pc = "what", !.out = Thrown(e, raised + 1),
                          !.arm = ArmOf(Top(t).site, e)])
  /\ caught' = [caught EXCEPT ![t] = Append(@, raised + 1)]
  /\ raised' = raised + 1
  /\ UNCHANGED <<buf, result>>

(* `__buf = __e.what(); return { tag, __buf.c_str() };`                      *)
CopyWhat(t) ==
  /\ At(t, "what")
  /\ LET f == Top(t) IN
       /\ buf' = [buf EXCEPT ![BufferThread(t)][f.site][f.arm] = f.out.msg]
       /\ Put(t, [f EXCEPT !.pc = "raw",
                     !.raw = [tag |-> ArmTag(f.site, f.arm), message |-> Into(f.site, f.arm)]])
  /\ caught' = [caught EXCEPT ![t] = SubSeq(@, 1, Len(@) - 1)]
  /\ UNCHANGED <<raised, result>>

(* It throws, and the catch-all takes it: catch (...) of the shim, or        *)
(* __rustcc_cxx_catch_unknown, which begins and ends the catch.              *)
CatchUnknownNoEndBug(t, e) ==
  /\ At(t, "body") /\ raised < MaxRaise
  /\ IF Top(t).site \in Native THEN Selector(Top(t).site, e) = 0
                                ELSE ~HasArm(Top(t).site, e)
  /\ Put(t, [Top(t) EXCEPT !.pc = "raw", !.out = Thrown(e, raised + 1),
                          !.raw = [tag |-> UnknownTag, message |-> Static]])
  /\ caught' = [caught EXCEPT ![t] = Append(@, raised + 1)]
  /\ raised' = raised + 1
  /\ UNCHANGED <<buf, result>>
CatchUnknown(t, e) ==
  /\ At(t, "body") /\ raised < MaxRaise
  /\ IF Top(t).site \in Native THEN Selector(Top(t).site, e) = 0
                                ELSE ~HasArm(Top(t).site, e)
  /\ Put(t, [Top(t) EXCEPT !.pc = "raw", !.out = Thrown(e, raised + 1),
                          !.raw = [tag |-> UnknownTag, message |-> Static]])
  /\ raised' = raised + 1
  /\ UNCHANGED <<buf, caught, result>>

(* __rustcc_cxx_catch_typed, which the fork calls with the selector: it      *)
(* begins and ends the catch, and its message is a text of its own.          *)
CatchTyped(t, e) ==
  /\ At(t, "body") /\ raised < MaxRaise
  /\ Top(t).site \in Native /\ Selector(Top(t).site, e) # 0
  /\ Put(t, [Top(t) EXCEPT !.pc = "raw", !.out = Thrown(e, raised + 1),
       !.raw = [tag |-> TypedBase + Selector(Top(t).site, e) - 1, message |-> Static]])
  /\ raised' = raised + 1
  /\ UNCHANGED <<buf, caught, result>>

(* CxxException::from_raw.                                                   *)
Kind(tag) == IF tag >= TypedBase THEN "typed" ELSE IF tag = StdTag THEN "std" ELSE "unknown"
FromRaw(t, raw) ==
  [kind |-> Kind(raw.tag), arm |-> IF raw.tag >= TypedBase THEN raw.tag - TypedBase ELSE 0,
   msg |-> Deref(t, raw.message)]

(* The wrapper looks at the tag before it looks at the slot.                 *)
Decode(t) ==
  /\ At(t, "raw")
  /\ LET e == Top(t).raw IN
       result' = [result EXCEPT ![t] = IF e.tag = OkTag THEN [kind |-> "ok"]
                                                         ELSE FromRaw(t, e)]
  /\ stack' = [stack EXCEPT ![t] = SubSeq(@, 1, Depth(t) - 1)]
  /\ UNCHANGED <<buf, caught, raised>>

Next == \E t \in Thread :
  \/ \E s \in Site : Call(t, s)
  \/ \E e \in Exc : CatchArm(t, e) \/ CatchUnknown(t, e) \/ CatchTyped(t, e)
  \/ Return(t) \/ CopyWhat(t) \/ Decode(t)

Spec == Init /\ [][Next]_vars

-----------------------------------------------------------------------------
(* The properties.                                                           *)

(* The exceptions in c are those of the frames of st whose what() runs, the  *)
(* outermost first.                                                          *)
Catchers(st) == {i \in DOMAIN st : st[i].pc = "what"}
InOrder(c, st) == \E at \in [DOMAIN c -> Catchers(st)] :
  /\ \A i, j \in DOMAIN c : i < j => at[i] < at[j]
  /\ \A k \in Catchers(st) : \E i \in DOMAIN c : at[i] = k
  /\ \A i \in DOMAIN c : c[i] = st[at[i]].out.msg

(* Every catch that a thread began is ended in order: what it has begun and  *)
(* not ended are the exceptions of the frames whose what() runs, the         *)
(* innermost last.  An idle thread has none: no exception object is lost.    *)
CatchesBalanced == \A t \in Thread : InOrder(caught[t], stack[t])

(* The slot a wrapper reads on Ok was filled, the one it forgets on Err was  *)
(* not: nothing half-constructed is returned and nothing constructed is lost.*)
SlotAgreesWithTag == \A t \in Thread : At(t, "raw") =>
  (Top(t).slot = "uninit") = (Top(t).raw.tag # OkTag /\ Ret[Top(t).site] # "void")

(* The refinement mapping forgets how a call is under way.                   *)
Bar(st) == [i \in DOMAIN st |-> [site |-> st[i].site, out |-> st[i].out]]
Pending == [t \in Thread |-> Bar(stack[t])]
Calls == INSTANCE ThrowingCalls WITH pending <- Pending

(* The boundary implements ThrowingCalls: whatever the nesting and the       *)
(* threads, a call returns Ok or the kind of what its own callee threw, the  *)
(* entry of the list being the first that catches it under the rule of the   *)
(* site.  Behind a shim its message is what() of that exception whenever a   *)
(* clause with a class caught it, although the message waits in a buffer     *)
(* that is used again.  A landing pad gives the fixed text for a typed catch *)
(* too, although the documentation of CxxExceptionKind::Typed says that the  *)
(* message is still the result of what().                                    *)
ImplementsCalls == Calls!CallSpec
=============================================================================
