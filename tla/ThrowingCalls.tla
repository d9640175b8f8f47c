---------------------------- MODULE ThrowingCalls ----------------------------
(***************************************************************************)
(* What a Rust caller of a C++ function that may throw relies on: each     *)
(* call ends in Ok or in one Err, of the exception its own callee threw.   *)
(* A shim tells the text of what() as well; a landing pad keeps only which *)
(* class of the list matched.                                              *)
(*                                                                         *)
(* Calls nest, since C++ may call Rust back.  How an exception is caught,  *)
(* and how its message gets to Rust, is in Exceptions, which implements    *)
(* this specification.                                                     *)
(***************************************************************************)
EXTENDS Naturals, Sequences

CONSTANTS
  Thread,
  Site,       \* the functions annotated cxx_throws
  Exc,        \* the classes of exceptions
  Std,        \* those that derive from std::exception
  Bases,      \* the public bases of a class, itself included
  Catches,    \* the classes in cxx_throws(T0, T1, ...) of a site
  Native,     \* the sites without a C++ shim, called through a landing pad
  Exact,      \* those of them that the GCC backend compiled
  Msg,        \* the texts of what()
  Fixed,      \* the text of an Err that keeps nothing of what()
  MaxDepth    \* bound on nested calls

VARIABLES
  pending,   \* the calls of each thread, the innermost last, and how each ended
  result     \* what the last call of each thread returned

callVars == <<pending, result>>

Running == [how |-> "running"]
Returned == [how |-> "returned"]
Thrown(e, m) == [how |-> "thrown", exc |-> e, msg |-> m]

Ok == [kind |-> "ok"]
Err(kind, arm, m) == [kind |-> kind, arm |-> arm, msg |-> m]

(* The entries of the list that catch e: a clause catches what derives from  *)
(* its class, in a shim as in the landing pad of the LLVM backend; that of   *)
(* the GCC backend takes the class itself only.                              *)
Matching(s, e) ==
  {i \in DOMAIN Catches[s] :
     Catches[s][i] = e \/ (s \notin Exact /\ Catches[s][i] \in Bases[e])}
FirstMatch(s, e) == CHOOSE i \in Matching(s, e) : \A j \in Matching(s, e) : i <= j

(* CxxExceptionKind: Typed(i) is the i-th class of the list, counted from 0. *)
(* A landing pad has no arm for std::exception, and its text is fixed.       *)
AnswerThrown(s, e, m) ==
  CASE Matching(s, e) # {} -> Err("typed", FirstMatch(s, e) - 1, IF s \in Native THEN Fixed ELSE m)
    [] Matching(s, e) = {} /\ s \notin Native /\ e \in Std -> Err("std", 0, m)
    [] OTHER -> Err("unknown", 0, Fixed)
Answer(s, out) == IF out.how = "thrown" THEN AnswerThrown(s, out.exc, out.msg) ELSE Ok

CallInit ==
  /\ pending = [t \in Thread |-> <<>>]
  /\ result = [t \in Thread |-> Ok]

Top(t) == pending[t][Len(pending[t])]

Call(t, s) ==
  /\ Len(pending[t]) < MaxDepth
  /\ pending' = [pending EXCEPT ![t] = Append(@, [site |-> s, out |-> Running])]
  /\ UNCHANGED result

End(t, out) ==
  /\ pending[t] # <<>> /\ Top(t).out = Running
  /\ pending' = [pending EXCEPT ![t][Len(pending[t])].out = out]
  /\ UNCHANGED result

Deliver(t) ==
  /\ pending[t] # <<>> /\ Top(t).out # Running
  /\ pending' = [pending EXCEPT ![t] = SubSeq(@, 1, Len(@) - 1)]
  /\ result' = [result EXCEPT ![t] = Answer(Top(t).site, Top(t).out)]

CallNext == \E t \in Thread :
  \/ \E s \in Site : Call(t, s)
  \/ End(t, Returned)
  \/ \E e \in Exc, m \in Msg : End(t, Thrown(e, m))
  \/ Deliver(t)

CallSpec == CallInit /\ [][CallNext]_callVars
=============================================================================
