------------------------- MODULE BackendRefinement -------------------------
(***************************************************************************)
(* Backend, with its threads' stacks and its recursive mutexes, implements *)
(* AtomicBackend.  The frames of doLog on the stacks say what each backend *)
(* serves and what waits for it.                                           *)
(***************************************************************************)
EXTENDS Backend

(* The message that a stack s is about *)
Message(s) == s[1].msg

(* The doLog of b has been called, or is about to be called by a forward,  *)
(* but b has not let the message in; or it has rejected it, and the call   *)
(* is about to return.                                                     *)
WaitsFor(s, b) ==
    /\ s # <<>>
    /\ LET f == s[Len(s)]
       IN  \/ f.pc \in {"lock", "skip"} /\ f.backend = b
           \/ f.pc = "doLog" /\ f.pos \in Forwards /\ Target[f.pos] = b

(* On the stack s, b walks its appenders, *)
Serves(s, b) == \E i \in DOMAIN s : s[i].backend = b /\ Walking(s[i])

(* has the appender a still before it, *)
IsBefore(s, b, a) ==
    \E i \in DOMAIN s : s[i].backend = b /\ Walking(s[i]) /\ a > s[i].pos

(* is in the doLog of the appender a. *)
Visits(s, b, a) ==
    \E i \in DOMAIN s :
       s[i].backend = b /\ s[i].pc \in {"doLog", "await"} /\ s[i].pos = a

waitingBar ==
    [b \in Backends |-> {Message(stack[t]) :
                           t \in {u \in Threads : WaitsFor(stack[u], b)}}]
currentBar ==
    [b \in Backends |-> {Message(stack[t]) :
                           t \in {u \in Threads : Serves(stack[u], b)}}]
todoBar ==
    [b \in Backends |-> {a \in appenders[b] :
                           \E t \in Threads : IsBefore(stack[t], b, a)}]
atBar ==
    [b \in Backends |-> {a \in Appenders :
                           \E t \in Threads : Visits(stack[t], b, a)}]

Atomic == INSTANCE AtomicBackend
             WITH waiting <- waitingBar, current <- currentBar,
                  todo <- todoBar, at <- atBar

(***************************************************************************)
(* Whatever the threads interleave, each step of Backend is one of         *)
(* AtomicBackend or changes nothing there: a message is offered to every   *)
(* attached appender once, no two messages overlap in a backend, and a     *)
(* call returns when every backend its message was passed on to is done.   *)
(***************************************************************************)
StepsAreAtomic == [][Atomic!Next]_(Atomic!vars)
=============================================================================
