----------------------- MODULE BackendRefinementProofs -----------------------
(***************************************************************************)
(* Backend implements AtomicBackend, for any number of threads, backends   *)
(* and appenders and any wiring without loops.                             *)
(*                                                                         *)
(* That a backend serves one message at a time is IInv of BackendProofs.   *)
(* That a thread's own frames do not get in each other's way is Linked:    *)
(* each is the doLog of the backend that the one before forwards to, so    *)
(* the ranks of the backends rise along the stack and none occurs twice.   *)
(*                                                                         *)
(* And what Backend's clients see of it: their calls do not wait for one   *)
(* another for ever, sinks are entered by one thread at a time, miss       *)
(* nothing and agree on the order.  Locks are taken in the order of the    *)
(* ranks, a thread's Locks before the others; and a message that has been  *)
(* output has the mutex of the backend it was logged through until its     *)
(* call is over.                                                           *)
(***************************************************************************)
EXTENDS BackendRefinement, BackendProofs

OneMessage(t, s) ==
    \A i \in DOMAIN s : s[i].msg = Message(s) /\ s[i].msg.thread = t

AtWired(s) ==
    \A i \in DOMAIN s :
       s[i].pc \in {"doLog", "await"} => s[i].pos \in Wiring[s[i].backend]

Forwarded(s) ==
    \A i \in DOMAIN s :
       i # Len(s) => s[i].pos \in Forwards
                     /\ s[i + 1].backend = Target[s[i].pos]

Ranked(s) ==
    \A i, j \in DOMAIN s : i < j => Rank[s[i].backend] < Rank[s[j].backend]

(* The stack of t is a chain of forwards with one message. *)
Linked(t, s) == OneMessage(t, s) /\ AtWired(s) /\ Forwarded(s) /\ Ranked(s)

(* Only what the wiring provides for is ever attached. *)
Attached == \A b \in Backends : appenders[b] \subseteq Wiring[b]

(* What a doLog call has rejected is still to be rejected. *)
RejectionStable ==
    \A t \in Threads : \A i \in DOMAIN stack[t] :
       LET f == stack[t][i]
       IN  f.pc = "skip" => f.msg.priority > priority[f.backend]

RInv ==
    /\ \A t \in Threads : Linked(t, stack[t])
    /\ Attached
    /\ RejectionStable

-----------------------------------------------------------------------------
(* Stacks *)

Proper(s) ==
    /\ Len(s) \in Nat
    /\ DOMAIN s = 1 .. Len(s)
    /\ \A i \in DOMAIN s : s[i] \in Frames
    /\ s # <<>> => Len(s) \in DOMAIN s /\ 1 \in DOMAIN s

LEMMA ProperStacks ==
    ASSUME TypeOK, NEW t \in Threads
    PROVE  Proper(stack[t])
<1>1. stack[t] \in Seq(Frames)
  BY DEF TypeOK
<1> QED
  BY <1>1 DEF Proper

(* The innermost frame of r, and no other, is changed, to pc and pos. *)
TopSet(r, s, pc, pos) ==
    /\ r # <<>> /\ s # <<>>
    /\ Len(s) = Len(r) /\ DOMAIN s = DOMAIN r
    /\ s[Len(r)].backend = r[Len(r)].backend
    /\ s[Len(r)].msg = r[Len(r)].msg
    /\ s[Len(r)].pc = pc
    /\ s[Len(r)].pos = pos
    /\ \A i \in DOMAIN r : i # Len(r) => s[i] = r[i]

LEMMA TopSets ==
    ASSUME TypeOK, NEW t \in Threads, NEW pc, NEW pos, stack[t] # <<>>,
           TopBecomes(t, pc, pos)
    PROVE  /\ TopSet(stack[t], stack'[t], pc, pos)
           /\ \A u \in Threads \ {t} : stack'[u] = stack[u]
<1>1. Proper(stack[t])
  BY ProperStacks
<1>2. stack'[t] # <<>>
  BY <1>1 DEF TopBecomes, Proper
<1> QED
  BY <1>1, <1>2 DEF TopBecomes, TopSet, Proper

LEMMA OneMessageTop ==
    ASSUME NEW t, NEW r, NEW s, NEW pc, NEW pos, Proper(r), OneMessage(t, r),
           TopSet(r, s, pc, pos)
    PROVE  OneMessage(t, s) /\ Message(s) = Message(r)
<1>1. \A i \in DOMAIN r : s[i].msg = r[i].msg
  BY DEF TopSet
<1> QED
  BY <1>1 DEF TopSet, OneMessage, Message, Proper

LEMMA LinkedTop ==
    ASSUME NEW t, NEW r, NEW s, NEW pc, NEW pos, Proper(r), Linked(t, r),
           TopSet(r, s, pc, pos),
           pc \in {"doLog", "await"} => pos \in Wiring[r[Len(r)].backend]
    PROVE  Linked(t, s) /\ Message(s) = Message(r)
<1>1. \A i \in DOMAIN r : s[i].backend = r[i].backend
  BY DEF TopSet
<1>2. OneMessage(t, s) /\ Message(s) = Message(r)
  BY OneMessageTop DEF Linked
<1>3. AtWired(s)
  BY <1>1 DEF TopSet, Linked, AtWired
<1>4. Forwarded(s)
  <2>1. \A i \in DOMAIN r : i # Len(r) => i + 1 \in DOMAIN r
    BY DEF Proper
  <2> QED BY <1>1, <2>1 DEF TopSet, Linked, Forwarded
<1>5. Ranked(s)
  BY <1>1 DEF TopSet, Linked, Ranked
<1> QED
  BY <1>2, <1>3, <1>4, <1>5 DEF Linked

(* No other frame of a stack is of the innermost frame's backend. *)
LEMMA TopUnique ==
    ASSUME NEW r, Proper(r), Ranked(r), r # <<>>,
           NEW i \in DOMAIN r, r[i].backend = r[Len(r)].backend
    PROVE  i = Len(r)
<1>1. r[i].backend \in Backends
  BY DEF Proper, Frames
<1>2. Rank[r[i].backend] \in Nat
  BY <1>1, AcyclicAssumption
<1>3. ~ (i < Len(r))
  BY <1>2 DEF Proper, Ranked
<1> QED
  BY <1>3 DEF Proper

(* What a stack says of the backend of its innermost frame f *)
TopView(r, f) ==
    /\ Serves(r, f.backend) <=> Walking(f)
    /\ \A a : IsBefore(r, f.backend, a) <=> Walking(f) /\ a > f.pos
    /\ \A a : Visits(r, f.backend, a)
                 <=> f.pc \in {"doLog", "await"} /\ f.pos = a

LEMMA TopIsSeen ==
    ASSUME NEW r, Proper(r), Ranked(r), r # <<>>
    PROVE  TopView(r, r[Len(r)])
<1>1. Len(r) \in DOMAIN r
  BY DEF Proper
<1>2. \A i \in DOMAIN r : r[i].backend = r[Len(r)].backend => i = Len(r)
  BY TopUnique
<1> QED
  BY <1>1, <1>2 DEF TopView, Serves, IsBefore, Visits

(* r and s say the same of c. *)
SameView(r, s, c) ==
    /\ Serves(s, c) <=> Serves(r, c)
    /\ \A a : IsBefore(s, c, a) <=> IsBefore(r, c, a)
    /\ \A a : Visits(s, c, a) <=> Visits(r, c, a)

LEMMA OthersAreSeen ==
    ASSUME NEW r, NEW s, NEW pc, NEW pos, Proper(r), TopSet(r, s, pc, pos),
           NEW c, c # r[Len(r)].backend
    PROVE  SameView(r, s, c)
<1>1. \A i \in DOMAIN r : \/ s[i] = r[i]
                          \/ s[i].backend # c /\ r[i].backend # c
  BY DEF TopSet
<1>2. DOMAIN s = DOMAIN r
  BY DEF TopSet
<1> QED
  BY <1>1, <1>2 DEF SameView, Serves, IsBefore, Visits

(* A backend that a stack does not guard is not served there. *)
Unseen(s, b) ==
    /\ ~ Serves(s, b)
    /\ \A a : ~ IsBefore(s, b, a) /\ ~ Visits(s, b, a)

LEMMA UnguardedUnseen ==
    ASSUME NEW s, NEW b, Guarding(s, b) = {}
    PROVE  Unseen(s, b)
BY DEF Unseen, Guarding, Serves, IsBefore, Visits, Walking
-----------------------------------------------------------------------------
(* The bars                                                                *)

(* Of the messages that wait for b or that b serves, those of other        *)
(* threads than t, and t's own                                             *)
WaitOthers(S, t, b) ==
    {Message(S[u]) : u \in {v \in Threads \ {t} : WaitsFor(S[v], b)}}
ServeOthers(S, t, b) ==
    {Message(S[u]) : u \in {v \in Threads \ {t} : Serves(S[v], b)}}
WaitOwn(s, b) == IF WaitsFor(s, b) THEN {Message(s)} ELSE {}
ServeOwn(s, b) == IF Serves(s, b) THEN {Message(s)} ELSE {}

LEMMA BarsAtThread ==
    ASSUME NEW t \in Threads, NEW b \in Backends
    PROVE  /\ waitingBar[b] = WaitOthers(stack, t, b) \cup WaitOwn(stack[t], b)
           /\ waitingBar'[b]
                 = WaitOthers(stack', t, b) \cup WaitOwn(stack'[t], b)
           /\ currentBar[b]
                 = ServeOthers(stack, t, b) \cup ServeOwn(stack[t], b)
           /\ currentBar'[b]
                 = ServeOthers(stack', t, b) \cup ServeOwn(stack'[t], b)
<1>1. waitingBar[b] = WaitOthers(stack, t, b) \cup WaitOwn(stack[t], b)
  BY DEF waitingBar, WaitOthers, WaitOwn
<1>2. waitingBar'[b] = WaitOthers(stack', t, b) \cup WaitOwn(stack'[t], b)
  BY DEF waitingBar, WaitOthers, WaitOwn
<1>3. currentBar[b] = ServeOthers(stack, t, b) \cup ServeOwn(stack[t], b)
  BY DEF currentBar, ServeOthers, ServeOwn
<1>4. currentBar'[b] = ServeOthers(stack', t, b) \cup ServeOwn(stack'[t], b)
  BY DEF currentBar, ServeOthers, ServeOwn
<1> QED
  BY <1>1, <1>2, <1>3, <1>4

(* No stack but t's changes. *)
OnlyStackOf(t) == \A u \in Threads \ {t} : stack'[u] = stack[u]

LEMMA OthersKept ==
    ASSUME NEW t \in Threads, NEW b, OnlyStackOf(t)
    PROVE  /\ WaitOthers(stack', t, b) = WaitOthers(stack, t, b)
           /\ ServeOthers(stack', t, b) = ServeOthers(stack, t, b)
BY DEF WaitOthers, ServeOthers, OnlyStackOf

LEMMA WaitingKept ==
    ASSUME NEW t \in Threads, NEW b \in Backends, OnlyStackOf(t),
           WaitsFor(stack'[t], b) <=> WaitsFor(stack[t], b),
           WaitsFor(stack[t], b) => Message(stack'[t]) = Message(stack[t])
    PROVE  waitingBar'[b] = waitingBar[b]
<1>1. WaitOthers(stack', t, b) = WaitOthers(stack, t, b)
  BY OthersKept
<1>2. WaitOwn(stack'[t], b) = WaitOwn(stack[t], b)
  BY DEF WaitOwn
<1> QED
  BY <1>1, <1>2, BarsAtThread

LEMMA WaitingBegins ==
    ASSUME NEW t \in Threads, NEW b \in Backends, OnlyStackOf(t),
           WaitsFor(stack'[t], b), ~ WaitsFor(stack[t], b)
    PROVE  waitingBar'[b] = waitingBar[b] \cup {Message(stack'[t])}
<1>1. WaitOthers(stack', t, b) = WaitOthers(stack, t, b)
  BY OthersKept
<1>2. /\ WaitOwn(stack'[t], b) = {Message(stack'[t])}
      /\ WaitOwn(stack[t], b) = {}
  BY DEF WaitOwn
<1>3. /\ waitingBar[b] = WaitOthers(stack, t, b) \cup {}
      /\ waitingBar'[b] = WaitOthers(stack, t, b) \cup {Message(stack'[t])}
  BY <1>1, <1>2, BarsAtThread
<1> QED
  BY <1>3

LEMMA WaitingEnds ==
    ASSUME NEW t \in Threads, NEW b \in Backends, OnlyStackOf(t),
           Message(stack[t]) \notin WaitOthers(stack, t, b),
           ~ WaitsFor(stack'[t], b), WaitsFor(stack[t], b)
    PROVE  waitingBar'[b] = waitingBar[b] \ {Message(stack[t])}
<1>1. WaitOthers(stack', t, b) = WaitOthers(stack, t, b)
  BY OthersKept
<1>2. /\ WaitOwn(stack'[t], b) = {}
      /\ WaitOwn(stack[t], b) = {Message(stack[t])}
  BY DEF WaitOwn
<1>3. /\ waitingBar[b] = WaitOthers(stack, t, b) \cup {Message(stack[t])}
      /\ waitingBar'[b] = WaitOthers(stack, t, b) \cup {}
  BY <1>1, <1>2, BarsAtThread
<1> QED
  BY <1>3

LEMMA CurrentKept ==
    ASSUME NEW t \in Threads, NEW b \in Backends, OnlyStackOf(t),
           Serves(stack'[t], b) <=> Serves(stack[t], b),
           Serves(stack[t], b) => Message(stack'[t]) = Message(stack[t])
    PROVE  currentBar'[b] = currentBar[b]
<1>1. ServeOthers(stack', t, b) = ServeOthers(stack, t, b)
  BY OthersKept
<1>2. ServeOwn(stack'[t], b) = ServeOwn(stack[t], b)
  BY DEF ServeOwn
<1> QED
  BY <1>1, <1>2, BarsAtThread

(* No other thread than t is with b. *)
AloneWith(t, b) == \A u \in Threads \ {t} : Unseen(stack[u], b)

LEMMA AloneSeen ==
    ASSUME NEW t \in Threads, NEW b \in Backends, AloneWith(t, b)
    PROVE  /\ currentBar[b] = ServeOwn(stack[t], b)
           /\ todoBar[b] = {a \in appenders[b] : IsBefore(stack[t], b, a)}
           /\ atBar[b] = {a \in Appenders : Visits(stack[t], b, a)}
<1>1. ServeOthers(stack, t, b) = {}
  BY DEF ServeOthers, AloneWith, Unseen
<1>2. currentBar[b] = {} \cup ServeOwn(stack[t], b)
  BY <1>1, BarsAtThread
<1>3. \A a : (\E u \in Threads : IsBefore(stack[u], b, a))
                 <=> IsBefore(stack[t], b, a)
  BY DEF AloneWith, Unseen
<1>4. \A a : (\E u \in Threads : Visits(stack[u], b, a))
                 <=> Visits(stack[t], b, a)
  BY DEF AloneWith, Unseen
<1> QED
  BY <1>2, <1>3, <1>4 DEF todoBar, atBar

LEMMA AloneSeenAfter ==
    ASSUME NEW t \in Threads, NEW b \in Backends, AloneWith(t, b),
           OnlyStackOf(t)
    PROVE  /\ currentBar'[b] = ServeOwn(stack'[t], b)
           /\ todoBar'[b] = {a \in appenders'[b] : IsBefore(stack'[t], b, a)}
           /\ atBar'[b] = {a \in Appenders : Visits(stack'[t], b, a)}
<1>1. ServeOthers(stack', t, b) = {}
  BY DEF ServeOthers, AloneWith, Unseen, OnlyStackOf
<1>2. currentBar'[b] = {} \cup ServeOwn(stack'[t], b)
  BY <1>1, BarsAtThread
<1>3. \A a : (\E u \in Threads : IsBefore(stack'[u], b, a))
                 <=> IsBefore(stack'[t], b, a)
  BY DEF AloneWith, Unseen, OnlyStackOf
<1>4. \A a : (\E u \in Threads : Visits(stack'[u], b, a))
                 <=> Visits(stack'[t], b, a)
  BY DEF AloneWith, Unseen, OnlyStackOf
<1> QED
  BY <1>2, <1>3, <1>4 DEF todoBar, atBar

LEMMA TodoKept ==
    ASSUME NEW t \in Threads, NEW b \in Backends, OnlyStackOf(t),
           appenders' = appenders,
           \A a : IsBefore(stack'[t], b, a) <=> IsBefore(stack[t], b, a)
    PROVE  todoBar'[b] = todoBar[b]
<1>1. \A u \in Threads : \A a : IsBefore(stack'[u], b, a)
                               <=> IsBefore(stack[u], b, a)
  BY DEF OnlyStackOf
<1>2. \A a : (\E u \in Threads : IsBefore(stack'[u], b, a))
                <=> (\E u \in Threads : IsBefore(stack[u], b, a))
  BY <1>1
<1> QED
  BY <1>2 DEF todoBar

LEMMA AtKept ==
    ASSUME NEW t \in Threads, NEW b \in Backends, OnlyStackOf(t),
           \A a : Visits(stack'[t], b, a) <=> Visits(stack[t], b, a)
    PROVE  atBar'[b] = atBar[b]
<1>1. \A u \in Threads : \A a : Visits(stack'[u], b, a) <=> Visits(stack[u], b, a)
  BY DEF OnlyStackOf
<1>2. \A a : (\E u \in Threads : Visits(stack'[u], b, a))
                <=> (\E u \in Threads : Visits(stack[u], b, a))
  BY <1>1
<1> QED
  BY <1>2 DEF atBar

LEMMA BarsKept ==
    ASSUME NEW t \in Threads, NEW b \in Backends, OnlyStackOf(t),
           appenders' = appenders, SameView(stack[t], stack'[t], b),
           Serves(stack[t], b) => Message(stack'[t]) = Message(stack[t])
    PROVE  /\ currentBar'[b] = currentBar[b]
           /\ todoBar'[b] = todoBar[b]
           /\ atBar'[b] = atBar[b]
BY CurrentKept, TodoKept, AtKept DEF SameView

(* Bars that are the same at every backend, and at every one but b *)
LEMMA BarsExtensional ==
    /\ (\A c \in Backends : waitingBar'[c] = waitingBar[c])
          => waitingBar' = waitingBar
    /\ (\A c \in Backends : currentBar'[c] = currentBar[c])
          => currentBar' = currentBar
    /\ (\A c \in Backends : todoBar'[c] = todoBar[c]) => todoBar' = todoBar
    /\ (\A c \in Backends : atBar'[c] = atBar[c]) => atBar' = atBar
<1>1. (\A c \in Backends : waitingBar'[c] = waitingBar[c])
         => waitingBar' = waitingBar
  BY DEF waitingBar
<1>2. (\A c \in Backends : currentBar'[c] = currentBar[c])
         => currentBar' = currentBar
  BY DEF currentBar
<1>3. (\A c \in Backends : todoBar'[c] = todoBar[c]) => todoBar' = todoBar
  BY DEF todoBar
<1>4. (\A c \in Backends : atBar'[c] = atBar[c]) => atBar' = atBar
  BY DEF atBar
<1> QED
  BY <1>1, <1>2, <1>3, <1>4

LEMMA BarsExcept ==
    ASSUME NEW b
    PROVE  /\ (\A c \in Backends : c # b => waitingBar'[c] = waitingBar[c])
                 => waitingBar' = [waitingBar EXCEPT ![b] = waitingBar'[b]]
           /\ (\A c \in Backends : c # b => currentBar'[c] = currentBar[c])
                 => currentBar' = [currentBar EXCEPT ![b] = currentBar'[b]]
           /\ (\A c \in Backends : c # b => todoBar'[c] = todoBar[c])
                 => todoBar' = [todoBar EXCEPT ![b] = todoBar'[b]]
           /\ (\A c \in Backends : c # b => atBar'[c] = atBar[c])
                 => atBar' = [atBar EXCEPT ![b] = atBar'[b]]
<1>1. (\A c \in Backends : c # b => waitingBar'[c] = waitingBar[c])
         => waitingBar' = [waitingBar EXCEPT ![b] = waitingBar'[b]]
  BY DEF waitingBar
<1>2. (\A c \in Backends : c # b => currentBar'[c] = currentBar[c])
         => currentBar' = [currentBar EXCEPT ![b] = currentBar'[b]]
  BY DEF currentBar
<1>3. (\A c \in Backends : c # b => todoBar'[c] = todoBar[c])
         => todoBar' = [todoBar EXCEPT ![b] = todoBar'[b]]
  BY DEF todoBar
<1>4. (\A c \in Backends : c # b => atBar'[c] = atBar[c])
         => atBar' = [atBar EXCEPT ![b] = atBar'[b]]
  BY DEF atBar
<1> QED
  BY <1>1, <1>2, <1>3, <1>4

(* The set of the appenders that are attached is one of addresses. *)
LEMMA Addresses ==
    ASSUME Attached, NEW b \in Backends, NEW a \in appenders[b]
    PROVE  a \in Wiring[b] /\ a \in Appenders /\ a \in Nat /\ a > 0
<1>1. a \in Wiring[b]
  BY DEF Attached
<1>2. a \in Appenders
  BY <1>1, BackendAssumption
<1> QED
  BY <1>1, <1>2, BackendAssumption DEF Appenders

-----------------------------------------------------------------------------
(* What the locks and the messages keep apart *)

LEMMA ProperSeq ==
    ASSUME NEW s \in Seq(Frames)
    PROVE  Proper(s)
BY DEF Proper

LEMMA GuardingAlone ==
    ASSUME IInv, NEW t \in Threads, NEW b \in Backends,
           Guarding(stack[t], b) # {}
    PROVE  AloneWith(t, b)
<1>1. ASSUME NEW u \in Threads \ {t} PROVE Guarding(stack[u], b) = {}
  <2>1. /\ TypeOK /\ LockAccounting
        /\ holds[t][b] \in Nat /\ guards[t][b] \in Nat
        /\ holds[u][b] \in Nat /\ guards[u][b] \in Nat
    BY DEF IInv, TypeOK
  <2>2. holds[t][b] >= 1 + guards[t][b]
    BY <2>1, GuardingLocks
  <2>3. holds[u][b] = 0
    BY <2>1, <2>2 DEF IInv, Exclusive
  <2> QED BY <2>1, <2>3, GuardingLocks
<1> QED
  BY <1>1, UnguardedUnseen DEF AloneWith

LEMMA LockingAlone ==
    ASSUME IInv, NEW t \in Threads, NEW b \in Backends, CanLock(t, b)
    PROVE  AloneWith(t, b)
<1>1. ASSUME NEW u \in Threads \ {t} PROVE Guarding(stack[u], b) = {}
  BY CanLockAlone DEF IInv
<1> QED
  BY <1>1, UnguardedUnseen DEF AloneWith

(* Who waits or is served has a message of its own. *)
LEMMA Senders ==
    ASSUME IInv, RInv
    PROVE  \A u \in Threads : \A b : WaitsFor(stack[u], b) \/ Serves(stack[u], b)
              => Message(stack[u]).thread = u
<1> SUFFICES ASSUME NEW u \in Threads, NEW b,
                    WaitsFor(stack[u], b) \/ Serves(stack[u], b)
             PROVE  Message(stack[u]).thread = u
  OBVIOUS
<1>1. Proper(stack[u])
  BY ProperStacks DEF IInv
<1>2. stack[u] # <<>>
  <2>1. CASE Serves(stack[u], b)
    <3>1. PICK i \in DOMAIN stack[u] : TRUE
      BY <2>1 DEF Serves
    <3> QED BY <1>1, <3>1 DEF Proper
  <2> QED BY <2>1 DEF WaitsFor
<1>3. 1 \in DOMAIN stack[u]
  BY <1>1, <1>2 DEF Proper
<1> QED
  BY <1>3 DEF RInv, Linked, OneMessage, Message

LEMMA OtherMessages ==
    ASSUME IInv, RInv, NEW t \in Threads, stack[t] # <<>>, NEW b
    PROVE  /\ Message(stack[t]) \notin WaitOthers(stack, t, b)
           /\ Message(stack[t]) \notin ServeOthers(stack, t, b)
<1>1. Message(stack[t]).thread = t
  <2>1. 1 \in DOMAIN stack[t]
    BY ProperStacks DEF IInv, Proper
  <2> QED BY <2>1 DEF RInv, Linked, OneMessage, Message
<1> QED
  BY <1>1, Senders DEF WaitOthers, ServeOthers

-----------------------------------------------------------------------------
(* A step of t that changes its innermost frame, to pc and pos             *)

TopStep(t, pc, pos) ==
    LET R == stack[t]
        S == stack'[t]
        b == Top(t).backend
    IN  /\ OnlyStackOf(t)
        /\ TopSet(R, S, pc, pos)
        /\ S[Len(R)].backend = b
        /\ Linked(t, S)
        /\ Message(S) = Message(R)
        /\ Message(R) = Top(t).msg
        /\ b \in Backends
        /\ TopView(R, Top(t))
        /\ TopView(S, S[Len(S)])
        /\ \A c : c # b => SameView(R, S, c)

LEMMA TopSteps ==
    ASSUME IInv, RInv, NEW t \in Threads, NEW pc, NEW pos, stack[t] # <<>>,
           TopBecomes(t, pc, pos),
           pc \in {"doLog", "await"} => pos \in Wiring[Top(t).backend]
    PROVE  TopStep(t, pc, pos)
<1> DEFINE R == stack[t]
           S == stack'[t]
<1>1. /\ TopSet(R, S, pc, pos)
      /\ OnlyStackOf(t)
  BY TopSets DEF IInv, OnlyStackOf
<1>2. Proper(R) /\ Proper(S)
  <2>1. R \in Seq(Frames) /\ S \in Seq(Frames)
    BY DEF TopBecomes, IInv, TypeOK
  <2> QED BY <2>1, ProperSeq
<1>3. R[Len(R)] = Top(t) /\ Linked(t, R)
  BY DEF Top, RInv
<1>4. Linked(t, S) /\ Message(S) = Message(R)
  BY <1>1, <1>2, <1>3, LinkedTop
<1>5. S # <<>> /\ S[Len(R)].backend = Top(t).backend
  BY <1>1, <1>3 DEF TopSet
<1>6. TopView(R, Top(t)) /\ TopView(S, S[Len(S)])
  BY <1>2, <1>3, <1>4, <1>5, TopIsSeen DEF Linked
<1>7. \A c : c # Top(t).backend => SameView(R, S, c)
  BY <1>1, <1>2, <1>3, OthersAreSeen
<1>8. Message(R) = Top(t).msg /\ Top(t).backend \in Backends
  BY <1>2, <1>3 DEF Proper, Frames, Linked, OneMessage
<1> QED
  BY <1>1, <1>3, <1>4, <1>5, <1>6, <1>7, <1>8 DEF TopStep

LEMMA TopKeepsRInv ==
    ASSUME RInv, NEW t \in Threads, NEW pc, NEW pos, TopStep(t, pc, pos),
           UNCHANGED <<appenders, priority>>,
           pc = "skip" => Top(t).msg.priority > priority[Top(t).backend]
    PROVE  RInv'
<1>1. \A u \in Threads : Linked(u, stack'[u])
  BY DEF RInv, TopStep, OnlyStackOf
<1>2. Attached'
  BY DEF RInv, Attached
<1>3. RejectionStable'
  <2> SUFFICES ASSUME NEW u \in Threads, NEW i \in DOMAIN stack'[u],
                      stack'[u][i].pc = "skip"
               PROVE  stack'[u][i].msg.priority
                         > priority[stack'[u][i].backend]
    BY DEF RejectionStable
  <2>1. CASE u = t /\ i = Len(stack[t])
    BY <2>1 DEF TopStep, TopSet, Top
  <2>2. CASE u # t \/ i # Len(stack[t])
    <3>1. stack'[u][i] = stack[u][i] /\ i \in DOMAIN stack[u]
      BY <2>2 DEF TopStep, TopSet, OnlyStackOf
    <3> QED BY <3>1 DEF RInv, RejectionStable
  <2> QED BY <2>1, <2>2
<1> QED
  BY <1>1, <1>2, <1>3 DEF RInv
-----------------------------------------------------------------------------
(* One lemma per action: it preserves RInv and is a step of AtomicBackend, *)
(* or changes nothing there.                                               *)

AtomicStep == Atomic!Next \/ UNCHANGED Atomic!vars

LEMMA BarAppenders == Atomic!Appenders = Appenders
BY DEF Atomic!Appenders, Appenders

LEMMA AcquireTop ==
    ASSUME IInv, RInv, NEW t \in Threads, Acquire(t)
    PROVE  TopStep(t, IF Top(t).msg.priority <= priority[Top(t).backend]
                      THEN "iterate" ELSE "skip", 0)
<1> DEFINE pc == IF Top(t).msg.priority <= priority[Top(t).backend]
                 THEN "iterate" ELSE "skip"
<1>1. /\ stack[t] # <<>>
      /\ stack' = [stack EXCEPT ![t] = WithTop(t, pc, 0)]
  BY DEF Acquire, Running
<1>2. pc \in Phases /\ 0 \in Nat /\ pc \notin {"doLog", "await"}
  BY DEF Phases
<1> HIDE DEF pc
<1>3. TopBecomes(t, pc, 0)
  BY <1>1, <1>2, TopChange DEF IInv
<1>4. TopStep(t, pc, 0)
  BY <1>1, <1>2, <1>3, TopSteps
<1> QED
  BY <1>4 DEF pc

LEMMA AcquireRefines ==
    ASSUME IInv, RInv, NEW t \in Threads, Acquire(t)
    PROVE  RInv' /\ AtomicStep
<1> DEFINE b == Top(t).backend
           m == Message(stack[t])
           pc == IF Top(t).msg.priority <= priority[b]
                 THEN "iterate" ELSE "skip"
<1>1. /\ stack[t] # <<>> /\ Top(t).pc = "lock" /\ CanLock(t, b)
      /\ UNCHANGED <<appenders, priority, threshold, constructed, out, calls>>
      /\ stack' = [stack EXCEPT ![t] = WithTop(t, pc, 0)]
  BY DEF Acquire, Running
<1>2. TopStep(t, pc, 0)
  BY AcquireTop
<1>3. RInv'
  <2>1. pc = "skip" => ~ (Top(t).msg.priority <= priority[b])
    OBVIOUS
  <2>2. Top(t).msg.priority \in Nat /\ priority[b] \in Nat
    BY <1>1, <1>2, StackType, BackendAssumption
       DEF IInv, TypeOK, TopStep, Frames, Messages
  <2>3. pc = "skip" => Top(t).msg.priority > priority[b]
    BY <2>1, <2>2
  <2> HIDE DEF pc
  <2> QED BY <1>1, <1>2, <2>3, TopKeepsRInv
<1>4. /\ pc \in {"iterate", "skip"}
      /\ pc = "iterate" => Top(t).msg.priority <= priority[b]
  OBVIOUS
<1> HIDE DEF b, m, pc
<1>5. /\ b \in Backends /\ m = Top(t).msg /\ Message(stack'[t]) = m
      /\ OnlyStackOf(t)
      /\ stack'[t][Len(stack'[t])].backend = b
      /\ stack'[t][Len(stack'[t])].pc = pc
      /\ stack'[t][Len(stack'[t])].pos = 0
      /\ stack[t][Len(stack[t])] = Top(t) /\ stack'[t] # <<>>
      /\ TopView(stack[t], Top(t))
      /\ TopView(stack'[t], stack'[t][Len(stack'[t])])
      /\ \A c : c # b => SameView(stack[t], stack'[t], c)
  BY <1>2 DEF TopStep, TopSet, Top, b, m
<1>6. /\ \A c : WaitsFor(stack[t], c) <=> c = b
      /\ \A c : WaitsFor(stack'[t], c) <=> pc = "skip" /\ c = b
  BY <1>1, <1>4, <1>5 DEF WaitsFor, b
<1>7. /\ ~ Serves(stack[t], b)
      /\ \A a : ~ IsBefore(stack[t], b, a) /\ ~ Visits(stack[t], b, a)
  BY <1>1, <1>5 DEF TopView, Walking, b
<1>8. /\ Serves(stack'[t], b) <=> pc = "iterate"
      /\ \A a : ~ Visits(stack'[t], b, a)
      /\ \A a : IsBefore(stack'[t], b, a) <=> pc = "iterate" /\ a > 0
  BY <1>4, <1>5 DEF TopView, Walking
<1>9. \A c \in Backends : c # b => /\ currentBar'[c] = currentBar[c]
                                   /\ todoBar'[c] = todoBar[c]
                                   /\ atBar'[c] = atBar[c]
  BY <1>1, <1>5, BarsKept DEF m
<1>10. AloneWith(t, b)
  BY <1>1, <1>5, LockingAlone
<1>11. /\ currentBar[b] = {} /\ todoBar[b] = {} /\ atBar[b] = {}
       /\ atBar'[b] = {}
  <2>1. currentBar[b] = {} /\ todoBar[b] = {} /\ atBar[b] = {}
    BY <1>5, <1>7, <1>10, AloneSeen DEF ServeOwn
  <2>2. atBar'[b] = {}
    BY <1>5, <1>8, <1>10, AloneSeenAfter
  <2> QED BY <2>1, <2>2
<1>12. CASE pc = "skip"
  <2>1. \A c \in Backends : waitingBar'[c] = waitingBar[c]
    BY <1>5, <1>6, <1>12, WaitingKept DEF m
  <2>2. currentBar'[b] = {} /\ todoBar'[b] = {}
    BY <1>5, <1>8, <1>10, <1>12, AloneSeenAfter DEF ServeOwn
  <2>3. UNCHANGED <<waitingBar, currentBar, todoBar, atBar>>
    BY <1>9, <1>11, <2>1, <2>2, BarsExtensional
  <2>4. UNCHANGED Atomic!vars
    BY <1>1, <2>3 DEF Atomic!vars, Atomic!settings, Atomic!service
  <2> QED BY <1>3, <2>4 DEF AtomicStep
<1>13. CASE pc = "iterate"
  <2>1. waitingBar' = [waitingBar EXCEPT ![b] = waitingBar[b] \ {m}]
    <3>1. m \notin WaitOthers(stack, t, b)
      BY <1>1, OtherMessages DEF m
    <3>2. waitingBar'[b] = waitingBar[b] \ {m}
      BY <1>5, <1>6, <1>13, <3>1, WaitingEnds DEF m
    <3>3. \A c \in Backends : c # b => waitingBar'[c] = waitingBar[c]
      BY <1>5, <1>6, <1>13, WaitingKept DEF m
    <3> QED BY <3>2, <3>3, BarsExcept
  <2>2. currentBar' = [currentBar EXCEPT ![b] = {m}]
    <3>1. currentBar'[b] = {m}
      BY <1>5, <1>8, <1>10, <1>13, AloneSeenAfter DEF ServeOwn
    <3> QED BY <1>9, <3>1, BarsExcept
  <2>3. todoBar' = [todoBar EXCEPT ![b] = appenders[b]]
    <3>1. \A a \in appenders[b] : a > 0
      BY <1>5, Addresses DEF RInv
    <3>2. todoBar'[b] = {a \in appenders[b] : IsBefore(stack'[t], b, a)}
      BY <1>1, <1>5, <1>10, AloneSeenAfter
    <3>3. \A a \in appenders[b] : IsBefore(stack'[t], b, a)
      BY <1>8, <1>13, <3>1
    <3>4. todoBar'[b] = appenders[b]
      BY <3>2, <3>3
    <3> QED BY <1>9, <3>4, BarsExcept
  <2>4. atBar' = atBar
    BY <1>9, <1>11, BarsExtensional
  <2>5. m \in waitingBar[b]
    BY <1>5, <1>6, BarsAtThread DEF WaitOwn, m
  <2>6. Atomic!Serve(b, m)
    BY <1>1, <1>4, <1>5, <1>11, <1>13, <2>1, <2>2, <2>3, <2>4, <2>5
       DEF Atomic!Serve, Atomic!settings
  <2>7. Atomic!Next
    BY <1>5, <2>5, <2>6 DEF Atomic!Next
  <2> QED BY <1>3, <2>7 DEF AtomicStep
<1> QED
  BY <1>4, <1>12, <1>13
(* The innermost frame is guarded, so its thread is alone with its backend. *)
LEMMA TopAlone ==
    ASSUME IInv, NEW t \in Threads, stack[t] # <<>>, Top(t).pc # "lock",
           Top(t).backend \in Backends
    PROVE  AloneWith(t, Top(t).backend)
<1>1. Len(stack[t]) \in DOMAIN stack[t] /\ stack[t][Len(stack[t])] = Top(t)
  BY StackType DEF IInv, Top
<1>2. Guarding(stack[t], Top(t).backend) # {}
  BY <1>1 DEF Guarding
<1> QED
  BY <1>2, GuardingAlone

(* The next appender of the walk *)
IsNext(f, a) == a \in Rest(f) /\ \A c \in Rest(f) : a <= c

LEMMA DispatchTop ==
    ASSUME IInv, RInv, NEW t \in Threads, Dispatch(t)
    PROVE  /\ stack[t] # <<>> /\ Top(t).pc = "iterate"
           /\ \E a : /\ IsNext(Top(t), a)
                     /\ a \in appenders[Top(t).backend] /\ a > Top(t).pos
                     /\ a \in Wiring[Top(t).backend] /\ a \in Appenders
                     /\ a \in Nat
                     /\ TopStep(t, IF Top(t).msg.priority <= threshold[a]
                                   THEN "doLog" ELSE "iterate", a)
<1> DEFINE b == Top(t).backend
<1>1. PICK a \in Rest(Top(t)) :
         /\ \A c \in Rest(Top(t)) : a <= c
         /\ stack' = [stack EXCEPT ![t] = WithTop(t,
                       IF Top(t).msg.priority <= threshold[a]
                       THEN "doLog" ELSE "iterate", a)]
  BY DEF Dispatch
<1> DEFINE pc == IF Top(t).msg.priority <= threshold[a]
                 THEN "doLog" ELSE "iterate"
<1>2. stack[t] # <<>> /\ Top(t).pc = "iterate"
  BY DEF Dispatch, Running
<1>3. b \in Backends
  BY <1>2, StackType DEF IInv, Frames
<1>4. /\ a \in appenders[b] /\ a > Top(t).pos
      /\ a \in Wiring[b] /\ a \in Appenders /\ a \in Nat
  BY <1>3, Addresses DEF Rest, RInv
<1>5. TopStep(t, pc, a)
  <2>1. pc \in Phases
    BY DEF Phases
  <2>2. stack' = [stack EXCEPT ![t] = WithTop(t, pc, a)]
    BY <1>1
  <2> HIDE DEF pc
  <2>3. TopBecomes(t, pc, a)
    BY <1>2, <1>4, <2>1, <2>2, TopChange DEF IInv
  <2> QED BY <1>2, <1>4, <2>3, TopSteps
<1> QED
  BY <1>1, <1>2, <1>4, <1>5 DEF IsNext

LEMMA DispatchRefines ==
    ASSUME IInv, RInv, NEW t \in Threads, Dispatch(t)
    PROVE  RInv' /\ AtomicStep
<1> DEFINE b == Top(t).backend
           m == Message(stack[t])
<1>1. PICK a : /\ IsNext(Top(t), a)
               /\ a \in appenders[b] /\ a > Top(t).pos
               /\ a \in Wiring[b] /\ a \in Appenders /\ a \in Nat
               /\ TopStep(t, IF Top(t).msg.priority <= threshold[a]
                             THEN "doLog" ELSE "iterate", a)
  BY DispatchTop
<1> DEFINE pc == IF Top(t).msg.priority <= threshold[a]
                 THEN "doLog" ELSE "iterate"
<1>2. /\ stack[t] # <<>> /\ Top(t).pc = "iterate"
      /\ UNCHANGED <<appenders, priority, threshold, constructed, out, calls>>
  BY DEF Dispatch, Running
<1>3. b \in Backends /\ Top(t).pos \in Nat /\ Top(t).msg.priority \in Nat
  BY <1>2, StackType, BackendAssumption DEF IInv, Frames, Messages
<1>4. /\ a \in appenders[b] /\ a > Top(t).pos
      /\ a \in Wiring[b] /\ a \in Appenders /\ a \in Nat
  BY <1>1
<1>5. TopStep(t, pc, a)
  BY <1>1
<1>6. /\ pc \in {"iterate", "doLog"}
      /\ pc = "doLog" => Top(t).msg.priority <= threshold[a]
      /\ pc = "iterate" => Top(t).msg.priority > threshold[a]
  <2>1. threshold[a] \in Nat
    BY <1>4, BackendAssumption DEF IInv, TypeOK
  <2> QED BY <1>3, <2>1
<1> HIDE DEF b, m, pc
<1>7. RInv'
  BY <1>2, <1>5, <1>6, TopKeepsRInv
<1>8. /\ m = Top(t).msg /\ Message(stack'[t]) = m
      /\ OnlyStackOf(t)
      /\ stack'[t][Len(stack'[t])].backend = b
      /\ stack'[t][Len(stack'[t])].pc = pc
      /\ stack'[t][Len(stack'[t])].pos = a
      /\ stack[t][Len(stack[t])] = Top(t) /\ stack'[t] # <<>>
      /\ TopView(stack[t], Top(t))
      /\ TopView(stack'[t], stack'[t][Len(stack'[t])])
      /\ \A c : c # b => SameView(stack[t], stack'[t], c)
  BY <1>5 DEF TopStep, TopSet, Top, b, m
<1>9. /\ \A c : ~ WaitsFor(stack[t], c)
      /\ \A c : WaitsFor(stack'[t], c)
                   <=> pc = "doLog" /\ a \in Forwards /\ Target[a] = c
  BY <1>2, <1>6, <1>8 DEF WaitsFor
<1>10. /\ Serves(stack[t], b)
       /\ \A x : IsBefore(stack[t], b, x) <=> x > Top(t).pos
       /\ \A x : ~ Visits(stack[t], b, x)
  BY <1>2, <1>8 DEF TopView, Walking, b
<1>11. /\ Serves(stack'[t], b)
       /\ \A x : IsBefore(stack'[t], b, x) <=> x > a
       /\ \A x : Visits(stack'[t], b, x) <=> pc = "doLog" /\ a = x
  BY <1>6, <1>8 DEF TopView, Walking
<1>12. \A c \in Backends : c # b => /\ currentBar'[c] = currentBar[c]
                                    /\ todoBar'[c] = todoBar[c]
                                    /\ atBar'[c] = atBar[c]
  BY <1>2, <1>8, BarsKept DEF m
<1>13. AloneWith(t, b)
  BY <1>2, <1>3, TopAlone DEF b
<1>14. currentBar[b] = {m} /\ currentBar' = currentBar
  <2>1. currentBar[b] = {m}
    BY <1>3, <1>10, <1>13, AloneSeen DEF ServeOwn, m
  <2>2. currentBar'[b] = {m}
    BY <1>3, <1>8, <1>11, <1>13, AloneSeenAfter DEF ServeOwn
  <2> QED BY <1>12, <2>1, <2>2, BarsExtensional
<1>15. a \in todoBar[b] /\ todoBar' = [todoBar EXCEPT ![b] = todoBar[b] \ {a}]
  <2>1. todoBar[b] = {x \in appenders[b] : IsBefore(stack[t], b, x)}
    BY <1>3, <1>13, AloneSeen
  <2>2. todoBar'[b] = {x \in appenders[b] : IsBefore(stack'[t], b, x)}
    BY <1>2, <1>3, <1>8, <1>13, AloneSeenAfter
  <2>3. ASSUME NEW x \in appenders[b]
        PROVE  x > a <=> x > Top(t).pos /\ x # a
    <3>1. x \in Nat
      BY <1>3, Addresses DEF RInv
    <3>2. x > Top(t).pos => a <= x
      BY <1>1 DEF IsNext, Rest, b
    <3> QED BY <1>3, <1>4, <3>1, <3>2
  <2>4. todoBar'[b] = todoBar[b] \ {a}
    BY <1>10, <1>11, <2>1, <2>2, <2>3
  <2>5. a \in todoBar[b]
    BY <1>4, <1>10, <2>1
  <2> QED BY <1>12, <2>4, <2>5, BarsExcept
<1>16. atBar[b] = {}
  BY <1>3, <1>10, <1>13, AloneSeen
<1>17. Atomic!Turn(b, m, a)
  BY <1>2, <1>14, <1>15, <1>16 DEF Atomic!Turn, Atomic!settings
<1>18. CASE pc = "iterate"
  <2>1. \A c \in Backends : waitingBar'[c] = waitingBar[c]
    BY <1>8, <1>9, <1>18, WaitingKept
  <2>2. atBar'[b] = {}
    BY <1>3, <1>8, <1>11, <1>13, <1>18, AloneSeenAfter
  <2>3. waitingBar' = waitingBar /\ atBar' = atBar
    BY <1>12, <1>16, <2>1, <2>2, BarsExtensional
  <2>4. Atomic!Filter(b, m, a)
    BY <1>6, <1>8, <1>17, <1>18, <2>3 DEF Atomic!Filter
  <2>5. Atomic!Next
    BY <1>3, <1>14, <1>15, <2>4 DEF Atomic!Next
  <2> QED BY <1>7, <2>5 DEF AtomicStep
<1>19. CASE pc = "doLog"
  <2>1. atBar' = [atBar EXCEPT ![b] = {a}]
    <3>1. atBar'[b] = {x \in Appenders : Visits(stack'[t], b, x)}
      BY <1>3, <1>8, <1>13, AloneSeenAfter
    <3>2. atBar'[b] = {a}
      BY <1>4, <1>11, <1>19, <3>1
    <3> QED BY <1>12, <3>2, BarsExcept
  <2>2. ASSUME a \in Forwards
        PROVE  waitingBar' = [waitingBar EXCEPT
                                 ![Target[a]] = waitingBar[Target[a]] \cup {m}]
    <3>1. Target[a] \in Backends
      BY <2>2, BackendAssumption
    <3>2. waitingBar'[Target[a]] = waitingBar[Target[a]] \cup {m}
      BY <1>8, <1>9, <1>19, <2>2, <3>1, WaitingBegins
    <3>3. \A c \in Backends : c # Target[a] => waitingBar'[c] = waitingBar[c]
      BY <1>8, <1>9, <1>19, <2>2, WaitingKept
    <3> QED BY <3>2, <3>3, BarsExcept
  <2>3. ASSUME a \notin Forwards PROVE waitingBar' = waitingBar
    <3>1. \A c \in Backends : waitingBar'[c] = waitingBar[c]
      BY <1>8, <1>9, <2>3, WaitingKept
    <3> QED BY <3>1, BarsExtensional
  <2>4. Atomic!Admit(b, m, a)
    BY <1>6, <1>8, <1>17, <1>19, <2>1, <2>2, <2>3 DEF Atomic!Admit
  <2>5. Atomic!Next
    BY <1>3, <1>14, <1>15, <2>4 DEF Atomic!Next
  <2> QED BY <1>7, <2>5 DEF AtomicStep
<1> QED
  BY <1>6, <1>18, <1>19
LEMMA SinkTop ==
    ASSUME IInv, RInv, NEW t \in Threads, SinkDoLog(t)
    PROVE  TopStep(t, "iterate", Top(t).pos)
<1>1. /\ stack[t] # <<>> /\ Top(t).pos \in Sinks
      /\ stack' = [stack EXCEPT ![t] = WithTop(t, "iterate", Top(t).pos)]
  BY DEF SinkDoLog, Running
<1>2. "iterate" \in Phases /\ Top(t).pos \in Nat
  BY <1>1, BackendAssumption DEF Phases
<1>3. TopBecomes(t, "iterate", Top(t).pos)
  BY <1>1, <1>2, TopChange DEF IInv
<1> QED
  BY <1>1, <1>3, TopSteps

LEMMA SinkDoLogRefines ==
    ASSUME IInv, RInv, NEW t \in Threads, SinkDoLog(t)
    PROVE  RInv' /\ AtomicStep
<1> DEFINE b == Top(t).backend
           m == Message(stack[t])
           s == Top(t).pos
<1>1. /\ stack[t] # <<>> /\ Top(t).pc = "doLog" /\ s \in Sinks
      /\ UNCHANGED <<appenders, priority, threshold, constructed, calls>>
      /\ out' = [out EXCEPT ![s] = Append(@, Top(t).msg)]
      /\ stack' = [stack EXCEPT ![t] = WithTop(t, "iterate", s)]
  BY DEF SinkDoLog, Running
<1>2. TopStep(t, "iterate", s)
  BY SinkTop
<1> HIDE DEF b, m, s
<1>3. RInv'
  BY <1>1, <1>2, TopKeepsRInv
<1>4. /\ b \in Backends /\ m = Top(t).msg /\ Message(stack'[t]) = m
      /\ OnlyStackOf(t)
      /\ stack'[t][Len(stack'[t])].backend = b
      /\ stack'[t][Len(stack'[t])].pc = "iterate"
      /\ stack'[t][Len(stack'[t])].pos = s
      /\ stack[t][Len(stack[t])] = Top(t) /\ stack'[t] # <<>>
      /\ TopView(stack[t], Top(t))
      /\ TopView(stack'[t], stack'[t][Len(stack'[t])])
      /\ \A c : c # b => SameView(stack[t], stack'[t], c)
  BY <1>2 DEF TopStep, TopSet, Top, b, m
<1>5. \A c : ~ WaitsFor(stack[t], c) /\ ~ WaitsFor(stack'[t], c)
  BY <1>1, <1>4, BackendAssumption DEF WaitsFor, s
<1>6. /\ Serves(stack[t], b)
      /\ \A x : IsBefore(stack[t], b, x) <=> x > s
      /\ \A x : Visits(stack[t], b, x) <=> x = s
  BY <1>1, <1>4 DEF TopView, Walking, b, s
<1>7. /\ Serves(stack'[t], b)
      /\ \A x : IsBefore(stack'[t], b, x) <=> x > s
      /\ \A x : ~ Visits(stack'[t], b, x)
  BY <1>4 DEF TopView, Walking
<1>8. \A c \in Backends : c # b => /\ currentBar'[c] = currentBar[c]
                                   /\ todoBar'[c] = todoBar[c]
                                   /\ atBar'[c] = atBar[c]
  BY <1>1, <1>4, BarsKept DEF m
<1>9. AloneWith(t, b)
  BY <1>1, <1>4, TopAlone DEF b
<1>10. currentBar[b] = {m} /\ currentBar' = currentBar
  <2>1. currentBar[b] = {m}
    BY <1>4, <1>6, <1>9, AloneSeen DEF ServeOwn, m
  <2>2. currentBar'[b] = {m}
    BY <1>4, <1>7, <1>9, AloneSeenAfter DEF ServeOwn
  <2> QED BY <1>8, <2>1, <2>2, BarsExtensional
<1>11. todoBar' = todoBar
  <2>1. todoBar[b] = {x \in appenders[b] : IsBefore(stack[t], b, x)}
    BY <1>4, <1>9, AloneSeen
  <2>2. todoBar'[b] = {x \in appenders[b] : IsBefore(stack'[t], b, x)}
    BY <1>1, <1>4, <1>9, AloneSeenAfter
  <2>3. todoBar'[b] = todoBar[b]
    BY <1>6, <1>7, <2>1, <2>2
  <2> QED BY <1>8, <2>3, BarsExtensional
<1>12. s \in atBar[b]
  <2>1. atBar[b] = {x \in Appenders : Visits(stack[t], b, x)}
    BY <1>4, <1>9, AloneSeen
  <2> QED BY <1>1, <1>6, <2>1 DEF Appenders
<1>13. atBar' = [atBar EXCEPT ![b] = {}]
  <2>1. atBar'[b] = {}
    BY <1>4, <1>7, <1>9, AloneSeenAfter
  <2> QED BY <1>8, <2>1, BarsExcept
<1>14. waitingBar' = waitingBar
  <2>1. \A c \in Backends : waitingBar'[c] = waitingBar[c]
    BY <1>4, <1>5, WaitingKept
  <2> QED BY <2>1, BarsExtensional
<1>15. Atomic!Output(b, m, s)
  BY <1>1, <1>4, <1>10, <1>11, <1>12, <1>13, <1>14
     DEF Atomic!Output, Atomic!settings
<1>16. Atomic!Next
  BY <1>4, <1>10, <1>12, <1>15 DEF Atomic!Next
<1> QED
  BY <1>3, <1>16 DEF AtomicStep

(* s is r with the call of the backend that its innermost frame forwards   *)
(* to pushed on it.                                                        *)
Pushed(r, s) ==
    LET n == Len(r)
    IN  /\ r # <<>> /\ s # <<>>
        /\ Len(s) = n + 1 /\ DOMAIN s = 1 .. n + 1
        /\ \A i \in DOMAIN r : i # n => s[i] = r[i]
        /\ s[n].backend = r[n].backend
        /\ s[n].msg = r[n].msg
        /\ s[n].pos = r[n].pos
        /\ s[n].pc = "await" /\ r[n].pc = "doLog"
        /\ r[n].pos \in Forwards
        /\ s[n + 1].backend = Target[r[n].pos]
        /\ s[n + 1].msg = r[n].msg
        /\ s[n + 1].pc = "lock"

LEMMA LinkedPushed ==
    ASSUME NEW t, NEW r, NEW s, Proper(r), Linked(t, r), Pushed(r, s)
    PROVE  Linked(t, s) /\ Message(s) = Message(r)
<1> DEFINE n == Len(r)
<1>1. /\ n \in Nat /\ n >= 1 /\ DOMAIN r = 1 .. n /\ DOMAIN s = 1 .. n + 1
      /\ Len(s) = n + 1
      /\ \A i \in 1 .. n : /\ s[i].backend = r[i].backend
                           /\ s[i].msg = r[i].msg
                           /\ s[i].pos = r[i].pos
                           /\ i # n => s[i] = r[i]
  <2>1. n \in Nat /\ n >= 1 /\ DOMAIN r = 1 .. n
    BY DEF Proper, Pushed
  <2>2. /\ DOMAIN s = 1 .. n + 1 /\ Len(s) = n + 1
        /\ \A i \in DOMAIN r : i # n => s[i] = r[i]
        /\ s[n].backend = r[n].backend /\ s[n].msg = r[n].msg
        /\ s[n].pos = r[n].pos
    BY DEF Pushed
  <2> HIDE DEF n
  <2> QED BY <2>1, <2>2
<1>2. /\ s[n].pc = "await" /\ r[n].pc = "doLog" /\ r[n].pos \in Forwards
      /\ s[n + 1].backend = Target[r[n].pos] /\ s[n + 1].msg = r[n].msg
      /\ s[n + 1].pc = "lock"
  BY DEF Pushed
<1> HIDE DEF n
<1>3. \A i \in 1 .. n + 1 : i = n + 1 \/ i \in 1 .. n
  BY <1>1
<1>4. OneMessage(t, s) /\ Message(s) = Message(r)
  BY <1>1, <1>2, <1>3 DEF Linked, OneMessage, Message
<1>5. AtWired(s)
  BY <1>1, <1>2, <1>3 DEF Linked, AtWired
<1>6. Forwarded(s)
  <2> SUFFICES ASSUME NEW i \in 1 .. n
               PROVE  s[i].pos \in Forwards
                      /\ s[i + 1].backend = Target[s[i].pos]
    BY <1>1, <1>3 DEF Forwarded
  <2>1. CASE i = n
    BY <1>1, <1>2, <2>1
  <2>2. CASE i # n
    <3>1. i + 1 \in 1 .. n
      BY <1>1, <2>2
    <3> QED BY <1>1, <2>2, <3>1 DEF Linked, Forwarded, n
  <2> QED BY <2>1, <2>2
<1>7. Ranked(s)
  <2>1. /\ r[n].backend \in Backends
        /\ Rank[r[n].backend] < Rank[s[n + 1].backend]
    <3>1. n \in 1 .. n
      BY <1>1
    <3>2. r[n].backend \in Backends
      BY <1>1, <3>1 DEF Proper, Frames
    <3>3. r[n].pos \in Wiring[r[n].backend] \cap Forwards
      BY <1>1, <1>2, <3>1 DEF Linked, AtWired
    <3> QED BY <1>2, <3>2, <3>3, AcyclicAssumption
  <2>2. ASSUME NEW i \in 1 .. n
        PROVE  Rank[s[i].backend] < Rank[s[n + 1].backend]
    <3>1. CASE i = n
      BY <1>1, <2>1, <3>1
    <3>2. CASE i # n
      <4>1. i < n /\ n \in 1 .. n
        BY <1>1, <3>2
      <4>2. Rank[r[i].backend] < Rank[r[n].backend]
        BY <1>1, <4>1 DEF Linked, Ranked
      <4>3. r[i].backend \in Backends /\ Target[r[n].pos] \in Backends
        BY <1>1, <1>2, BackendAssumption DEF Proper, Frames
      <4>4. /\ Rank[r[i].backend] \in Nat /\ Rank[r[n].backend] \in Nat
            /\ Rank[s[n + 1].backend] \in Nat
        BY <1>2, <2>1, <4>3, AcyclicAssumption
      <4> QED BY <1>1, <2>1, <4>2, <4>4
    <3> QED BY <3>1, <3>2
  <2> SUFFICES ASSUME NEW i \in 1 .. n + 1, NEW j \in 1 .. n + 1, i < j
               PROVE  Rank[s[i].backend] < Rank[s[j].backend]
    BY <1>1 DEF Ranked
  <2>3. i \in 1 .. n
    BY <1>1
  <2>4. CASE j = n + 1
    BY <2>2, <2>3, <2>4
  <2>5. CASE j \in 1 .. n
    BY <1>1, <2>3, <2>5 DEF Linked, Ranked
  <2> QED BY <1>3, <2>4, <2>5
<1> QED
  BY <1>4, <1>5, <1>6, <1>7 DEF Linked

LEMMA PushedSeen ==
    ASSUME NEW r, NEW s, Proper(r), Pushed(r, s)
    PROVE  \A c : SameView(r, s, c) /\ (WaitsFor(s, c) <=> WaitsFor(r, c))
<1> DEFINE n == Len(r)
<1>1. /\ n \in Nat /\ n >= 1 /\ DOMAIN r = 1 .. n /\ DOMAIN s = 1 .. n + 1
      /\ \A i \in 1 .. n : /\ s[i].backend = r[i].backend
                           /\ s[i].pos = r[i].pos
                           /\ i # n => s[i] = r[i]
      /\ s[n].pc = "await" /\ r[n].pc = "doLog"
      /\ s[n + 1].pc = "lock"
  <2>1. n \in Nat /\ n >= 1 /\ DOMAIN r = 1 .. n
    BY DEF Proper, Pushed
  <2>2. /\ DOMAIN s = 1 .. n + 1
        /\ \A i \in DOMAIN r : i # n => s[i] = r[i]
        /\ s[n].backend = r[n].backend /\ s[n].pos = r[n].pos
        /\ s[n].pc = "await" /\ r[n].pc = "doLog" /\ s[n + 1].pc = "lock"
    BY DEF Pushed
  <2> HIDE DEF n
  <2> QED BY <2>1, <2>2
<1>2. \A c : WaitsFor(s, c) <=> WaitsFor(r, c)
  BY <1>1 DEF Pushed, WaitsFor
<1> HIDE DEF n
<1>3. \A i \in 1 .. n + 1 : i = n + 1 \/ i \in 1 .. n
  BY <1>1
<1>4. \A i \in 1 .. n : i \in 1 .. n + 1
  BY <1>1
<1>5. \A i \in 1 .. n :
         /\ Walking(s[i]) <=> Walking(r[i])
         /\ s[i].pc \in {"doLog", "await"} <=> r[i].pc \in {"doLog", "await"}
  BY <1>1 DEF Walking
<1>6. ~ Walking(s[n + 1]) /\ s[n + 1].pc \notin {"doLog", "await"}
  BY <1>1 DEF Walking
<1>7. \A c : Serves(s, c) <=> Serves(r, c)
  BY <1>1, <1>3, <1>4, <1>5, <1>6 DEF Serves
<1>8. \A c, a : IsBefore(s, c, a) <=> IsBefore(r, c, a)
  BY <1>1, <1>3, <1>4, <1>5, <1>6 DEF IsBefore
<1>9. \A c, a : Visits(s, c, a) <=> Visits(r, c, a)
  BY <1>1, <1>3, <1>4, <1>5, <1>6 DEF Visits
<1> QED
  BY <1>2, <1>7, <1>8, <1>9 DEF SameView
LEMMA AppendedShape ==
    ASSUME NEW r \in Seq(Frames), NEW e \in Frames
    PROVE  /\ Append(r, e) \in Seq(Frames)
           /\ Len(Append(r, e)) = Len(r) + 1
           /\ DOMAIN Append(r, e) = 1 .. Len(r) + 1
           /\ Append(r, e)[Len(r) + 1] = e
           /\ \A i \in 1 .. Len(r) : Append(r, e)[i] = r[i]
OBVIOUS

LEMMA ForwardPushes ==
    ASSUME IInv, NEW t \in Threads, ForwardDoLog(t)
    PROVE  Pushed(stack[t], stack'[t]) /\ OnlyStackOf(t)
<1> DEFINE n == Len(stack[t])
           f == Top(t)
           s0 == WithTop(t, "await", f.pos)
           new == NewFrame(Target[f.pos], f.msg)
           s == Append(s0, new)
<1>1. /\ TypeOK /\ stack[t] # <<>> /\ f.pc = "doLog" /\ f.pos \in Forwards
      /\ stack' = [stack EXCEPT ![t] = s]
  BY DEF IInv, ForwardDoLog, Running
<1>2. /\ n \in Nat /\ n \in 1 .. n /\ DOMAIN stack[t] = 1 .. n
      /\ f \in Frames /\ f.pos \in Nat /\ stack[t][n] = f
  BY <1>1, StackType DEF Frames, Top
<1>3. /\ new \in Frames /\ new.pc = "lock" /\ new.msg = f.msg
      /\ new.backend = Target[f.pos]
  BY <1>1, <1>2, BackendAssumption DEF NewFrame, Frames, Phases
<1>4. /\ s0 \in Seq(Frames) /\ Len(s0) = n
      /\ \A i \in 1 .. n : s0[i] =
             IF i = n THEN [stack[t][i] EXCEPT !.pc = "await", !.pos = f.pos]
                      ELSE stack[t][i]
  <2>1. "await" \in Phases
    BY DEF Phases
  <2> HIDE DEF f
  <2> QED BY <1>1, <1>2, <2>1, WithTopShape
<1> HIDE DEF s0, new, f, n
<1>5. /\ s0[n].backend = f.backend /\ s0[n].msg = f.msg /\ s0[n].pc = "await"
      /\ s0[n].pos = f.pos
      /\ \A i \in 1 .. n : i # n => s0[i] = stack[t][i]
  BY <1>2, <1>4 DEF Frames
<1>6. /\ s \in Seq(Frames) /\ Len(s) = n + 1 /\ DOMAIN s = 1 .. n + 1
      /\ s[n + 1] = new /\ s # <<>>
      /\ \A i \in 1 .. n : s[i] = s0[i]
  <2>1. /\ s \in Seq(Frames) /\ Len(s) = n + 1 /\ DOMAIN s = 1 .. n + 1
        /\ s[n + 1] = new
        /\ \A i \in 1 .. n : s[i] = s0[i]
    BY <1>2, <1>3, <1>4, AppendedShape
  <2> HIDE DEF s
  <2>2. s # <<>>
    BY <1>2, <2>1
  <2> QED BY <2>1, <2>2
<1> HIDE DEF s
<1>7. /\ stack'[t] = s
      /\ \A u \in Threads \ {t} : stack'[u] = stack[u]
  BY <1>1, <1>6, StackUpdate
<1>8. Pushed(stack[t], s)
  BY <1>1, <1>2, <1>3, <1>5, <1>6 DEF Pushed, n
<1> QED
  BY <1>7, <1>8 DEF OnlyStackOf

LEMMA ForwardDoLogRefines ==
    ASSUME IInv, RInv, NEW t \in Threads, ForwardDoLog(t)
    PROVE  RInv' /\ AtomicStep
<1>1. /\ TypeOK
      /\ UNCHANGED <<appenders, priority, threshold, constructed, out, calls>>
  BY DEF IInv, ForwardDoLog
<1>2. Pushed(stack[t], stack'[t]) /\ OnlyStackOf(t)
  BY ForwardPushes
<1>3. Proper(stack[t]) /\ Linked(t, stack[t])
  BY <1>1, ProperStacks DEF RInv
<1>4. Linked(t, stack'[t]) /\ Message(stack'[t]) = Message(stack[t])
  BY <1>2, <1>3, LinkedPushed
<1>5. RInv'
  <2>1. \A u \in Threads : Linked(u, stack'[u])
    BY <1>2, <1>4 DEF RInv, OnlyStackOf
  <2>2. Attached'
    BY <1>1 DEF RInv, Attached
  <2>3. ASSUME NEW u \in Threads, NEW i \in DOMAIN stack'[u],
               stack'[u][i].pc = "skip"
        PROVE  stack'[u][i].msg.priority > priority[stack'[u][i].backend]
    <3>1. stack'[u][i] = stack[u][i] /\ i \in DOMAIN stack[u]
      <4>1. CASE u # t
        BY <1>2, <4>1 DEF OnlyStackOf
      <4>2. CASE u = t
        <5>1. i \in 1 .. Len(stack[t]) + 1 /\ DOMAIN stack[t] = 1 .. Len(stack[t])
              /\ Len(stack[t]) \in Nat
          BY <1>2, <1>3, <4>2 DEF Pushed, Proper
        <5>2. i # Len(stack[t]) /\ i # Len(stack[t]) + 1
          BY <1>2, <2>3, <4>2 DEF Pushed
        <5>3. i \in DOMAIN stack[t]
          BY <5>1, <5>2
        <5> QED BY <1>2, <4>2, <5>2, <5>3 DEF Pushed
      <4> QED BY <4>1, <4>2
    <3> QED BY <2>3, <3>1 DEF RInv, RejectionStable
  <2>4. RejectionStable'
    BY <1>1, <2>3 DEF RejectionStable
  <2> QED BY <2>1, <2>2, <2>4 DEF RInv
<1>6. \A c : SameView(stack[t], stack'[t], c)
             /\ (WaitsFor(stack'[t], c) <=> WaitsFor(stack[t], c))
  BY <1>2, <1>3, PushedSeen
<1>7. UNCHANGED <<waitingBar, currentBar, todoBar, atBar>>
  <2>1. \A c \in Backends : waitingBar'[c] = waitingBar[c]
    BY <1>2, <1>4, <1>6, WaitingKept
  <2>2. \A c \in Backends : /\ currentBar'[c] = currentBar[c]
                            /\ todoBar'[c] = todoBar[c]
                            /\ atBar'[c] = atBar[c]
    BY <1>1, <1>2, <1>4, <1>6, BarsKept
  <2> QED BY <2>1, <2>2, BarsExtensional
<1>8. UNCHANGED Atomic!vars
  BY <1>1, <1>7 DEF Atomic!vars, Atomic!settings, Atomic!service
<1> QED
  BY <1>5, <1>8 DEF AtomicStep
(* s is r without its innermost frame; the caller, if any, goes on. *)
PoppedTo(r, s) ==
    LET n == Len(r)
    IN  /\ r # <<>>
        /\ Len(s) = n - 1 /\ DOMAIN s = 1 .. n - 1
        /\ s # <<>> => n - 1 \in DOMAIN s
        /\ \A i \in 1 .. n - 1 :
              /\ s[i].backend = r[i].backend
              /\ s[i].msg = r[i].msg
              /\ s[i].pos = r[i].pos
              /\ s[i].pc = IF i = n - 1 THEN "iterate" ELSE "await"
              /\ r[i].pc = "await"

LEMMA FinishPops ==
    ASSUME IInv, NEW t \in Threads, Finish(t)
    PROVE  PoppedTo(stack[t], stack'[t]) /\ OnlyStackOf(t)
<1> DEFINE n == Len(stack[t])
           s == Popped(t)
<1>1. /\ TypeOK /\ stack[t] # <<>>
      /\ stack' = [stack EXCEPT ![t] = s]
  BY DEF IInv, Finish
<1>2. /\ n \in Nat /\ n >= 1 /\ DOMAIN stack[t] = 1 .. n
      /\ \A i \in 1 .. n : stack[t][i] \in Frames
  BY <1>1, StackType
<1>3. /\ s \in Seq(Frames) /\ Len(s) = n - 1
      /\ \A i \in 1 .. n - 1 :
            s[i] = IF i = n - 1 THEN [stack[t][i] EXCEPT !.pc = "iterate"]
                                ELSE stack[t][i]
  BY <1>1, PoppedShape
<1> HIDE DEF s
<1>4. stack'[t] = s /\ OnlyStackOf(t)
  BY <1>1, <1>3, StackUpdate DEF OnlyStackOf
<1>5. \A i \in 1 .. n - 1 : stack[t][i].pc = "await" /\ stack[t][i] \in Frames
  <2> SUFFICES ASSUME NEW i \in 1 .. n - 1
               PROVE  stack[t][i].pc = "await" /\ stack[t][i] \in Frames
    OBVIOUS
  <2>1. i \in 1 .. n /\ i # n
    BY <1>2
  <2> QED BY <1>2, <2>1 DEF IInv, CallChain
<1> HIDE DEF n
<1>6. /\ DOMAIN s = 1 .. n - 1
      /\ s # <<>> => n - 1 \in DOMAIN s
  BY <1>2, <1>3
<1>7. ASSUME NEW i \in 1 .. n - 1
      PROVE  /\ s[i].backend = stack[t][i].backend
             /\ s[i].msg = stack[t][i].msg
             /\ s[i].pos = stack[t][i].pos
             /\ s[i].pc = IF i = n - 1 THEN "iterate" ELSE "await"
  BY <1>3, <1>5 DEF Frames
<1>8. PoppedTo(stack[t], s)
  BY <1>1, <1>3, <1>5, <1>6, <1>7 DEF PoppedTo, n
<1> QED
  BY <1>4, <1>8

LEMMA LinkedPopped ==
    ASSUME NEW t, NEW r, NEW s, Proper(r), Linked(t, r), PoppedTo(r, s)
    PROVE  Linked(t, s) /\ (s # <<>> => Message(s) = Message(r))
<1> DEFINE n == Len(r)
<1>1. /\ n \in Nat /\ n >= 1 /\ DOMAIN r = 1 .. n
  <2>1. r # <<>>
    BY DEF PoppedTo
  <2> QED BY <2>1 DEF Proper
<1>2. /\ DOMAIN s = 1 .. n - 1 /\ Len(s) = n - 1
      /\ s # <<>> => n - 1 \in 1 .. n - 1
      /\ \A i \in 1 .. n - 1 :
            /\ s[i].backend = r[i].backend
            /\ s[i].msg = r[i].msg
            /\ s[i].pos = r[i].pos
            /\ r[i].pc = "await"
  BY DEF PoppedTo
<1> HIDE DEF n
<1>3. \A i \in 1 .. n - 1 : i \in 1 .. n
  BY <1>1
<1>4. OneMessage(t, s) /\ (s # <<>> => Message(s) = Message(r))
  <2>1. \A i \in 1 .. n - 1 : 1 \in 1 .. n - 1
    BY <1>1
  <2> QED BY <1>1, <1>2, <1>3, <2>1 DEF Linked, OneMessage, Message
<1>5. AtWired(s)
  BY <1>1, <1>2, <1>3 DEF Linked, AtWired
<1>6. Forwarded(s)
  <2> SUFFICES ASSUME NEW i \in 1 .. n - 1, i # n - 1
               PROVE  s[i].pos \in Forwards
                      /\ s[i + 1].backend = Target[s[i].pos]
    BY <1>2 DEF Forwarded
  <2>1. i + 1 \in 1 .. n - 1 /\ i # n
    BY <1>1
  <2> QED BY <1>1, <1>2, <1>3, <2>1 DEF Linked, Forwarded, n
<1>7. Ranked(s)
  BY <1>1, <1>2, <1>3 DEF Linked, Ranked
<1> QED
  BY <1>4, <1>5, <1>6, <1>7 DEF Linked

(* c called the backend of r's innermost frame. *)
Caller(r, c) == Len(r) - 1 \in DOMAIN r /\ r[Len(r) - 1].backend = c

LEMMA PoppedSeen ==
    ASSUME NEW r, NEW s, Proper(r), Ranked(r), PoppedTo(r, s),
           NEW b, b = r[Len(r)].backend
    PROVE  /\ Unseen(s, b)
           /\ \A c : ~ WaitsFor(s, c)
           /\ \A c : c # b =>
                 /\ Serves(s, c) <=> Serves(r, c)
                 /\ \A a : IsBefore(s, c, a) <=> IsBefore(r, c, a)
                 /\ \A a : Visits(s, c, a) <=> Visits(r, c, a) /\ ~ Caller(r, c)
<1> DEFINE n == Len(r)
<1>1. /\ n \in Nat /\ n >= 1 /\ DOMAIN r = 1 .. n
      /\ \A i \in 1 .. n : r[i].backend \in Backends
  <2>1. r # <<>>
    BY DEF PoppedTo
  <2>2. n \in Nat /\ n >= 1 /\ DOMAIN r = 1 .. n
    BY <2>1 DEF Proper
  <2>3. ASSUME NEW i \in 1 .. n
        PROVE  r[i].backend \in Backends
    BY <2>2 DEF Proper, Frames
  <2> QED BY <2>2, <2>3
<1>2. /\ DOMAIN s = 1 .. n - 1 /\ Len(s) = n - 1
      /\ s # <<>> => n - 1 \in 1 .. n - 1
      /\ \A i \in 1 .. n - 1 :
            /\ s[i].backend = r[i].backend
            /\ s[i].pos = r[i].pos
            /\ r[i].pc = "await"
            /\ s[i].pc = IF i = n - 1 THEN "iterate" ELSE "await"
  BY DEF PoppedTo
<1>3. \A c : ~ WaitsFor(s, c)
  BY <1>2 DEF WaitsFor
<1>4. \A i \in 1 .. n : r[i].backend = b => i = n
  BY <1>1, TopUnique DEF PoppedTo
<1> HIDE DEF n
<1>5. \A i \in 1 .. n - 1 : i \in 1 .. n /\ i # n
  BY <1>1
<1>6. \A i \in 1 .. n : i # n => i \in 1 .. n - 1
  BY <1>1
<1>7. \A i \in 1 .. n - 1 : Walking(s[i]) /\ Walking(r[i])
  BY <1>2 DEF Walking
<1>8. Unseen(s, b)
  BY <1>2, <1>4, <1>5 DEF Unseen, Serves, IsBefore, Visits
<1>9. \A c : c # b => /\ Serves(s, c) <=> Serves(r, c)
                      /\ \A a : IsBefore(s, c, a) <=> IsBefore(r, c, a)
  <2>1. r[n].backend = b
    BY DEF n
  <2> QED BY <1>1, <1>2, <1>5, <1>6, <1>7, <2>1 DEF Serves, IsBefore
<1>10. ASSUME NEW c, c # b, NEW a
       PROVE  Visits(s, c, a) <=> Visits(r, c, a) /\ ~ Caller(r, c)
  <2>1. r[n].backend = b
    BY DEF n
  <2>2. Caller(r, c) <=> n - 1 \in 1 .. n - 1 /\ r[n - 1].backend = c
    <3>1. n - 1 \in 1 .. n <=> n - 1 \in 1 .. n - 1
      BY <1>1
    <3> QED BY <1>1, <3>1 DEF Caller, n
  <2>3. ASSUME NEW i \in 1 .. n - 1, i # n - 1
        PROVE  r[i].backend # r[n - 1].backend
    <3>1. i < n - 1 /\ n - 1 \in 1 .. n /\ i \in 1 .. n
      BY <1>1, <2>3
    <3>2. Rank[r[i].backend] < Rank[r[n - 1].backend]
      BY <1>1, <3>1 DEF Ranked
    <3>3. Rank[r[i].backend] \in Nat
      BY <1>1, <3>1, AcyclicAssumption
    <3> QED BY <3>2, <3>3
  <2>4. ASSUME Visits(s, c, a)
        PROVE  Visits(r, c, a) /\ ~ Caller(r, c)
    <3>1. PICK i \in 1 .. n - 1 : /\ s[i].backend = c
                                  /\ s[i].pc \in {"doLog", "await"}
                                  /\ s[i].pos = a
      BY <1>2, <2>4 DEF Visits
    <3>2. i # n - 1
      BY <1>2, <3>1
    <3>3. Visits(r, c, a)
      BY <1>1, <1>2, <1>5, <3>1 DEF Visits
    <3>4. ~ Caller(r, c)
      BY <1>2, <2>2, <2>3, <3>1, <3>2
    <3> QED BY <3>3, <3>4
  <2>5. ASSUME Visits(r, c, a), ~ Caller(r, c)
        PROVE  Visits(s, c, a)
    <3>1. PICK i \in 1 .. n : r[i].backend = c /\ r[i].pos = a
      BY <1>1, <2>5 DEF Visits
    <3>2. i \in 1 .. n - 1
      BY <1>6, <1>10, <2>1, <3>1
    <3>3. i # n - 1
      BY <2>2, <2>5, <3>1, <3>2
    <3> QED BY <1>2, <3>1, <3>2, <3>3 DEF Visits
  <2> QED BY <2>4, <2>5
<1> QED
  BY <1>3, <1>8, <1>9, <1>10
(* Besides b, which t's innermost doLog is of, only the caller of that     *)
(* doLog sees the return: it is no longer in the doLog of its forward.     *)
LEMMA CallerHandedBack ==
    ASSUME IInv, RInv, NEW t \in Threads, NEW c \in Backends,
           NEW b, NEW m, stack[t] # <<>>, b = Top(t).backend,
           m = Message(stack[t]), c # b
    PROVE  Caller(stack[t], c)
              <=> m \in currentBar[c]
                  /\ \E f \in atBar[c] \cap Forwards : Target[f] = b
<1> DEFINE n == Len(stack[t])
<1>1. /\ Proper(stack[t]) /\ Linked(t, stack[t])
      /\ stack[t][n] = Top(t) /\ n \in Nat /\ n \in 1 .. n
      /\ DOMAIN stack[t] = 1 .. n
  BY ProperStacks DEF IInv, RInv, Top, Proper
<1>2. \A i \in 1 .. n : i # n <=> stack[t][i].pc = "await"
  BY <1>1 DEF IInv, CallChain
<1> HIDE DEF n
<1>3. ASSUME NEW i \in 1 .. n, i # n, stack[t][i].backend = c
      PROVE  /\ AloneWith(t, c) /\ Serves(stack[t], c)
             /\ stack[t][i].pos \in Forwards
             /\ stack[t][i + 1].backend = Target[stack[t][i].pos]
             /\ Visits(stack[t], c, stack[t][i].pos)
  <2>1. stack[t][i].pc = "await"
    BY <1>2, <1>3
  <2>2. i \in Guarding(stack[t], c)
    BY <1>1, <1>3, <2>1 DEF Guarding
  <2>3. AloneWith(t, c)
    BY <2>2, GuardingAlone
  <2>4. Serves(stack[t], c) /\ Visits(stack[t], c, stack[t][i].pos)
    BY <1>1, <1>3, <2>1 DEF Serves, Visits, Walking
  <2>5. /\ stack[t][i].pos \in Forwards
        /\ stack[t][i + 1].backend = Target[stack[t][i].pos]
    BY <1>1, <1>3 DEF Linked, Forwarded, n
  <2> QED BY <2>3, <2>4, <2>5
<1>4. ASSUME Caller(stack[t], c)
      PROVE  m \in currentBar[c]
             /\ \E f \in atBar[c] \cap Forwards : Target[f] = b
  <2>1. n - 1 \in 1 .. n /\ n - 1 # n /\ stack[t][n - 1].backend = c
        /\ n - 1 + 1 = n
    BY <1>1, <1>4 DEF Caller, n
  <2> DEFINE f == stack[t][n - 1].pos
  <2>2. /\ AloneWith(t, c) /\ Serves(stack[t], c) /\ f \in Forwards
        /\ Target[f] = b /\ Visits(stack[t], c, f)
    BY <1>1, <1>3, <2>1
  <2> HIDE DEF f
  <2>3. currentBar[c] = {m}
    BY <2>2, AloneSeen DEF ServeOwn
  <2>4. atBar[c] = {x \in Appenders : Visits(stack[t], c, x)}
    BY <2>2, AloneSeen
  <2>5. f \in atBar[c]
    BY <2>2, <2>4 DEF Appenders
  <2> QED BY <2>2, <2>3, <2>5
<1>5. ASSUME m \in currentBar[c],
             NEW f \in atBar[c] \cap Forwards, Target[f] = b
      PROVE  Caller(stack[t], c)
  <2>1. Serves(stack[t], c)
    <3>1. currentBar[c] = ServeOthers(stack, t, c) \cup ServeOwn(stack[t], c)
      BY BarsAtThread
    <3>2. m \notin ServeOthers(stack, t, c)
      BY OtherMessages
    <3> QED BY <1>5, <3>1, <3>2 DEF ServeOwn
  <2>2. PICK i \in 1 .. n : stack[t][i].backend = c
    BY <1>1, <2>1 DEF Serves
  <2>3. AloneWith(t, c)
    BY <1>1, <1>3, <2>2
  <2>4. atBar[c] = {x \in Appenders : Visits(stack[t], c, x)}
    BY <2>3, AloneSeen
  <2>5. Visits(stack[t], c, f)
    BY <1>5, <2>4
  <2>6. PICK j \in 1 .. n : stack[t][j].backend = c /\ stack[t][j].pos = f
    BY <1>1, <2>5 DEF Visits
  <2>7. j # n /\ j + 1 \in 1 .. n
    BY <1>1, <2>6
  <2>8. stack[t][j + 1].backend = b
    BY <1>3, <1>5, <2>6, <2>7
  <2>9. j + 1 = n
    <3>1. stack[t][j + 1].backend = stack[t][Len(stack[t])].backend
      BY <1>1, <2>8 DEF n
    <3> QED BY <1>1, <2>7, <3>1, TopUnique DEF Linked, n
  <2>10. j = n - 1
    BY <1>1, <2>9
  <2> QED BY <1>1, <2>6, <2>10 DEF Caller, n
<1> QED
  BY <1>4, <1>5
LEMMA FinishKeepsRInv ==
    ASSUME IInv, RInv, NEW t \in Threads, Finish(t)
    PROVE  RInv'
<1>1. UNCHANGED <<appenders, priority>>
  BY DEF Finish
<1>2. PoppedTo(stack[t], stack'[t]) /\ OnlyStackOf(t)
  BY FinishPops
<1>3. Proper(stack[t]) /\ Linked(t, stack[t])
  BY ProperStacks DEF IInv, RInv
<1>4. \A u \in Threads : Linked(u, stack'[u])
  BY <1>2, <1>3, LinkedPopped DEF RInv, OnlyStackOf
<1>5. Attached'
  BY <1>1 DEF RInv, Attached
<1>6. ASSUME NEW u \in Threads, NEW i \in DOMAIN stack'[u],
             stack'[u][i].pc = "skip"
      PROVE  stack'[u][i].msg.priority > priority[stack'[u][i].backend]
  <2>1. u # t
    BY <1>2, <1>6 DEF PoppedTo
  <2>2. stack'[u] = stack[u]
    BY <1>2, <2>1 DEF OnlyStackOf
  <2> QED BY <1>6, <2>2 DEF RInv, RejectionStable
<1>7. RejectionStable'
  BY <1>1, <1>6 DEF RejectionStable
<1> QED
  BY <1>4, <1>5, <1>7 DEF RInv

LEMMA FinishRefines ==
    ASSUME IInv, RInv, NEW t \in Threads, Finish(t)
    PROVE  RInv' /\ AtomicStep
<1> DEFINE b == Top(t).backend
           m == Message(stack[t])
<1>1. /\ stack[t] # <<>>
      /\ \/ Top(t).pc = "skip"
         \/ Top(t).pc = "iterate" /\ Rest(Top(t)) = {}
      /\ UNCHANGED <<appenders, priority, threshold, constructed, out, calls>>
  BY DEF Finish
<1>2. PoppedTo(stack[t], stack'[t]) /\ OnlyStackOf(t)
  BY FinishPops
<1>3. /\ Proper(stack[t]) /\ Linked(t, stack[t]) /\ Ranked(stack[t])
      /\ stack[t][Len(stack[t])] = Top(t)
      /\ Len(stack[t]) \in DOMAIN stack[t]
      /\ b \in Backends /\ m = Top(t).msg
  <2>1. Proper(stack[t]) /\ Linked(t, stack[t])
    BY ProperStacks DEF IInv, RInv
  <2>2. stack[t][Len(stack[t])] = Top(t) /\ Len(stack[t]) \in DOMAIN stack[t]
    BY <1>1, <2>1 DEF Top, Proper
  <2> QED BY <2>1, <2>2 DEF Linked, OneMessage, Proper, Frames
<1>4. RInv'
  BY FinishKeepsRInv
<1>5. AloneWith(t, b)
  BY <1>1, <1>3, TopAlone
<1> HIDE DEF b, m
<1>6. TopView(stack[t], Top(t))
  BY <1>1, <1>3, TopIsSeen
<1>7. /\ Unseen(stack'[t], b)
      /\ \A c : ~ WaitsFor(stack'[t], c)
      /\ \A c : c # b =>
            /\ Serves(stack'[t], c) <=> Serves(stack[t], c)
            /\ \A a : IsBefore(stack'[t], c, a) <=> IsBefore(stack[t], c, a)
            /\ \A a : Visits(stack'[t], c, a)
                         <=> Visits(stack[t], c, a) /\ ~ Caller(stack[t], c)
  BY <1>2, <1>3, PoppedSeen DEF b
<1>8. \A c : c # b /\ Serves(stack[t], c)
                => Message(stack'[t]) = Message(stack[t])
  <2> SUFFICES ASSUME NEW c, c # b, Serves(stack[t], c)
               PROVE  stack'[t] # <<>>
    BY <1>2, <1>3, LinkedPopped
  <2>1. Serves(stack'[t], c)
    BY <1>7
  <2>2. stack'[t] = <<>> => DOMAIN stack'[t] = {}
    OBVIOUS
  <2> QED BY <2>1, <2>2 DEF Serves
<1>9. \A c \in Backends : c # b => /\ currentBar'[c] = currentBar[c]
                                   /\ todoBar'[c] = todoBar[c]
  BY <1>1, <1>2, <1>7, <1>8, CurrentKept, TodoKept
<1>10. /\ currentBar'[b] = {} /\ todoBar'[b] = {} /\ atBar'[b] = {}
       /\ atBar[b] = {}
  <2>1. currentBar'[b] = {}
    BY <1>2, <1>3, <1>5, <1>7, AloneSeenAfter DEF ServeOwn, Unseen
  <2>2. todoBar'[b] = {} /\ atBar'[b] = {}
    BY <1>2, <1>3, <1>5, <1>7, AloneSeenAfter DEF Unseen
  <2>3. \A a : ~ Visits(stack[t], b, a)
    BY <1>1, <1>6 DEF TopView, b
  <2>4. atBar[b] = {}
    BY <1>3, <1>5, <2>3, AloneSeen
  <2> QED BY <2>1, <2>2, <2>4
<1>11. atBar' = Atomic!HandedBack(b, m)
  <2>1. ASSUME NEW c \in Backends, c # b
        PROVE  atBar'[c] = IF Caller(stack[t], c) THEN {} ELSE atBar[c]
    <3>1. CASE Caller(stack[t], c)
      <4>1. \A a : ~ Visits(stack'[t], c, a)
        BY <1>7, <2>1, <3>1
      <4>2. PICK i \in DOMAIN stack[t] : i # Len(stack[t])
                                         /\ stack[t][i].backend = c
        BY <1>3, <3>1 DEF Caller, Proper
      <4>3. stack[t][i].pc = "await"
        BY <4>2 DEF IInv, CallChain
      <4>4. AloneWith(t, c)
        <5>1. Guarding(stack[t], c) # {}
          BY <4>2, <4>3 DEF Guarding
        <5> QED BY <5>1, GuardingAlone
      <4>5. atBar'[c] = {}
        BY <1>2, <4>1, <4>4, AloneSeenAfter
      <4> QED BY <3>1, <4>5
    <3>2. CASE ~ Caller(stack[t], c)
      BY <1>2, <1>7, <2>1, <3>2, AtKept
    <3> QED BY <3>1, <3>2
  <2>2. ASSUME NEW c \in Backends, c # b
        PROVE  Caller(stack[t], c)
                  <=> m \in currentBar[c]
                      /\ \E f \in atBar[c] \cap Forwards : Target[f] = b
    BY <1>1, <2>2, CallerHandedBack DEF b, m
  <2>3. \A c \in Backends : atBar'[c] =
           IF m \in currentBar[c]
              /\ \E f \in atBar[c] \cap Forwards : Target[f] = b
           THEN {} ELSE atBar[c]
    BY <1>10, <2>1, <2>2
  <2>4. atBar' = [c \in Backends |-> atBar'[c]]
    BY DEF atBar
  <2> QED BY <2>3, <2>4 DEF Atomic!HandedBack
<1>12. CASE Top(t).pc = "skip"
  <2>1. \A c : WaitsFor(stack[t], c) <=> c = b
    BY <1>1, <1>3, <1>12 DEF WaitsFor, b
  <2>2. m \in waitingBar[b]
    BY <1>3, <2>1, BarsAtThread DEF WaitOwn, m
  <2>3. waitingBar' = [waitingBar EXCEPT ![b] = waitingBar[b] \ {m}]
    <3>1. m \notin WaitOthers(stack, t, b)
      BY <1>1, OtherMessages DEF m
    <3>2. waitingBar'[b] = waitingBar[b] \ {m}
      BY <1>2, <1>3, <1>7, <2>1, <3>1, WaitingEnds DEF m
    <3>3. \A c \in Backends : c # b => waitingBar'[c] = waitingBar[c]
      BY <1>2, <1>7, <2>1, WaitingKept
    <3> QED BY <3>2, <3>3, BarsExcept
  <2>4. ~ Serves(stack[t], b) /\ \A a : ~ IsBefore(stack[t], b, a)
    BY <1>6, <1>12 DEF TopView, Walking, b
  <2>5. currentBar[b] = {} /\ todoBar[b] = {}
    BY <1>3, <1>5, <2>4, AloneSeen DEF ServeOwn
  <2>6. currentBar' = currentBar /\ todoBar' = todoBar
    BY <1>9, <1>10, <2>5, BarsExtensional
  <2>7. m.priority > priority[b]
    BY <1>3, <1>12 DEF RInv, RejectionStable, b
  <2>8. Atomic!Reject(b, m)
    BY <1>1, <1>11, <2>2, <2>3, <2>6, <2>7 DEF Atomic!Reject, Atomic!settings
  <2>9. Atomic!Next
    BY <1>3, <2>2, <2>8 DEF Atomic!Next
  <2> QED BY <1>4, <2>9 DEF AtomicStep
<1>13. CASE Top(t).pc = "iterate" /\ Rest(Top(t)) = {}
  <2>1. /\ \A c : ~ WaitsFor(stack[t], c)
        /\ Serves(stack[t], b)
        /\ \A a : IsBefore(stack[t], b, a) <=> a > Top(t).pos
    BY <1>1, <1>3, <1>6, <1>13 DEF WaitsFor, TopView, Walking, b
  <2>2. waitingBar' = waitingBar
    <3>1. \A c \in Backends : waitingBar'[c] = waitingBar[c]
      BY <1>2, <1>7, <2>1, WaitingKept
    <3> QED BY <3>1, BarsExtensional
  <2>3. currentBar[b] = {m}
    BY <1>3, <1>5, <2>1, AloneSeen DEF ServeOwn, m
  <2>4. currentBar' = [currentBar EXCEPT ![b] = {}]
    BY <1>9, <1>10, BarsExcept
  <2>5. todoBar[b] = {}
    <3>1. todoBar[b] = {a \in appenders[b] : IsBefore(stack[t], b, a)}
      BY <1>3, <1>5, AloneSeen
    <3>2. \A a \in appenders[b] : ~ (a > Top(t).pos)
      BY <1>13 DEF Rest, b
    <3> QED BY <2>1, <3>1, <3>2
  <2>6. todoBar' = todoBar
    BY <1>9, <1>10, <2>5, BarsExtensional
  <2>7. Atomic!Done(b, m)
    BY <1>1, <1>10, <1>11, <2>2, <2>3, <2>4, <2>5, <2>6
       DEF Atomic!Done, Atomic!settings
  <2>8. Atomic!Next
    BY <1>3, <2>3, <2>7 DEF Atomic!Next
  <2> QED BY <1>4, <2>8 DEF AtomicStep
<1> QED
  BY <1>1, <1>12, <1>13
LEMMA BeginLogRefines ==
    ASSUME IInv, RInv, NEW t \in Threads, NEW b \in Backends,
           NEW p \in Priorities, BeginLog(t, b, p)
    PROVE  RInv' /\ AtomicStep
<1> DEFINE msg == [id |-> calls + 1, thread |-> t, backend |-> b,
                   priority |-> p]
           s == <<NewFrame(b, msg)>>
<1>1. /\ TypeOK /\ stack[t] = <<>>
      /\ stack' = [stack EXCEPT ![t] = s]
      /\ calls' = calls + 1
      /\ UNCHANGED <<appenders, priority, threshold, constructed, out>>
  BY DEF IInv, BeginLog, MayUse, Idle
<1>2. msg.thread = t
  OBVIOUS
<1>3. NewFrame(b, msg) \in Frames
  BY <1>1 DEF NewFrame, Frames, Phases, Messages, TypeOK
<1>4. /\ NewFrame(b, msg).pc = "lock" /\ NewFrame(b, msg).backend = b
      /\ NewFrame(b, msg).msg = msg
  BY DEF NewFrame
<1>5. s \in Seq(Frames) /\ Len(s) = 1 /\ DOMAIN s = {1} /\ s # <<>>
      /\ s[1].pc = "lock" /\ s[1].backend = b /\ s[1].msg = msg
  <2> HIDE DEF msg
  <2> QED BY <1>3, <1>4
<1> HIDE DEF s
<1>6. stack'[t] = s /\ OnlyStackOf(t)
  BY <1>1, <1>5, StackUpdate DEF OnlyStackOf
<1>7. Linked(t, s) /\ Message(s) = msg
  BY <1>2, <1>5 DEF Linked, OneMessage, AtWired, Forwarded, Ranked, Message
<1>8. RInv'
  <2>1. \A u \in Threads : Linked(u, stack'[u])
    BY <1>6, <1>7 DEF RInv, OnlyStackOf
  <2>2. Attached'
    BY <1>1 DEF RInv, Attached
  <2>3. RejectionStable'
    BY <1>1, <1>5, <1>6 DEF RInv, RejectionStable, OnlyStackOf
  <2> QED BY <2>1, <2>2, <2>3 DEF RInv
<1>9. /\ \A c : ~ WaitsFor(stack[t], c) /\ Unseen(stack[t], c)
      /\ \A c : Unseen(stack'[t], c)
      /\ \A c : WaitsFor(stack'[t], c) <=> c = b
  <2>1. \A c : Guarding(stack[t], c) = {} /\ Guarding(stack'[t], c) = {}
    BY <1>1, <1>5, <1>6 DEF Guarding
  <2> QED BY <1>1, <1>5, <1>6, <2>1, UnguardedUnseen DEF WaitsFor
<1>10. ~ Atomic!InProgress(t)
  <2> SUFFICES ASSUME NEW c \in Backends,
                      NEW x \in waitingBar[c] \cup currentBar[c]
               PROVE  x.thread # t
    BY DEF Atomic!InProgress
  <2>1. WaitOwn(stack[t], c) = {} /\ ServeOwn(stack[t], c) = {}
    BY <1>9 DEF WaitOwn, ServeOwn, Unseen
  <2>2. x \in WaitOthers(stack, t, c) \cup ServeOthers(stack, t, c)
    BY <2>1, BarsAtThread
  <2>3. PICK u \in Threads \ {t} : /\ x = Message(stack[u])
                                   /\ WaitsFor(stack[u], c) \/ Serves(stack[u], c)
    BY <2>2 DEF WaitOthers, ServeOthers
  <2>4. Message(stack[u]).thread = u
    BY <2>3, Senders
  <2> QED BY <2>3, <2>4
<1>11. waitingBar' = [waitingBar EXCEPT ![b] = waitingBar[b] \cup {msg}]
  <2>1. waitingBar'[b] = waitingBar[b] \cup {msg}
    BY <1>6, <1>7, <1>9, WaitingBegins
  <2>2. \A c \in Backends : c # b => waitingBar'[c] = waitingBar[c]
    BY <1>6, <1>9, WaitingKept
  <2> QED BY <2>1, <2>2, BarsExcept
<1>12. UNCHANGED <<currentBar, todoBar, atBar>>
  <2>1. \A c \in Backends : SameView(stack[t], stack'[t], c)
                            /\ ~ Serves(stack[t], c)
    BY <1>9 DEF SameView, Unseen
  <2>2. \A c \in Backends : /\ currentBar'[c] = currentBar[c]
                            /\ todoBar'[c] = todoBar[c]
                            /\ atBar'[c] = atBar[c]
    BY <1>1, <1>6, <2>1, BarsKept
  <2> QED BY <2>2, BarsExtensional
<1>13. Atomic!Call(t, b, p)
  BY <1>1, <1>10, <1>11, <1>12 DEF Atomic!Call, Atomic!settings
<1>14. Atomic!Next
  BY <1>13 DEF Atomic!Next
<1> QED
  BY <1>8, <1>14 DEF AtomicStep

(* A thread that administers b, with its mutex, finds b serving nothing. *)
LEMMA AdminFindsFree ==
    ASSUME IInv, NEW t \in Threads, NEW b \in Backends, Idle(t), CanLock(t, b)
    PROVE  /\ currentBar[b] = {} /\ todoBar[b] = {}
           /\ stack' = stack => todoBar'[b] = {}
<1>1. \A u \in Threads : Unseen(stack[u], b)
  BY AdminAlone, UnguardedUnseen DEF IInv
<1>2. currentBar[b] = {}
  BY <1>1 DEF currentBar, Unseen
<1>3. todoBar[b] = {}
  BY <1>1 DEF todoBar, Unseen
<1>4. stack' = stack => todoBar'[b] = {}
  BY <1>1 DEF todoBar, Unseen
<1> QED
  BY <1>2, <1>3, <1>4

(* Nothing happens to any stack, and at most b's appenders change. *)
LEMMA ConfigureBars ==
    ASSUME NEW b, stack' = stack,
           \A c \in Backends \ {b} : appenders'[c] = appenders[c],
           b \in Backends => todoBar'[b] = todoBar[b]
    PROVE  UNCHANGED <<waitingBar, currentBar, todoBar, atBar>>
<1>1. UNCHANGED <<waitingBar, currentBar, atBar>>
  BY DEF waitingBar, currentBar, atBar
<1>2. \A c \in Backends : todoBar'[c] = todoBar[c]
  <2> SUFFICES ASSUME NEW c \in Backends, c # b
               PROVE  todoBar'[c] = todoBar[c]
    OBVIOUS
  <2> QED BY DEF todoBar
<1> QED
  BY <1>1, <1>2, BarsExtensional

LEMMA SetPriorityRefines ==
    ASSUME IInv, RInv, NEW t \in Threads, NEW b \in Backends,
           NEW p \in Priorities, SetPriority(t, b, p)
    PROVE  RInv' /\ AtomicStep
<1>1. /\ TypeOK /\ LockAccounting /\ Idle(t) /\ CanLock(t, b)
      /\ priority' = [priority EXCEPT ![b] = p]
      /\ UNCHANGED <<appenders, threshold, constructed, stack, out, calls>>
  BY DEF IInv, SetPriority, MayUse
<1>2. RInv'
  <2>1. \A u \in Threads : Linked(u, stack'[u])
    BY <1>1 DEF RInv
  <2>2. Attached'
    BY <1>1 DEF RInv, Attached
  <2>3. ASSUME NEW u \in Threads, NEW i \in DOMAIN stack[u],
               stack[u][i].pc = "skip"
        PROVE  stack[u][i].msg.priority > priority'[stack[u][i].backend]
    <3>1. stack[u][i].backend \in Backends
      BY <1>1, StackType DEF Frames
    <3>2. Guarding(stack[u], stack[u][i].backend) # {}
      BY <2>3 DEF Guarding
    <3>3. stack[u][i].backend # b
      BY <1>1, <3>2, AdminAlone
    <3>4. priority'[stack[u][i].backend] = priority[stack[u][i].backend]
      BY <1>1, <3>1, <3>3 DEF TypeOK
    <3> QED BY <2>3, <3>4 DEF RInv, RejectionStable
  <2>4. RejectionStable'
    BY <1>1, <2>3 DEF RejectionStable
  <2> QED BY <2>1, <2>2, <2>4 DEF RInv
<1>3. currentBar[b] = {} /\ todoBar[b] = {} /\ todoBar'[b] = {}
  BY <1>1, AdminFindsFree
<1>4. UNCHANGED <<waitingBar, currentBar, todoBar, atBar>>
  BY <1>1, <1>3, ConfigureBars
<1>5. Atomic!Configure(b)
  BY <1>1, <1>3, <1>4 DEF Atomic!Configure, Atomic!service
<1>6. Atomic!Next
  BY <1>5 DEF Atomic!Next
<1> QED
  BY <1>2, <1>6 DEF AtomicStep

LEMMA AddAppenderRefines ==
    ASSUME IInv, RInv, NEW t \in Threads, NEW b \in Backends,
           NEW a \in Appenders, AddAppender(t, b, a)
    PROVE  RInv' /\ AtomicStep
<1>1. /\ TypeOK /\ Idle(t) /\ CanLock(t, b)
      /\ a \in Wiring[b] \cap (Sinks \cup constructed)
      /\ appenders' = [appenders EXCEPT ![b] = @ \cup {a}]
      /\ UNCHANGED <<priority, threshold, constructed, stack, out, calls>>
  BY DEF IInv, AddAppender, MayUse
<1>2. RInv'
  <2>1. \A u \in Threads : Linked(u, stack'[u])
    BY <1>1 DEF RInv
  <2>2. Attached'
    BY <1>1 DEF RInv, Attached, TypeOK
  <2>3. RejectionStable'
    BY <1>1 DEF RInv, RejectionStable
  <2> QED BY <2>1, <2>2, <2>3 DEF RInv
<1>3. currentBar[b] = {} /\ todoBar[b] = {} /\ todoBar'[b] = {}
  BY <1>1, AdminFindsFree
<1>4. UNCHANGED <<waitingBar, currentBar, todoBar, atBar>>
  <2>1. \A c \in Backends \ {b} : appenders'[c] = appenders[c]
    BY <1>1 DEF TypeOK
  <2> QED BY <1>1, <1>3, <2>1, ConfigureBars
<1>5. Atomic!Configure(b)
  BY <1>1, <1>3, <1>4 DEF Atomic!Configure, Atomic!service
<1>6. Atomic!Next
  BY <1>5 DEF Atomic!Next
<1> QED
  BY <1>2, <1>6 DEF AtomicStep

LEMMA RemoveAppenderRefines ==
    ASSUME IInv, RInv, NEW t \in Threads, NEW b \in Backends,
           NEW a \in Appenders, RemoveAppender(t, b, a)
    PROVE  RInv' /\ AtomicStep
<1>1. /\ TypeOK /\ Idle(t) /\ CanLock(t, b)
      /\ appenders' = [appenders EXCEPT ![b] = @ \ {a}]
      /\ UNCHANGED <<priority, threshold, constructed, stack, out, calls>>
  BY DEF IInv, RemoveAppender, MayUse
<1>2. RInv'
  <2>1. \A u \in Threads : Linked(u, stack'[u])
    BY <1>1 DEF RInv
  <2>2. Attached'
    BY <1>1 DEF RInv, Attached, TypeOK
  <2>3. RejectionStable'
    BY <1>1 DEF RInv, RejectionStable
  <2> QED BY <2>1, <2>2, <2>3 DEF RInv
<1>3. currentBar[b] = {} /\ todoBar[b] = {} /\ todoBar'[b] = {}
  BY <1>1, AdminFindsFree
<1>4. UNCHANGED <<waitingBar, currentBar, todoBar, atBar>>
  <2>1. \A c \in Backends \ {b} : appenders'[c] = appenders[c]
    BY <1>1 DEF TypeOK
  <2> QED BY <1>1, <1>3, <2>1, ConfigureBars
<1>5. Atomic!Configure(b)
  BY <1>1, <1>3, <1>4, BarAppenders DEF Atomic!Configure, Atomic!service
<1>6. Atomic!Next
  BY <1>5 DEF Atomic!Next
<1> QED
  BY <1>2, <1>6 DEF AtomicStep

(* RInv and the bars do not speak of thresholds, forwards not attached,    *)
(* locks and counters.                                                     *)
LEMMA RestIsUnseen ==
    ASSUME RInv, UNCHANGED <<stack, appenders, priority>>
    PROVE  RInv' /\ UNCHANGED <<waitingBar, currentBar, todoBar, atBar>>
<1>1. RInv'
  BY DEF RInv, Attached, RejectionStable
<1> QED
  BY <1>1 DEF waitingBar, currentBar, todoBar, atBar

LEMMA UnlockedRefines ==
    ASSUME IInv, RInv, Unlocked
    PROVE  RInv' /\ AtomicStep
<1>1. /\ RInv' /\ UNCHANGED <<waitingBar, currentBar, todoBar, atBar>>
      /\ UNCHANGED <<appenders, priority, out, calls>>
  <2>1. UNCHANGED <<stack, appenders, priority, out, calls>>
    BY DEF Unlocked, SetThreshold, ConstructForward, ConstructForwardWith
  <2> QED BY <2>1, RestIsUnseen
<1>2. PICK a \in Appenders, p \in Priorities :
         /\ threshold' = [threshold EXCEPT ![a] = p]
         /\ \/ a \in Sinks \cup constructed /\ UNCHANGED constructed
            \/ a \in Forwards \ constructed
               /\ constructed' = constructed \cup {a}
  <2>1. ASSUME NEW f \in Forwards, ConstructForward(f)
        PROVE  /\ f \in Appenders /\ priority[Target[f]] \in Priorities
               /\ threshold' = [threshold EXCEPT ![f] = priority[Target[f]]]
               /\ f \in Forwards \ constructed
               /\ constructed' = constructed \cup {f}
    BY <2>1, BackendAssumption DEF ConstructForward, Appenders, IInv, TypeOK
  <2>2. CASE \E f \in Forwards : ConstructForward(f)
    BY <2>1, <2>2
  <2>3. CASE \E a \in Appenders, p \in Priorities : SetThreshold(a, p)
    BY <2>3 DEF SetThreshold
  <2>4. CASE \E f \in Forwards, p \in Priorities : ConstructForwardWith(f, p)
    BY <2>4 DEF ConstructForwardWith, Appenders
  <2> QED BY <2>2, <2>3, <2>4 DEF Unlocked
<1>3. Atomic!Tune(a, p)
  BY <1>1, <1>2 DEF Atomic!Tune, Atomic!service
<1>4. Atomic!Next
  BY <1>3, BarAppenders DEF Atomic!Next
<1> QED
  BY <1>1, <1>4 DEF AtomicStep

(* Taking and giving back a Lock is no step of AtomicBackend. *)
LEMMA LocksRefine ==
    ASSUME RInv, NEW t \in Threads, NEW b \in Backends,
           RetrieveLock(t, b) \/ ReleaseLock(t, b)
    PROVE  RInv' /\ AtomicStep
<1>1. UNCHANGED <<stack, appenders, priority, threshold, constructed, out,
                  calls>>
  BY DEF RetrieveLock, ReleaseLock
<1>2. RInv' /\ UNCHANGED <<waitingBar, currentBar, todoBar, atBar>>
  BY <1>1, RestIsUnseen
<1>3. UNCHANGED Atomic!vars
  BY <1>1, <1>2 DEF Atomic!vars, Atomic!settings, Atomic!service
<1> QED
  BY <1>2, <1>3 DEF AtomicStep
-----------------------------------------------------------------------------
(* The theorems *)

LEMMA InitRefines == Init => RInv /\ Atomic!Init
<1> SUFFICES ASSUME Init PROVE RInv /\ Atomic!Init
  OBVIOUS
<1>1. \A t \in Threads : stack[t] = <<>> /\ DOMAIN stack[t] = {}
  BY DEF Init
<1>2. RInv
  <2>1. \A t \in Threads : Linked(t, stack[t])
    BY <1>1 DEF Linked, OneMessage, AtWired, Forwarded, Ranked
  <2>2. Attached
    BY DEF Init, Attached
  <2>3. RejectionStable
    BY <1>1 DEF RejectionStable
  <2> QED BY <2>1, <2>2, <2>3 DEF RInv
<1>3. \A t \in Threads : \A b : ~ WaitsFor(stack[t], b) /\ Unseen(stack[t], b)
  <2>1. \A t \in Threads : \A b : Guarding(stack[t], b) = {}
    BY <1>1 DEF Guarding
  <2> QED BY <1>1, <2>1, UnguardedUnseen DEF WaitsFor
<1>4. /\ waitingBar = [b \in Backends |-> {}]
      /\ currentBar = [b \in Backends |-> {}]
      /\ todoBar = [b \in Backends |-> {}]
      /\ atBar = [b \in Backends |-> {}]
  <2>1. waitingBar = [b \in Backends |-> {}]
    BY <1>3 DEF waitingBar
  <2>2. currentBar = [b \in Backends |-> {}]
    BY <1>3 DEF currentBar, Unseen
  <2>3. todoBar = [b \in Backends |-> {}]
    BY <1>3 DEF todoBar, Unseen
  <2>4. atBar = [b \in Backends |-> {}]
    BY <1>3 DEF atBar, Unseen
  <2> QED BY <2>1, <2>2, <2>3, <2>4
<1>5. Atomic!Init
  BY <1>4, BarAppenders DEF Init, Atomic!Init
<1> QED
  BY <1>2, <1>5

LEMMA NextRefines == IInv /\ RInv /\ [Next]_vars => RInv' /\ AtomicStep
<1> SUFFICES ASSUME IInv, RInv, [Next]_vars PROVE RInv' /\ AtomicStep
  OBVIOUS
<1>1. ASSUME NEW t \in Threads, Step(t) PROVE RInv' /\ AtomicStep
  BY <1>1, AcquireRefines, DispatchRefines, SinkDoLogRefines,
     ForwardDoLogRefines, FinishRefines DEF Step
<1>2. ASSUME NEW t \in Threads, Client(t) PROVE RInv' /\ AtomicStep
  BY <1>2, BeginLogRefines, SetPriorityRefines, AddAppenderRefines,
     RemoveAppenderRefines, LocksRefine DEF Client
<1>3. CASE Unlocked
  BY <1>3, UnlockedRefines
<1>4. CASE UNCHANGED vars
  <2>1. UNCHANGED <<stack, appenders, priority, threshold, constructed, out,
                    calls>>
    BY <1>4 DEF vars
  <2>2. RInv' /\ UNCHANGED <<waitingBar, currentBar, todoBar, atBar>>
    BY <2>1, RestIsUnseen
  <2>3. UNCHANGED Atomic!vars
    BY <2>1, <2>2 DEF Atomic!vars, Atomic!settings, Atomic!service
  <2> QED BY <2>2, <2>3 DEF AtomicStep
<1> QED
  BY <1>1, <1>2, <1>3, <1>4 DEF Next

(* The frames on every stack are a chain of forwards for one message, only *)
(* what the wiring provides for is attached, and a rejection stays one.    *)
THEOREM RefinementInvariance == Spec => []RInv
<1>1. Init => RInv
  BY InitRefines
<1>2. IInv /\ RInv /\ [Next]_vars => RInv'
  BY NextRefines
<1> QED
  BY <1>1, <1>2, Invariance, PTL DEF Spec

(* Each step of Backend is one of AtomicBackend or changes nothing there.  *)
THEOREM DoLogIsAtomic == Spec => StepsAreAtomic
<1>1. IInv /\ RInv /\ [Next]_vars => [Atomic!Next]_(Atomic!vars)
  BY NextRefines DEF AtomicStep
<1> QED
  BY <1>1, Invariance, RefinementInvariance, PTL DEF Spec, StepsAreAtomic

(* Backend implements AtomicBackend.                                       *)
THEOREM Implementation == Spec => Atomic!Spec
<1>1. Init => Atomic!Init
  BY InitRefines
<1> QED
  BY <1>1, DoLogIsAtomic, PTL DEF Spec, StepsAreAtomic, Atomic!Spec

-----------------------------------------------------------------------------
(* Deliveries *)

(* Only the backend that a thread logs through may be one it has a Lock of. *)
GuardsFirst ==
    Disciplined =>
       \A t \in Threads : stack[t] # <<>> =>
          \A c \in Backends : c # stack[t][1].backend => guards[t][c] = 0

(* A call begins in the backend its message was logged through; numbers    *)
(* are given out once.                                                     *)
Rooted ==
    \A t \in Threads : stack[t] # <<>> =>
       /\ stack[t][1].backend = Message(stack[t]).backend
       /\ Message(stack[t]).id <= calls

Numbered == \A s \in Sinks : \A m \in OutputOf(s) : m.id <= calls

(* The call of a message that has been output walks its first backend,     *)
OutputWalks ==
    \A t \in Threads : stack[t] # <<>> =>
       \A s \in Sinks :
          Message(stack[t]) \in OutputOf(s) => Walking(stack[t][1])

(* and is over when a later message through that backend is output.        *)
Passed ==
    \A s \in Sinks : \A m, n :
       Before(s, m, n) /\ m.backend = n.backend /\ m # n
          => \A t \in Threads : stack[t] # <<>> => Message(stack[t]) # m

DInv ==
    /\ GuardsFirst
    /\ Rooted
    /\ Numbered
    /\ OutputWalks
    /\ Passed
    /\ OrderAgreement
    /\ NothingSkipped

-----------------------------------------------------------------------------
(* The first frame of a stack *)

(* A step of t keeps the first frame of its stack, or ends the call. *)
RootStep(t) ==
    /\ OnlyStackOf(t)
    /\ stack[t] # <<>>
    /\ stack'[t] # <<>> =>
          /\ stack'[t][1].backend = stack[t][1].backend
          /\ Message(stack'[t]) = Message(stack[t])
          /\ Walking(stack[t][1]) => Walking(stack'[t][1])

LEMMA TopRoot ==
    ASSUME IInv, NEW t \in Threads, NEW pc, NEW pos, TopStep(t, pc, pos),
           Walking(Top(t)) => pc \in {"iterate", "doLog", "await"}
    PROVE  RootStep(t)
<1>1. /\ OnlyStackOf(t) /\ TopSet(stack[t], stack'[t], pc, pos)
      /\ Message(stack'[t]) = Message(stack[t])
  BY DEF TopStep
<1>2. Proper(stack[t])
  BY ProperStacks DEF IInv
<1>3. stack[t] # <<>> /\ 1 \in DOMAIN stack[t]
  BY <1>1, <1>2 DEF TopSet, Proper
<1>4. CASE Len(stack[t]) = 1
  BY <1>1, <1>3, <1>4 DEF RootStep, TopSet, Top, Walking
<1>5. CASE Len(stack[t]) # 1
  <2>1. stack'[t][1] = stack[t][1]
    BY <1>1, <1>3, <1>5 DEF TopSet
  <2> QED BY <1>1, <1>3, <2>1 DEF RootStep
<1> QED
  BY <1>4, <1>5

LEMMA PushedRoot ==
    ASSUME IInv, RInv, NEW t \in Threads, ForwardDoLog(t)
    PROVE  RootStep(t)
<1>1. Pushed(stack[t], stack'[t]) /\ OnlyStackOf(t)
  BY ForwardPushes
<1>2. Proper(stack[t]) /\ Linked(t, stack[t])
  BY ProperStacks DEF IInv, RInv
<1>3. stack[t] # <<>> /\ 1 \in DOMAIN stack[t]
  BY <1>1, <1>2 DEF Pushed, Proper
<1>4. Message(stack'[t]) = Message(stack[t])
  BY <1>1, <1>2, LinkedPushed
<1>5. CASE Len(stack[t]) = 1
  <2>1. /\ stack'[t][1].backend = stack[t][1].backend
        /\ stack'[t][1].pc = "await"
    BY <1>1, <1>5 DEF Pushed
  <2> QED BY <1>1, <1>3, <1>4, <2>1 DEF RootStep, Walking
<1>6. CASE Len(stack[t]) # 1
  <2>1. stack'[t][1] = stack[t][1]
    BY <1>1, <1>3, <1>6 DEF Pushed
  <2> QED BY <1>1, <1>3, <1>4, <2>1 DEF RootStep
<1> QED
  BY <1>5, <1>6

LEMMA PoppedRoot ==
    ASSUME IInv, RInv, NEW t \in Threads, Finish(t)
    PROVE  RootStep(t)
<1>1. PoppedTo(stack[t], stack'[t]) /\ OnlyStackOf(t)
  BY FinishPops
<1>2. Proper(stack[t]) /\ Linked(t, stack[t])
  BY ProperStacks DEF IInv, RInv
<1>3. stack[t] # <<>>
  BY <1>1 DEF PoppedTo
<1>4. ASSUME stack'[t] # <<>>
      PROVE  /\ stack'[t][1].backend = stack[t][1].backend
             /\ stack'[t][1].pc \in {"iterate", "await"}
             /\ Message(stack'[t]) = Message(stack[t])
  <2>1. Message(stack'[t]) = Message(stack[t])
    BY <1>1, <1>2, <1>4, LinkedPopped
  <2>2. Len(stack[t]) - 1 \in 1 .. Len(stack[t]) - 1
    BY <1>1, <1>4 DEF PoppedTo
  <2>3. Len(stack[t]) \in Nat
    BY <1>2 DEF Proper
  <2>4. 1 \in 1 .. Len(stack[t]) - 1
    BY <2>2, <2>3
  <2> QED BY <1>1, <2>1, <2>4 DEF PoppedTo
<1> QED
  BY <1>1, <1>3, <1>4 DEF RootStep, Walking

LEMMA StepRoots ==
    ASSUME IInv, RInv, NEW t \in Threads, Step(t)
    PROVE  RootStep(t) /\ UNCHANGED <<guards, calls>>
<1>1. CASE Acquire(t)
  <2>1. Top(t).pc = "lock"
    BY <1>1 DEF Acquire, Running
  <2>2. RootStep(t)
    BY <1>1, <2>1, AcquireTop, TopRoot DEF Walking
  <2> QED BY <1>1, <2>2 DEF Acquire
<1>2. CASE Dispatch(t)
  <2>1. PICK a : TopStep(t, IF Top(t).msg.priority <= threshold[a]
                            THEN "doLog" ELSE "iterate", a)
    BY <1>2, DispatchTop
  <2>2. RootStep(t)
    BY <2>1, TopRoot
  <2> QED BY <1>2, <2>2 DEF Dispatch
<1>3. CASE SinkDoLog(t)
  <2>1. RootStep(t)
    BY <1>3, SinkTop, TopRoot
  <2> QED BY <1>3, <2>1 DEF SinkDoLog
<1>4. CASE ForwardDoLog(t)
  BY <1>4, PushedRoot DEF ForwardDoLog
<1>5. CASE Finish(t)
  BY <1>5, PoppedRoot DEF Finish
<1> QED
  BY <1>1, <1>2, <1>3, <1>4, <1>5 DEF Step

-----------------------------------------------------------------------------
(* No deadlock *)

(* No thread of W waits for another one of W. *)
LEMMA HighestIsFree ==
    ASSUME IInv, RInv, GuardsFirst, Disciplined,
           NEW t \in Threads, NEW u \in Threads, Blocked(t), Blocked(u),
           holds[u][Top(t).backend] > 0
    PROVE  Rank[Top(t).backend] < Rank[Top(u).backend]
<1> DEFINE b == Top(t).backend
           n == Len(stack[u])
<1>1. /\ TypeOK /\ LockAccounting
      /\ stack[u] # <<>> /\ Top(u).pc = "lock"
      /\ ~ CanLock(u, Top(u).backend)
  BY DEF IInv, Blocked, Running
<1>2. b \in Backends
  BY StackType DEF IInv, Blocked, Running, Frames
<1>3. /\ Proper(stack[u]) /\ Ranked(stack[u])
  BY ProperStacks DEF IInv, RInv, Linked
<1>4. /\ n \in Nat /\ DOMAIN stack[u] = 1 .. n /\ n \in 1 .. n /\ 1 \in 1 .. n
      /\ stack[u][n] = Top(u)
  BY <1>1, <1>3 DEF Proper, Top
<1> HIDE DEF n, b
<1>5. holds[u][b] > 0
  BY DEF b
<1>6. ASSUME NEW i \in 1 .. n, i # n, stack[u][i].backend = b
      PROVE  Rank[b] < Rank[Top(u).backend]
  <2>1. i < n
    BY <1>4, <1>6
  <2> QED BY <1>3, <1>4, <1>6, <2>1 DEF Ranked
<1>7. CASE Guarding(stack[u], b) # {}
  <2>1. PICK i \in Guarding(stack[u], b) : TRUE
    BY <1>7
  <2>2. i \in 1 .. n /\ i # n /\ stack[u][i].backend = b
    BY <1>1, <1>4, <2>1 DEF Guarding
  <2> QED BY <1>6, <2>2 DEF b
<1>8. CASE Guarding(stack[u], b) = {}
  <2>1. holds[u][b] = guards[u][b]
    <3>1. holds[u][b] \in Nat /\ guards[u][b] \in Nat
      BY <1>1, <1>2 DEF TypeOK
    <3>2. holds[u][b] = guards[u][b] + Cardinality({})
      BY <1>1, <1>2, <1>8 DEF LockAccounting
    <3> QED BY <3>1, <3>2, FS_EmptySet
  <2>2. stack[u][1].backend = b
    BY <1>1, <1>2, <1>5, <2>1 DEF GuardsFirst
  <2>3. 1 # n
    <3>1. SUFFICES ASSUME n = 1 PROVE FALSE
      OBVIOUS
    <3>2. Top(u).backend = b
      BY <1>4, <2>2, <3>1
    <3>3. PICK v \in Threads \ {u} : holds[v][b] # 0
      BY <1>1, <3>2 DEF CanLock
    <3>4. holds[u][b] = 0
      BY <1>2, <3>3 DEF IInv, Exclusive
    <3> QED BY <1>5, <3>4
  <2> QED BY <1>4, <1>6, <2>2, <2>3 DEF b
<1> QED
  BY <1>7, <1>8

LEMMA NoCycle ==
    ASSUME IInv, RInv, GuardsFirst, Disciplined
    PROVE  NoDeadlock
<1> SUFFICES ASSUME NEW W \in (SUBSET Threads) \ {{}},
                    \A t \in W : /\ Blocked(t)
                                 /\ \E u \in W : holds[u][Top(t).backend] > 0
             PROVE  FALSE
  BY DEF NoDeadlock
<1> DEFINE S == {Top(t).backend : t \in W}
<1>1. \A t \in W : t \in Threads /\ Top(t).backend \in Backends
  BY StackType DEF IInv, Blocked, Running, Frames
<1>2. S \in SUBSET Backends /\ S # {}
  <2>1. W # {}
    OBVIOUS
  <2>2. PICK t \in W : TRUE
    BY <2>1
  <2>3. Top(t).backend \in S
    OBVIOUS
  <2> QED BY <1>1, <2>3
<1>3. PICK b \in S : \A c \in S : Rank[c] <= Rank[b]
  <2> HIDE DEF S
  <2> QED BY <1>2, HighestAssumption
<1>4. PICK t \in W : Top(t).backend = b
  BY <1>3
<1>5. PICK u \in W : holds[u][b] > 0
  BY <1>4
<1>6. Rank[b] < Rank[Top(u).backend]
  BY <1>1, <1>4, <1>5, HighestIsFree
<1>7. Top(u).backend \in S
  OBVIOUS
<1>8. Rank[Top(u).backend] <= Rank[b]
  BY <1>3, <1>7
<1>9. Rank[b] \in Nat /\ Rank[Top(u).backend] \in Nat
  BY <1>1, <1>4, AcyclicAssumption
<1> QED
  BY <1>6, <1>8, <1>9

-----------------------------------------------------------------------------
(* What the sinks output *)

LEMMA AppendedOutput ==
    ASSUME NEW q \in Seq(Messages), NEW m \in Messages
    PROVE  /\ DOMAIN q = 1 .. Len(q) /\ Len(q) \in Nat
           /\ DOMAIN Append(q, m) = 1 .. Len(q) + 1
           /\ Append(q, m)[Len(q) + 1] = m
           /\ \A k \in 1 .. Len(q) : Append(q, m)[k] = q[k]
OBVIOUS

(* All that o has output, q has too. *)
Grown(o, q) ==
    \A s \in Sinks : \A k \in DOMAIN o[s] : k \in DOMAIN q[s] /\ q[s][k] = o[s][k]

(* q is o with m output by the sink s. *)
OutputBy(o, q, s, m) ==
    /\ s \in Sinks
    /\ \A r \in Sinks : r # s => q[r] = o[r]
    /\ Len(o[s]) \in Nat
    /\ DOMAIN o[s] = 1 .. Len(o[s])
    /\ DOMAIN q[s] = 1 .. Len(o[s]) + 1
    /\ q[s][Len(o[s]) + 1] = m
    /\ \A k \in 1 .. Len(o[s]) : q[s][k] = o[s][k]

LEMMA SinkOutputs ==
    ASSUME IInv, NEW t \in Threads, SinkDoLog(t)
    PROVE  /\ OutputBy(out, out', Top(t).pos, Top(t).msg)
           /\ Grown(out, out')
<1> DEFINE s == Top(t).pos
           m == Top(t).msg
<1>1. /\ s \in Sinks
      /\ out' = [out EXCEPT ![s] = Append(@, m)]
      /\ out \in [Sinks -> Seq(Messages)]
  BY DEF SinkDoLog, IInv, TypeOK
<1>2. m \in Messages
  BY StackType DEF IInv, SinkDoLog, Running, Frames
<1> HIDE DEF s, m
<1>3. /\ \A r \in Sinks : r # s => out'[r] = out[r]
      /\ out'[s] = Append(out[s], m)
      /\ out[s] \in Seq(Messages)
  BY <1>1
<1>4. OutputBy(out, out', s, m)
  BY <1>1, <1>2, <1>3, AppendedOutput DEF OutputBy
<1>5. Grown(out, out')
  <2> SUFFICES ASSUME NEW r \in Sinks, NEW k \in DOMAIN out[r]
               PROVE  k \in DOMAIN out'[r] /\ out'[r][k] = out[r][k]
    BY DEF Grown
  <2>1. CASE r # s
    BY <1>3, <2>1
  <2>2. CASE r = s
    <3>1. k \in 1 .. Len(out[s]) /\ Len(out[s]) \in Nat
      BY <1>4, <2>2 DEF OutputBy
    <3>2. k \in 1 .. Len(out[s]) + 1
      BY <3>1
    <3> QED BY <1>4, <2>2, <3>1, <3>2 DEF OutputBy
  <2> QED BY <2>1, <2>2
<1> QED
  BY <1>4, <1>5 DEF s, m

(* What is output new, and after what *)
LEMMA NewOutput ==
    ASSUME NEW s, NEW m, OutputBy(out, out', s, m), NEW r \in Sinks
    PROVE  /\ \A x : x \in OutputOf(r)' => x \in OutputOf(r) \/ x = m
           /\ \A x, y : Before(r, x, y)' =>
                 Before(r, x, y) \/ (y = m /\ x \in OutputOf(r))
<1>1. CASE r # s
  <2>1. out'[r] = out[r]
    BY <1>1 DEF OutputBy
  <2> QED BY <2>1 DEF OutputOf, Before
<1>2. CASE r = s
  <2> DEFINE n == Len(out[r])
  <2>1. /\ n \in Nat /\ DOMAIN out[r] = 1 .. n /\ DOMAIN out'[r] = 1 .. n + 1
        /\ out'[r][n + 1] = m
        /\ \A k \in 1 .. n : out'[r][k] = out[r][k]
    BY <1>2 DEF OutputBy
  <2> HIDE DEF n
  <2>2. \A k \in 1 .. n + 1 : k \in 1 .. n \/ k = n + 1
    BY <2>1
  <2>3. ASSUME NEW x, x \in OutputOf(r)'
        PROVE  x \in OutputOf(r) \/ x = m
    <3>1. PICK k \in 1 .. n + 1 : x = out'[r][k]
      BY <2>1, <2>3 DEF OutputOf
    <3> QED BY <2>1, <2>2, <3>1 DEF OutputOf
  <2>4. ASSUME NEW x, NEW y, Before(r, x, y)'
        PROVE  Before(r, x, y) \/ (y = m /\ x \in OutputOf(r))
    <3>1. PICK j \in 1 .. n + 1, k \in 1 .. n + 1 :
             j < k /\ out'[r][j] = x /\ out'[r][k] = y
      BY <2>1, <2>4 DEF Before
    <3>2. j \in 1 .. n
      BY <2>1, <3>1
    <3>3. x = out[r][j] /\ x \in OutputOf(r)
      BY <2>1, <3>1, <3>2 DEF OutputOf
    <3>4. CASE k = n + 1
      BY <2>1, <3>1, <3>3, <3>4
    <3>5. CASE k \in 1 .. n
      BY <2>1, <3>1, <3>2, <3>3, <3>5 DEF Before
    <3> QED BY <2>2, <3>4, <3>5
  <2> QED BY <2>3, <2>4
<1> QED
  BY <1>1, <1>2

(* What is before another message has been output. *)
LEMMA BeforeIsOutput ==
    ASSUME NEW s, NEW m, NEW n, Before(s, m, n)
    PROVE  m \in OutputOf(s) /\ n \in OutputOf(s)
BY DEF Before, OutputOf

(* The sink's caller walks the backend its message was logged through. *)
LEMMA SinkWalks ==
    ASSUME IInv, RInv, Rooted, NEW t \in Threads, SinkDoLog(t)
    PROVE  /\ stack[t] # <<>> /\ Message(stack[t]) = Top(t).msg
           /\ Walking(stack[t][1])
           /\ stack[t][1].backend = Top(t).msg.backend
           /\ Top(t).msg.thread = t
           /\ Top(t).msg.id <= calls
           /\ Top(t).msg.backend \in Backends
           /\ Guarding(stack[t], Top(t).msg.backend) # {}
<1>1. stack[t] # <<>> /\ Top(t).pc = "doLog"
  BY DEF SinkDoLog, Running
<1>2. Proper(stack[t]) /\ Linked(t, stack[t])
  BY ProperStacks DEF IInv, RInv
<1>3. /\ 1 \in DOMAIN stack[t] /\ Len(stack[t]) \in DOMAIN stack[t]
      /\ stack[t][Len(stack[t])] = Top(t)
  BY <1>1, <1>2 DEF Proper, Top
<1>4. Message(stack[t]) = Top(t).msg /\ Top(t).msg.thread = t
  BY <1>2, <1>3 DEF Linked, OneMessage
<1>5. Walking(stack[t][1])
  <2>1. CASE Len(stack[t]) = 1
    BY <1>1, <1>3, <2>1 DEF Walking
  <2>2. CASE Len(stack[t]) # 1
    BY <1>3, <2>2 DEF IInv, CallChain, Walking
  <2> QED BY <2>1, <2>2
<1>6. /\ stack[t][1].backend = Top(t).msg.backend
      /\ Top(t).msg.id <= calls
  BY <1>1, <1>4 DEF Rooted
<1>7. stack[t][1].backend \in Backends
  BY <1>2, <1>3 DEF Proper, Frames
<1>8. Guarding(stack[t], Top(t).msg.backend) # {}
  <2>1. 1 \in Guarding(stack[t], stack[t][1].backend)
    BY <1>3, <1>5, WalkingGuards
  <2> QED BY <1>6, <2>1
<1> QED
  BY <1>1, <1>4, <1>5, <1>6, <1>7, <1>8

(* An output message of the same backend is on no other stack. *)
LEMMA EarlierIsOver ==
    ASSUME IInv, RInv, Rooted, OutputWalks, NEW t \in Threads, SinkDoLog(t),
           NEW s \in Sinks, NEW m, m \in OutputOf(s), m # Top(t).msg,
           m.backend = Top(t).msg.backend,
           NEW u \in Threads, stack[u] # <<>>
    PROVE  Message(stack[u]) # m
<1> SUFFICES ASSUME Message(stack[u]) = m PROVE FALSE
  OBVIOUS
<1>1. u # t
  BY SinkWalks
<1>2. /\ Walking(stack[u][1])
      /\ stack[u][1].backend = Top(t).msg.backend
  BY DEF OutputWalks, Rooted
<1>3. AloneWith(t, Top(t).msg.backend)
  BY SinkWalks, GuardingAlone
<1>4. 1 \in DOMAIN stack[u]
  BY ProperStacks DEF IInv, Proper
<1>5. Serves(stack[u], Top(t).msg.backend)
  BY <1>2, <1>4 DEF Serves
<1> QED
  BY <1>1, <1>3, <1>5 DEF AloneWith, Unseen

-----------------------------------------------------------------------------
(* The order of the output, action by action *)

OrderInv == Rooted /\ Numbered /\ OutputWalks /\ Passed /\ OrderAgreement

LEMMA SinkKeepsOrder ==
    ASSUME IInv, RInv, OrderInv, NEW t \in Threads, SinkDoLog(t)
    PROVE  (Numbered /\ Passed /\ OrderAgreement)' /\ OutputWalks'
<1> DEFINE s == Top(t).pos
           n == Top(t).msg
<1>1. Rooted /\ Numbered /\ OutputWalks /\ Passed /\ OrderAgreement
  BY DEF OrderInv
<1>2. OutputBy(out, out', s, n) /\ s \in Sinks
  BY SinkOutputs DEF OutputBy
<1>3. RootStep(t) /\ calls' = calls
  BY StepRoots DEF Step
<1>4. /\ stack[t] # <<>> /\ Message(stack[t]) = n /\ n.id <= calls
      /\ Walking(stack[t][1]) /\ n.thread = t
  BY <1>1, SinkWalks
<1>5. \A u \in Threads : stack'[u] # <<>> =>
         stack[u] # <<>> /\ Message(stack'[u]) = Message(stack[u])
  BY <1>3 DEF RootStep, OnlyStackOf
<1>6. ASSUME NEW m, NEW r \in Sinks, m \in OutputOf(r), m # n,
             m.backend = n.backend, NEW u \in Threads, stack[u] # <<>>
      PROVE  Message(stack[u]) # m
  BY <1>1, <1>6, EarlierIsOver
<1> HIDE DEF s, n
<1>7. Numbered'
  <2> SUFFICES ASSUME NEW r \in Sinks, NEW m, m \in OutputOf(r)'
               PROVE  m.id <= calls
    BY <1>3 DEF Numbered
  <2>1. m \in OutputOf(r) \/ m = n
    BY <1>2, NewOutput
  <2> QED BY <1>1, <1>4, <2>1 DEF Numbered
<1>8. Passed'
  <2> SUFFICES ASSUME NEW r \in Sinks, NEW x, NEW y, Before(r, x, y)',
                      x.backend = y.backend, x # y,
                      NEW u \in Threads, stack'[u] # <<>>
               PROVE  Message(stack'[u]) # x
    BY DEF Passed
  <2>1. Before(r, x, y) \/ (y = n /\ x \in OutputOf(r))
    BY <1>2, NewOutput
  <2>2. stack[u] # <<>> /\ Message(stack'[u]) = Message(stack[u])
    BY <1>5
  <2>3. CASE Before(r, x, y)
    BY <1>1, <2>2, <2>3 DEF Passed
  <2>4. CASE y = n /\ x \in OutputOf(r)
    BY <1>6, <2>2, <2>4
  <2> QED BY <2>1, <2>3, <2>4
<1>9. OrderAgreement'
  <2> SUFFICES ASSUME NEW q \in Sinks, NEW r \in Sinks, NEW x, NEW y,
                      x.backend = y.backend, x # y,
                      Before(q, x, y)', Before(r, y, x)'
               PROVE  FALSE
    BY DEF OrderAgreement
  <2>1. /\ Before(q, x, y) \/ (y = n /\ x \in OutputOf(q))
        /\ Before(r, y, x) \/ (x = n /\ y \in OutputOf(r))
    BY <1>2, NewOutput
  <2>2. ~ (y = n /\ Before(r, y, x))
    BY <1>1, <1>4 DEF Passed
  <2>3. ~ (x = n /\ Before(q, x, y))
    BY <1>1, <1>4 DEF Passed
  <2>4. ~ (Before(q, x, y) /\ Before(r, y, x))
    BY <1>1, BeforeIsOutput DEF OrderAgreement
  <2> QED BY <2>1, <2>2, <2>3, <2>4
<1>10. OutputWalks'
  <2> SUFFICES ASSUME NEW u \in Threads, stack'[u] # <<>>, NEW r \in Sinks,
                      Message(stack'[u]) \in OutputOf(r)'
               PROVE  Walking(stack'[u][1])
    BY DEF OutputWalks
  <2>1. CASE u = t
    BY <1>3, <1>4, <2>1 DEF RootStep
  <2>2. CASE u # t
    <3>1. stack'[u] = stack[u]
      BY <1>3, <2>2 DEF RootStep, OnlyStackOf
    <3>2. Message(stack[u]) \in OutputOf(r) \/ Message(stack[u]) = n
      BY <1>2, <3>1, NewOutput
    <3>3. Message(stack[u]).thread = u
      <4>1. 1 \in DOMAIN stack[u]
        BY <3>1, ProperStacks DEF IInv, Proper
      <4> QED BY <4>1 DEF RInv, Linked, OneMessage, Message
    <3> QED BY <1>1, <1>4, <2>2, <3>1, <3>2, <3>3 DEF OutputWalks
  <2> QED BY <2>1, <2>2
<1> QED
  BY <1>7, <1>8, <1>9, <1>10

LEMMA StepKeepsOrder ==
    ASSUME IInv, RInv, OrderInv, NEW t \in Threads, Step(t)
    PROVE  OrderInv'
<1>1. Rooted /\ Numbered /\ OutputWalks /\ Passed /\ OrderAgreement
  BY DEF OrderInv
<1>2. RootStep(t) /\ calls' = calls
  BY StepRoots
<1>3. Rooted'
  <2>1. \A u \in Threads : stack'[u] # <<>> =>
           /\ stack[u] # <<>> /\ Message(stack'[u]) = Message(stack[u])
           /\ stack'[u][1].backend = stack[u][1].backend
    BY <1>2 DEF RootStep, OnlyStackOf
  <2> QED BY <1>1, <1>2, <2>1 DEF Rooted
<1>4. CASE SinkDoLog(t)
  BY <1>3, <1>4, SinkKeepsOrder DEF OrderInv
<1>5. CASE UNCHANGED out
  <2>1. /\ \A s : OutputOf(s)' = OutputOf(s)
        /\ \A s, m, n : Before(s, m, n)' <=> Before(s, m, n)
    BY <1>5 DEF OutputOf, Before
  <2>2. \A u \in Threads : stack'[u] # <<>> =>
           /\ stack[u] # <<>> /\ Message(stack'[u]) = Message(stack[u])
           /\ Walking(stack[u][1]) => Walking(stack'[u][1])
    BY <1>2 DEF RootStep, OnlyStackOf
  <2>3. Numbered'
    BY <1>1, <1>2, <2>1 DEF Numbered
  <2>4. OutputWalks'
    BY <1>1, <2>1, <2>2 DEF OutputWalks
  <2>5. Passed'
    BY <1>1, <2>1, <2>2 DEF Passed
  <2>6. OrderAgreement'
    BY <1>1, <2>1 DEF OrderAgreement
  <2> QED BY <1>3, <2>3, <2>4, <2>5, <2>6 DEF OrderInv
<1> QED
  BY <1>4, <1>5 DEF Step, Acquire, Dispatch, ForwardDoLog, Finish

LEMMA BeginLogKeepsOrder ==
    ASSUME IInv, OrderInv, NEW t \in Threads, NEW b \in Backends,
           NEW p \in Priorities, BeginLog(t, b, p)
    PROVE  OrderInv'
<1> DEFINE msg == [id |-> calls + 1, thread |-> t, backend |-> b,
                   priority |-> p]
<1>1. Rooted /\ Numbered /\ OutputWalks /\ Passed /\ OrderAgreement
  BY DEF OrderInv
<1>2. /\ calls \in Nat /\ calls' = calls + 1 /\ out' = out
      /\ stack' = [stack EXCEPT ![t] = <<NewFrame(b, msg)>>]
      /\ stack \in [Threads -> Seq(Frames)]
  BY DEF IInv, TypeOK, BeginLog
<1>3. msg.id = calls + 1 /\ msg.backend = b
  OBVIOUS
<1> HIDE DEF msg
<1>4. /\ stack'[t] = <<NewFrame(b, msg)>>
      /\ \A u \in Threads \ {t} : stack'[u] = stack[u]
  BY <1>2
<1>5. Message(stack'[t]) = msg /\ stack'[t][1].backend = b
  BY <1>4 DEF Message, NewFrame
<1>6. \A s \in Sinks : \A m \in OutputOf(s) : m.id \in Nat /\ m.id <= calls
  <2> SUFFICES ASSUME NEW s \in Sinks, NEW k \in DOMAIN out[s]
               PROVE  out[s][k].id \in Nat /\ out[s][k].id <= calls
    BY DEF OutputOf
  <2>1. out[s] \in Seq(Messages)
    BY DEF IInv, TypeOK
  <2>2. out[s][k] \in Messages
    BY <2>1
  <2> QED BY <1>1, <2>2 DEF Numbered, OutputOf, Messages
<1>7. \A s \in Sinks : msg \notin OutputOf(s)
  BY <1>2, <1>3, <1>6
<1>8. /\ \A s : OutputOf(s)' = OutputOf(s)
      /\ \A s, m, n : Before(s, m, n)' <=> Before(s, m, n)
  BY <1>2 DEF OutputOf, Before
<1>9. Rooted'
  <2> SUFFICES ASSUME NEW u \in Threads, stack'[u] # <<>>
               PROVE  /\ stack'[u][1].backend = Message(stack'[u]).backend
                      /\ Message(stack'[u]).id <= calls'
    BY DEF Rooted
  <2>1. CASE u = t
    BY <1>2, <1>3, <1>5, <2>1
  <2>2. CASE u # t
    <3>1. stack'[u] = stack[u]
      BY <1>4, <2>2
    <3>2. /\ stack[u][1].backend = Message(stack[u]).backend
          /\ Message(stack[u]).id <= calls
      BY <1>1, <3>1 DEF Rooted
    <3>3. Message(stack[u]).id \in Nat
      <4>1. stack[u][1] \in Frames
        BY <3>1, ProperStacks DEF IInv, Proper
      <4> QED BY <4>1 DEF Message, Frames, Messages
    <3> QED BY <1>2, <3>1, <3>2, <3>3
  <2> QED BY <2>1, <2>2
<1>10. Numbered'
  BY <1>2, <1>6, <1>8 DEF Numbered
<1>11. OutputWalks'
  <2> SUFFICES ASSUME NEW u \in Threads, stack'[u] # <<>>, NEW s \in Sinks,
                      Message(stack'[u]) \in OutputOf(s)
               PROVE  Walking(stack'[u][1])
    BY <1>8 DEF OutputWalks
  <2>1. u # t
    BY <1>5, <1>7
  <2> QED BY <1>1, <1>4, <2>1 DEF OutputWalks
<1>12. Passed'
  <2> SUFFICES ASSUME NEW s \in Sinks, NEW m, NEW n, Before(s, m, n),
                      m.backend = n.backend, m # n,
                      NEW u \in Threads, stack'[u] # <<>>
               PROVE  Message(stack'[u]) # m
    BY <1>8 DEF Passed
  <2>1. CASE u = t
    BY <1>5, <1>7, <2>1, BeforeIsOutput
  <2>2. CASE u # t
    BY <1>1, <1>4, <2>2 DEF Passed
  <2> QED BY <2>1, <2>2
<1>13. OrderAgreement'
  BY <1>1, <1>8 DEF OrderAgreement
<1> QED
  BY <1>9, <1>10, <1>11, <1>12, <1>13 DEF OrderInv

LEMMA RestKeepsOrder ==
    ASSUME OrderInv, UNCHANGED <<stack, out, calls>>
    PROVE  OrderInv'
<1>1. /\ \A s : OutputOf(s)' = OutputOf(s)
      /\ \A s, m, n : Before(s, m, n)' <=> Before(s, m, n)
  BY DEF OutputOf, Before
<1> QED
  BY <1>1 DEF OrderInv, Rooted, Numbered, OutputWalks, Passed, OrderAgreement

-----------------------------------------------------------------------------
(* No sink is passed over *)

Unrejectable(m) == \A p \in Priorities : m.priority <= p

(* What NothingSkipped says of a frame f, with the appenders A and the     *)
(* output o                                                                *)
Given(f, A, o) ==
    Walking(f) /\ Unrejectable(f.msg) =>
       \A s \in A[f.backend] \cap Sinks :
          s <= f.pos /\ ~ (f.pc = "doLog" /\ s = f.pos)
             => \E k \in DOMAIN o[s] : o[s][k] = f.msg

LEMMA SkippedOrGiven ==
    /\ NothingSkipped <=> \A t \in Threads : \A i \in DOMAIN stack[t] :
                             Given(stack[t][i], appenders, out)
    /\ NothingSkipped' <=> \A t \in Threads : \A i \in DOMAIN stack'[t] :
                              Given(stack'[t][i], appenders', out')
BY DEF NothingSkipped, Given, Unrejectable, Received

LEMMA GrownGiven ==
    ASSUME NEW f, NEW A, NEW o, NEW q, Grown(o, q), Given(f, A, o)
    PROVE  Given(f, A, q)
BY DEF Given, Grown

(* A frame that goes on from a forward, or to it, is as it was. *)
LEMMA MovedGiven ==
    ASSUME NEW f, NEW g, NEW A, NEW o, Given(f, A, o), Walking(f),
           f.pc = "doLog" => f.pos \in Forwards,
           g.backend = f.backend, g.msg = f.msg, g.pos = f.pos
    PROVE  Given(g, A, o)
BY BackendAssumption DEF Given

(* A step of t that changes its innermost frame, and at most adds output *)
LEMMA TopKeepsGiven ==
    ASSUME NothingSkipped, NEW t \in Threads, NEW pc, NEW pos,
           TopStep(t, pc, pos), appenders' = appenders, Grown(out, out'),
           Given(stack'[t][Len(stack[t])], appenders, out')
    PROVE  NothingSkipped'
<1> SUFFICES ASSUME NEW u \in Threads, NEW i \in DOMAIN stack'[u]
             PROVE  Given(stack'[u][i], appenders, out')
  BY SkippedOrGiven
<1>1. CASE u = t /\ i = Len(stack[t])
  BY <1>1
<1>2. CASE u # t \/ i # Len(stack[t])
  <2>1. stack'[u][i] = stack[u][i] /\ i \in DOMAIN stack[u]
    BY <1>2 DEF TopStep, TopSet, OnlyStackOf
  <2>2. Given(stack[u][i], appenders, out)
    BY <2>1, SkippedOrGiven
  <2> QED BY <2>1, <2>2, GrownGiven
<1> QED
  BY <1>1, <1>2

(* What TopStep says of the frame *)
LEMMA TopFrame ==
    ASSUME IInv, NEW t \in Threads, NEW pc, NEW pos, TopStep(t, pc, pos)
    PROVE  LET g == stack'[t][Len(stack[t])]
           IN  /\ g.backend = Top(t).backend /\ g.msg = Top(t).msg
               /\ g.pc = pc /\ g.pos = pos
               /\ stack[t][Len(stack[t])] = Top(t)
               /\ Len(stack[t]) \in DOMAIN stack[t]
               /\ Top(t) \in Frames
<1>1. stack[t] # <<>>
  BY DEF TopStep, TopSet
<1>2. Len(stack[t]) \in DOMAIN stack[t] /\ Top(t) \in Frames
  BY <1>1, StackType DEF IInv
<1> QED
  BY <1>2 DEF TopStep, TopSet, Top

LEMMA AcquireKeepsGiven ==
    ASSUME IInv, RInv, NothingSkipped, NEW t \in Threads, Acquire(t)
    PROVE  NothingSkipped'
<1> DEFINE pc == IF Top(t).msg.priority <= priority[Top(t).backend]
                 THEN "iterate" ELSE "skip"
           g == stack'[t][Len(stack[t])]
<1>1. TopStep(t, pc, 0)
  BY AcquireTop
<1> HIDE DEF pc
<1>2. g.pos = 0 /\ g.backend \in Backends
  BY <1>1, TopFrame DEF Frames
<1>3. UNCHANGED <<appenders, out>>
  BY DEF Acquire
<1> HIDE DEF g
<1>4. \A s \in appenders[g.backend] : s \in Nat /\ s > 0
  BY <1>2, Addresses DEF RInv
<1>5. Given(g, appenders, out')
  BY <1>2, <1>4 DEF Given
<1>6. Grown(out, out')
  BY <1>3 DEF Grown
<1> QED
  BY <1>1, <1>3, <1>5, <1>6, TopKeepsGiven DEF g

LEMMA DispatchKeepsGiven ==
    ASSUME IInv, RInv, NothingSkipped, NEW t \in Threads, Dispatch(t)
    PROVE  NothingSkipped'
<1> DEFINE f == Top(t)
           g == stack'[t][Len(stack[t])]
<1>1. PICK a : /\ IsNext(Top(t), a) /\ a \in Appenders /\ a \in Nat
               /\ TopStep(t, IF Top(t).msg.priority <= threshold[a]
                             THEN "doLog" ELSE "iterate", a)
  BY DispatchTop
<1>2. Top(t).pc = "iterate"
  BY DispatchTop
<1> DEFINE pc == IF Top(t).msg.priority <= threshold[a]
                 THEN "doLog" ELSE "iterate"
<1>3. /\ g.backend = f.backend /\ g.msg = f.msg /\ g.pc = pc /\ g.pos = a
      /\ stack[t][Len(stack[t])] = f
      /\ Len(stack[t]) \in DOMAIN stack[t] /\ f \in Frames
  <2> HIDE DEF pc
  <2>1. TopStep(t, pc, a)
    BY <1>1 DEF pc
  <2> QED BY <2>1, TopFrame
<1>4. Given(f, appenders, out)
  BY <1>3, SkippedOrGiven
<1>5. UNCHANGED <<appenders, out>>
  BY DEF Dispatch
<1>6. threshold[a] \in Priorities
  BY <1>1 DEF IInv, TypeOK
<1>7. IsNext(f, a) /\ f.pc = "iterate"
  BY <1>1, <1>2
<1>8. Unrejectable(f.msg) => pc = "doLog"
  BY <1>6 DEF Unrejectable
<1> HIDE DEF f, g, pc
<1>9. f.pos \in Nat /\ f.backend \in Backends
  BY <1>3 DEF Frames
<1>10. ASSUME NEW s \in appenders[f.backend] \cap Sinks, s <= a, s # a
       PROVE  s <= f.pos
  <2>1. s \in Nat
    BY BackendAssumption
  <2>2. ~ (s > f.pos)
    BY <1>1, <1>7, <1>10, <2>1 DEF IsNext, Rest
  <2> QED BY <1>9, <2>1, <2>2
<1>11. ASSUME Unrejectable(f.msg),
              NEW s \in appenders[f.backend] \cap Sinks, s <= a, s # a
       PROVE  \E k \in DOMAIN out[s] : out[s][k] = f.msg
  BY <1>4, <1>7, <1>10, <1>11 DEF Given, Walking
<1>12. Given(g, appenders, out')
  BY <1>3, <1>5, <1>8, <1>11 DEF Given
<1>13. Grown(out, out')
  BY <1>5 DEF Grown
<1>14. TopStep(t, pc, a)
  BY <1>1 DEF pc
<1> QED
  BY <1>5, <1>12, <1>13, <1>14, TopKeepsGiven DEF g

LEMMA SinkKeepsGiven ==
    ASSUME IInv, RInv, NothingSkipped, NEW t \in Threads, SinkDoLog(t)
    PROVE  NothingSkipped'
<1> DEFINE f == Top(t)
           g == stack'[t][Len(stack[t])]
<1>1. TopStep(t, "iterate", f.pos)
  BY SinkTop
<1>2. /\ OutputBy(out, out', f.pos, f.msg) /\ Grown(out, out')
      /\ f.pc = "doLog" /\ UNCHANGED appenders
  BY SinkOutputs DEF SinkDoLog, Running
<1>3. /\ g.backend = f.backend /\ g.msg = f.msg /\ g.pos = f.pos
      /\ stack[t][Len(stack[t])] = f
      /\ Len(stack[t]) \in DOMAIN stack[t]
  BY <1>1, TopFrame
<1>4. Given(f, appenders, out)
  BY <1>3, SkippedOrGiven
<1> HIDE DEF f, g
<1>5. \E k \in DOMAIN out'[f.pos] : out'[f.pos][k] = f.msg
  <2>1. Len(out[f.pos]) + 1 \in 1 .. Len(out[f.pos]) + 1
    BY <1>2 DEF OutputBy
  <2> QED BY <1>2, <2>1 DEF OutputBy
<1>6. Given(f, appenders, out')
  BY <1>2, <1>4, GrownGiven
<1>7. Given(g, appenders, out')
  BY <1>2, <1>3, <1>5, <1>6 DEF Given, Walking
<1> QED
  BY <1>1, <1>2, <1>7, TopKeepsGiven DEF f, g

LEMMA ForwardKeepsGiven ==
    ASSUME IInv, RInv, NothingSkipped, NEW t \in Threads, ForwardDoLog(t)
    PROVE  NothingSkipped'
<1> DEFINE n == Len(stack[t])
<1>1. Pushed(stack[t], stack'[t]) /\ OnlyStackOf(t)
  BY ForwardPushes
<1>2. UNCHANGED <<appenders, out>>
  BY DEF ForwardDoLog
<1>3. /\ n \in Nat /\ n \in 1 .. n /\ DOMAIN stack[t] = 1 .. n
  BY <1>1, ProperStacks DEF IInv, Proper, Pushed
<1>4. /\ DOMAIN stack'[t] = 1 .. n + 1
      /\ \A i \in 1 .. n : i # n => stack'[t][i] = stack[t][i]
      /\ stack'[t][n].backend = stack[t][n].backend
      /\ stack'[t][n].msg = stack[t][n].msg
      /\ stack'[t][n].pos = stack[t][n].pos
      /\ stack[t][n].pc = "doLog" /\ stack[t][n].pos \in Forwards
      /\ stack'[t][n + 1].pc = "lock"
  BY <1>1, <1>3 DEF Pushed
<1> HIDE DEF n
<1> SUFFICES ASSUME NEW u \in Threads, NEW i \in DOMAIN stack'[u]
             PROVE  Given(stack'[u][i], appenders, out)
  BY <1>2, SkippedOrGiven
<1>5. CASE u # t
  BY <1>1, <1>5, SkippedOrGiven DEF OnlyStackOf
<1>6. CASE u = t /\ i = n + 1
  BY <1>4, <1>6 DEF Given, Walking
<1>7. CASE u = t /\ i = n
  <2>1. Given(stack[t][n], appenders, out) /\ Walking(stack[t][n])
    BY <1>3, <1>4, SkippedOrGiven DEF Walking
  <2>2. Given(stack'[t][n], appenders, out)
    BY <1>4, <2>1, MovedGiven
  <2> QED BY <1>7, <2>2
<1>8. CASE u = t /\ i \in 1 .. n /\ i # n
  BY <1>3, <1>4, <1>8, SkippedOrGiven
<1>9. u = t => i \in 1 .. n \/ i = n + 1
  BY <1>3, <1>4
<1> QED
  BY <1>5, <1>6, <1>7, <1>8, <1>9

LEMMA FinishKeepsGiven ==
    ASSUME IInv, RInv, NothingSkipped, NEW t \in Threads, Finish(t)
    PROVE  NothingSkipped'
<1> DEFINE n == Len(stack[t])
<1>1. PoppedTo(stack[t], stack'[t]) /\ OnlyStackOf(t)
  BY FinishPops
<1>2. UNCHANGED <<appenders, out>>
  BY DEF Finish
<1>3. DOMAIN stack[t] = 1 .. n /\ n \in Nat
  BY ProperStacks DEF IInv, Proper
<1>4. /\ DOMAIN stack'[t] = 1 .. n - 1
      /\ \A i \in 1 .. n - 1 :
            /\ stack'[t][i].backend = stack[t][i].backend
            /\ stack'[t][i].msg = stack[t][i].msg
            /\ stack'[t][i].pos = stack[t][i].pos
            /\ stack[t][i].pc = "await"
  BY <1>1 DEF PoppedTo
<1> HIDE DEF n
<1> SUFFICES ASSUME NEW u \in Threads, NEW i \in DOMAIN stack'[u]
             PROVE  Given(stack'[u][i], appenders, out)
  BY <1>2, SkippedOrGiven
<1>5. CASE u # t
  BY <1>1, <1>5, SkippedOrGiven DEF OnlyStackOf
<1>6. CASE u = t
  <2>1. i \in 1 .. n - 1 /\ i \in 1 .. n
    BY <1>3, <1>4, <1>6
  <2>2. Given(stack[t][i], appenders, out) /\ Walking(stack[t][i])
    BY <1>3, <1>4, <2>1, SkippedOrGiven DEF Walking
  <2>3. Given(stack'[t][i], appenders, out)
    BY <1>4, <2>1, <2>2, MovedGiven
  <2> QED BY <1>6, <2>3
<1> QED
  BY <1>5, <1>6

LEMMA BeginLogKeepsGiven ==
    ASSUME IInv, NothingSkipped, NEW t \in Threads, NEW b \in Backends,
           NEW p \in Priorities, BeginLog(t, b, p)
    PROVE  NothingSkipped'
<1> DEFINE msg == [id |-> calls + 1, thread |-> t, backend |-> b,
                   priority |-> p]
<1>1. /\ stack' = [stack EXCEPT ![t] = <<NewFrame(b, msg)>>]
      /\ UNCHANGED <<appenders, out>> /\ stack \in [Threads -> Seq(Frames)]
  BY DEF IInv, TypeOK, BeginLog
<1> HIDE DEF msg
<1> SUFFICES ASSUME NEW u \in Threads, NEW i \in DOMAIN stack'[u]
             PROVE  Given(stack'[u][i], appenders, out)
  BY <1>1, SkippedOrGiven
<1>2. CASE u # t
  BY <1>1, <1>2, SkippedOrGiven
<1>3. CASE u = t
  <2>1. stack'[u][i].pc = "lock"
    BY <1>1, <1>3 DEF NewFrame
  <2> QED BY <2>1 DEF Given, Walking
<1> QED
  BY <1>2, <1>3

(* What is attached is new to no walk. *)
LEMMA AddAppenderKeepsGiven ==
    ASSUME IInv, NothingSkipped, NEW t \in Threads, NEW b \in Backends,
           NEW a \in Appenders, AddAppender(t, b, a)
    PROVE  NothingSkipped'
<1>1. /\ TypeOK /\ LockAccounting /\ Idle(t) /\ CanLock(t, b)
      /\ appenders' = [appenders EXCEPT ![b] = @ \cup {a}]
      /\ UNCHANGED <<stack, out>>
  BY DEF IInv, AddAppender, MayUse
<1> SUFFICES ASSUME NEW u \in Threads, NEW i \in DOMAIN stack[u],
                    Walking(stack[u][i])
             PROVE  Given(stack[u][i], appenders', out)
  BY <1>1, SkippedOrGiven DEF Given
<1>2. stack[u][i].backend \in Backends
  BY <1>1, StackType DEF Frames
<1>3. stack[u][i].backend # b
  BY <1>1, WalkingGuards, AdminAlone
<1>4. appenders'[stack[u][i].backend] = appenders[stack[u][i].backend]
  BY <1>1, <1>2, <1>3 DEF TypeOK
<1>5. Given(stack[u][i], appenders, out)
  BY SkippedOrGiven
<1> QED
  BY <1>4, <1>5 DEF Given

LEMMA RemoveAppenderKeepsGiven ==
    ASSUME IInv, NothingSkipped, NEW t \in Threads, NEW b \in Backends,
           NEW a, RemoveAppender(t, b, a)
    PROVE  NothingSkipped'
<1>1. /\ TypeOK /\ appenders' = [appenders EXCEPT ![b] = @ \ {a}]
      /\ UNCHANGED <<stack, out>>
  BY DEF IInv, RemoveAppender
<1>2. \A c \in Backends : appenders'[c] \subseteq appenders[c]
  BY <1>1 DEF TypeOK
<1> SUFFICES ASSUME NEW u \in Threads, NEW i \in DOMAIN stack[u]
             PROVE  Given(stack[u][i], appenders', out)
  BY <1>1, SkippedOrGiven
<1>3. stack[u][i].backend \in Backends
  BY <1>1, StackType DEF Frames
<1>4. Given(stack[u][i], appenders, out)
  BY SkippedOrGiven
<1> QED
  BY <1>2, <1>3, <1>4 DEF Given

LEMMA RestKeepsGiven ==
    ASSUME NothingSkipped, UNCHANGED <<stack, appenders, out>>
    PROVE  NothingSkipped'
BY DEF NothingSkipped, Received

-----------------------------------------------------------------------------
(* The theorems *)

LEMMA StepKeepsGiven ==
    ASSUME IInv, RInv, NothingSkipped, NEW t \in Threads, Step(t)
    PROVE  NothingSkipped'
BY AcquireKeepsGiven, DispatchKeepsGiven, SinkKeepsGiven, ForwardKeepsGiven,
   FinishKeepsGiven DEF Step

LEMMA StepKeepsGuards ==
    ASSUME IInv, RInv, GuardsFirst, NEW t \in Threads, Step(t)
    PROVE  GuardsFirst'
<1>1. RootStep(t) /\ guards' = guards
  BY StepRoots
<1>2. \A u \in Threads : stack'[u] # <<>> =>
         stack[u] # <<>> /\ stack'[u][1].backend = stack[u][1].backend
  BY <1>1 DEF RootStep, OnlyStackOf
<1> QED
  BY <1>1, <1>2 DEF GuardsFirst

(* A thread that calls the library has no call in progress. *)
LEMMA ClientKeepsGuards ==
    ASSUME IInv, GuardsFirst, NEW t \in Threads, Client(t)
    PROVE  GuardsFirst'
<1>1. ASSUME NEW b \in Backends, NEW p \in Priorities, BeginLog(t, b, p)
      PROVE  GuardsFirst'
  <2> DEFINE msg == [id |-> calls + 1, thread |-> t, backend |-> b,
                     priority |-> p]
  <2>1. /\ stack' = [stack EXCEPT ![t] = <<NewFrame(b, msg)>>]
        /\ guards' = guards /\ stack \in [Threads -> Seq(Frames)]
        /\ Disciplined => \A c \in Backends \ {b} : guards[t][c] = 0
    BY <1>1 DEF IInv, TypeOK, BeginLog, MayUse
  <2> HIDE DEF msg
  <2>2. stack'[t][1].backend = b
    BY <2>1 DEF NewFrame
  <2>3. \A u \in Threads \ {t} : stack'[u] = stack[u]
    BY <2>1
  <2> QED BY <2>1, <2>2, <2>3 DEF GuardsFirst
<1>2. ASSUME NEW b \in Backends, RetrieveLock(t, b) \/ ReleaseLock(t, b)
      PROVE  GuardsFirst'
  <2>1. stack[t] = <<>> /\ stack' = stack
    BY <1>2 DEF RetrieveLock, ReleaseLock, MayUse, Idle
  <2>2. \A u \in Threads \ {t} : guards'[u] = guards[u]
    BY <1>2 DEF RetrieveLock, ReleaseLock, IInv, TypeOK
  <2> QED BY <2>1, <2>2 DEF GuardsFirst
<1>3. CASE UNCHANGED <<stack, guards>>
  BY <1>3 DEF GuardsFirst
<1> QED
  BY <1>1, <1>2, <1>3 DEF Client, SetPriority, AddAppender, RemoveAppender

LEMMA InitDelivery == Init => DInv
<1> SUFFICES ASSUME Init PROVE DInv
  OBVIOUS
<1>1. \A t \in Threads : stack[t] = <<>>
  BY DEF Init
<1>2. \A s \in Sinks : DOMAIN out[s] = {}
  BY DEF Init
<1>3. GuardsFirst /\ Rooted /\ OutputWalks /\ NothingSkipped
  BY <1>1 DEF GuardsFirst, Rooted, OutputWalks, NothingSkipped
<1>4. Numbered /\ Passed /\ OrderAgreement
  BY <1>2 DEF Numbered, Passed, OrderAgreement, OutputOf, Before
<1> QED
  BY <1>3, <1>4 DEF DInv

LEMMA RestIsDelivered ==
    ASSUME OrderInv, NothingSkipped, UNCHANGED <<stack, appenders, out, calls>>
    PROVE  OrderInv' /\ NothingSkipped'
<1>1. UNCHANGED <<stack, out, calls>> /\ UNCHANGED <<stack, appenders, out>>
  OBVIOUS
<1> QED
  BY <1>1, RestKeepsOrder, RestKeepsGiven

LEMMA NextDelivery == IInv /\ RInv /\ DInv /\ [Next]_vars => DInv'
<1> SUFFICES ASSUME IInv, RInv, DInv, [Next]_vars PROVE DInv'
  OBVIOUS
<1>1. GuardsFirst /\ OrderInv /\ NothingSkipped
  BY DEF DInv, OrderInv
<1>2. ASSUME NEW t \in Threads, Step(t)
      PROVE  GuardsFirst' /\ OrderInv' /\ NothingSkipped'
  BY <1>1, <1>2, StepKeepsGuards, StepKeepsOrder, StepKeepsGiven
<1>3. ASSUME NEW t \in Threads, Client(t)
      PROVE  GuardsFirst' /\ OrderInv' /\ NothingSkipped'
  <2>1. GuardsFirst'
    BY <1>1, <1>3, ClientKeepsGuards
  <2>2. ASSUME NEW b \in Backends, NEW p \in Priorities, BeginLog(t, b, p)
        PROVE  OrderInv' /\ NothingSkipped'
    BY <1>1, <2>2, BeginLogKeepsOrder, BeginLogKeepsGiven
  <2>3. ASSUME NEW b \in Backends, NEW a \in Appenders,
               AddAppender(t, b, a) \/ RemoveAppender(t, b, a)
        PROVE  OrderInv' /\ NothingSkipped'
    <3>1. UNCHANGED <<stack, out, calls>>
      BY <2>3 DEF AddAppender, RemoveAppender
    <3> QED BY <1>1, <2>3, <3>1, RestKeepsOrder, AddAppenderKeepsGiven,
               RemoveAppenderKeepsGiven
  <2>4. CASE UNCHANGED <<stack, appenders, out, calls>>
    BY <1>1, <2>1, <2>4, RestIsDelivered
  <2> QED BY <1>3, <2>1, <2>2, <2>3, <2>4
             DEF Client, RetrieveLock, ReleaseLock, SetPriority
<1>4. ASSUME UNCHANGED <<stack, guards, appenders, out, calls>>
      PROVE  GuardsFirst' /\ OrderInv' /\ NothingSkipped'
  <2>1. GuardsFirst'
    BY <1>1, <1>4 DEF GuardsFirst
  <2>2. OrderInv' /\ NothingSkipped'
    <3>1. UNCHANGED <<stack, appenders, out, calls>>
      BY <1>4
    <3> QED BY <1>1, <3>1, RestIsDelivered
  <2> QED BY <2>1, <2>2
<1>5. Unlocked \/ UNCHANGED vars
         => UNCHANGED <<stack, guards, appenders, out, calls>>
  BY DEF Unlocked, SetThreshold, ConstructForward, ConstructForwardWith, vars
<1>6. GuardsFirst' /\ OrderInv' /\ NothingSkipped'
  <2>1. CASE \E t \in Threads : Step(t) \/ Client(t)
    BY <1>2, <1>3, <2>1
  <2>2. CASE Unlocked \/ UNCHANGED vars
    <3>1. UNCHANGED <<stack, guards, appenders, out, calls>>
      BY <1>5, <2>2
    <3> QED BY <1>4, <3>1
  <2> QED BY <2>1, <2>2 DEF Next
<1> QED
  BY <1>6 DEF DInv, OrderInv

(* The inductive invariant about deliveries and about Locks of clients.    *)
THEOREM DeliveryInvariance == Spec => []DInv
BY InitDelivery, NextDelivery, Invariance, RefinementInvariance, PTL DEF Spec

(***************************************************************************)
(* No set of threads waits for mutexes that only its own members hold, in  *)
(* any wiring without loops, as long as no client uses one backend while   *)
(* it has the Lock of another.                                             *)
(***************************************************************************)
THEOREM DeadlockFree == Disciplined => (Spec => []NoDeadlock)
<1> SUFFICES ASSUME Disciplined PROVE Spec => []NoDeadlock
  OBVIOUS
<1>1. IInv /\ RInv /\ DInv => NoDeadlock
  BY NoCycle DEF DInv
<1> QED
  BY <1>1, Invariance, RefinementInvariance, DeliveryInvariance, PTL

(* No sink is ever added to two backends. *)
OneHome ==
    \A b, c \in Backends : b # c => Wiring[b] \cap Wiring[c] \cap Sinks = {}

(***************************************************************************)
(* Two threads are never in the doLog of the same sink, provided that no   *)
(* sink is ever attached to two backends.                                  *)
(***************************************************************************)
THEOREM SinksAreExclusive == OneHome => (Spec => []SinkExclusion)
<1> SUFFICES ASSUME OneHome PROVE Spec => []SinkExclusion
  OBVIOUS
<1>1. IInv /\ RInv => SinkExclusion
  <2> SUFFICES ASSUME IInv, RInv,
                      NEW t \in Threads, NEW u \in Threads, NEW s \in Sinks,
                      t # u, InSink(t, s), InSink(u, s)
               PROVE  FALSE
    BY DEF SinkExclusion
  <2>1. ASSUME NEW v \in Threads, InSink(v, s)
        PROVE  /\ Top(v).backend \in Backends
               /\ s \in Wiring[Top(v).backend]
               /\ AloneWith(v, Top(v).backend)
               /\ Serves(stack[v], Top(v).backend)
    <3>1. /\ stack[v] # <<>> /\ Top(v).pc = "doLog" /\ Top(v).pos = s
          /\ Proper(stack[v]) /\ Linked(v, stack[v])
      BY <2>1, ProperStacks DEF InSink, Running, IInv, RInv
    <3>2. /\ Len(stack[v]) \in DOMAIN stack[v]
          /\ stack[v][Len(stack[v])] = Top(v)
      BY <3>1 DEF Proper, Top
    <3>3. Top(v).backend \in Backends /\ s \in Wiring[Top(v).backend]
      BY <3>1, <3>2 DEF Proper, Frames, Linked, AtWired
    <3> QED BY <3>1, <3>2, <3>3, TopAlone DEF Serves, Walking
  <2>2. Top(t).backend = Top(u).backend
    BY <2>1 DEF OneHome
  <2> QED BY <2>1, <2>2 DEF AloneWith, Unseen
<1> QED
  BY <1>1, Invariance, RefinementInvariance, PTL

(***************************************************************************)
(* A message that no threshold can reject has reached every sink attached  *)
(* at or before the iterator, whoever adds and removes appenders.          *)
(***************************************************************************)
THEOREM NoSinkIsSkipped == Spec => []NothingSkipped
<1>1. DInv => NothingSkipped
  BY DEF DInv
<1> QED
  BY <1>1, DeliveryInvariance, PTL

(***************************************************************************)
(* No two sinks, however they are reached, disagree on the order of two    *)
(* messages logged through one backend.                                    *)
(***************************************************************************)
THEOREM SinksAgree == Spec => []OrderAgreement
<1>1. DInv => OrderAgreement
  BY DEF DInv
<1> QED
  BY <1>1, DeliveryInvariance, PTL
==============================================================================
