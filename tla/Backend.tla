------------------------------ MODULE Backend ------------------------------
(***************************************************************************)
(* LogHard::Backend, its recursive mutex and its set of appenders, used by *)
(* several threads at once.                                                *)
(*                                                                         *)
(* A call of Backend::doLog is a frame on the calling thread's stack.  An  *)
(* appender is either a sink (an appender that outputs) or a forward (a    *)
(* Backend::Appender, whose doLog calls doLog of another backend and so    *)
(* pushes a second frame).  The appenders are numbers: the addresses by    *)
(* which std::set<std::shared_ptr<Appender>> is ordered and walked.        *)
(***************************************************************************)
EXTENDS Naturals, Sequences, FiniteSets

CONSTANTS
    Threads,           \* the threads of the process
    Backends,          \* the Backend objects
    Sinks,             \* addresses of the appenders that output
    Forwards,          \* addresses of the Backend::Appender objects
    Target,            \* Target[f]: the m_backend of the forward f
    Wiring,            \* Wiring[b]: the appenders clients ever add to b
    Rank,              \* witness that the wiring has no loop
    Priorities,        \* the values of enum Priority in use
    BackendDefault,    \* Priority::Normal
    AppenderDefault,   \* Priority::FullDebug
    Disciplined,       \* whether clients keep to the lock rule of MayUse
    MaxCalls,          \* bound: log calls in a behaviour
    MaxAdmin           \* bound: other client operations in a behaviour

Appenders == Sinks \cup Forwards

(***************************************************************************)
(* Backend.h has a "todo" to check for backend loops; nothing checks it,   *)
(* so the absence of loops is an assumption about the clients.             *)
(***************************************************************************)
ASSUME BackendAssumption ==
    /\ Sinks \subseteq Nat \ {0}
    /\ Forwards \subseteq Nat \ {0}
    /\ Sinks \cap Forwards = {}
    /\ Target \in [Forwards -> Backends]
    /\ Wiring \in [Backends -> SUBSET Appenders]
    /\ Priorities \subseteq Nat
    /\ BackendDefault \in Priorities
    /\ AppenderDefault \in Priorities
    /\ Disciplined \in BOOLEAN
    /\ MaxCalls \in Nat
    /\ MaxAdmin \in Nat

ASSUME AcyclicAssumption ==
    /\ Rank \in [Backends -> Nat]
    /\ \A b \in Backends : \A f \in Wiring[b] \cap Forwards :
          Rank[b] < Rank[Target[f]]

(* Any set of backends has a highest one, as there are finitely many.      *)
ASSUME HighestAssumption ==
    \A S \in SUBSET Backends : S # {} =>
       \E b \in S : \A c \in S : Rank[c] <= Rank[b]

VARIABLES
    holds,       \* holds[t][b]: how often thread t has locked b's m_mutex
    guards,      \* guards[t][b]: Backend::Lock objects t has retrieved
    appenders,   \* appenders[b]: m_appenders
    priority,    \* priority[b]: m_priority
    threshold,   \* threshold[a]: the atomic m_priority of the appender a
    constructed, \* the forwards constructed so far
    stack,       \* stack[t]: the frames of Backend::doLog on t's call stack
    out,         \* out[s]: what the sink s has output, in order
    calls,       \* number of log calls made
    admin        \* number of other client operations made

vars == <<holds, guards, appenders, priority, threshold, constructed,
          stack, out, calls, admin>>

-----------------------------------------------------------------------------
(* Types *)

Messages == [id : Nat, thread : Threads, backend : Backends,
             priority : Priorities]

(* Where a doLog call is: waiting for the mutex, rejected by the backend's *)
(* priority, between two appenders, inside the doLog of the sink or        *)
(* forward at pos, or waiting for the backend that pos forwards to.        *)
Phases == {"lock", "skip", "iterate", "doLog", "await"}

Frames == [backend : Backends, msg : Messages, pc : Phases, pos : Nat]

TypeOK ==
    /\ holds \in [Threads -> [Backends -> Nat]]
    /\ guards \in [Threads -> [Backends -> Nat]]
    /\ appenders \in [Backends -> SUBSET Appenders]
    /\ priority \in [Backends -> Priorities]
    /\ threshold \in [Appenders -> Priorities]
    /\ constructed \subseteq Forwards
    /\ stack \in [Threads -> Seq(Frames)]
    /\ out \in [Sinks -> Seq(Messages)]
    /\ calls \in Nat
    /\ admin \in Nat

-----------------------------------------------------------------------------
(* std::recursive_mutex and the call stack *)

(* Mutant: a plain mutex, which keeps out its owner too *)
CanLockOnce(t, b) == \A u \in Threads : holds[u][b] = 0

(* A recursive mutex keeps out every thread but its owner. *)
CanLock(t, b) == \A u \in Threads \ {t} : holds[u][b] = 0

Top(t) == stack[t][Len(stack[t])]

Running(t, phase) == stack[t] # <<>> /\ Top(t).pc = phase

Idle(t) == stack[t] = <<>>

(* t's stack with the innermost frame's pc and pos replaced *)
WithTop(t, pc, pos) ==
    [stack[t] EXCEPT ![Len(stack[t])] = [@ EXCEPT !.pc = pc, !.pos = pos]]

(* The frame of a doLog(time, priority, message) call that has just begun *)
NewFrame(b, msg) == [backend |-> b, msg |-> msg, pc |-> "lock", pos |-> 0]

(***************************************************************************)
(* The lock rule of clients: while a thread has a Backend::Lock it only    *)
(* uses the backend it has locked.  (Logger::retrieveBackendLock returns   *)
(* the lock of the Logger's own backend.)                                  *)
(***************************************************************************)
MayUse(t, b) ==
    /\ Idle(t)
    /\ Disciplined => \A c \in Backends \ {b} : guards[t][c] = 0

-----------------------------------------------------------------------------
(* Backend::doLog, step by step *)

(* ~MessageBuilder calls m_backend->doLog(tl_time, m_priority, tl_message) *)
BeginLog(t, b, p) ==
    /\ MayUse(t, b)
    /\ calls < MaxCalls
    /\ calls' = calls + 1
    /\ LET msg == [id |-> calls + 1, thread |-> t, backend |-> b,
                   priority |-> p]
       IN  stack' = [stack EXCEPT ![t] = <<NewFrame(b, msg)>>]
    /\ UNCHANGED <<holds, guards, appenders, priority, threshold,
                   constructed, out, admin>>

(* Mutant: the lock_guard is an unnamed temporary, gone at once *)
AcquireMomentarily(t) ==
    /\ Running(t, "lock")
    /\ CanLock(t, Top(t).backend)
    /\ stack' = [stack EXCEPT ![t] = WithTop(t,
                    IF Top(t).msg.priority <= priority[Top(t).backend]
                    THEN "iterate" ELSE "skip", 0)]
    /\ UNCHANGED <<holds, guards, appenders, priority, threshold,
                   constructed, out, calls, admin>>

(* lock_guard, then "if (priority <= m_priority)" *)
Acquire(t) ==
    /\ Running(t, "lock")
    /\ LET f == Top(t) IN
       /\ CanLock(t, f.backend)
       /\ holds' = [holds EXCEPT ![t][f.backend] = @ + 1]
       /\ stack' = [stack EXCEPT ![t] = WithTop(t,
                        IF f.msg.priority <= priority[f.backend]
                        THEN "iterate" ELSE "skip", 0)]
    /\ UNCHANGED <<guards, appenders, priority, threshold, constructed,
                   out, calls, admin>>

(* The appenders the range-for over m_appenders has still to visit *)
Rest(f) == {a \in appenders[f.backend] : a > f.pos}

(* Mutant: Appender::log tests "<" *)
DispatchStrict(t) ==
    /\ Running(t, "iterate")
    /\ \E a \in Rest(Top(t)) :
       /\ \A c \in Rest(Top(t)) : a <= c
       /\ stack' = [stack EXCEPT ![t] = WithTop(t,
                        IF Top(t).msg.priority < threshold[a]
                        THEN "doLog" ELSE "iterate", a)]
    /\ UNCHANGED <<holds, guards, appenders, priority, threshold,
                   constructed, out, calls, admin>>

(* The next a of the range-for, and Appender::log's test of m_priority *)
Dispatch(t) ==
    /\ Running(t, "iterate")
    /\ \E a \in Rest(Top(t)) :
       /\ \A c \in Rest(Top(t)) : a <= c
       /\ stack' = [stack EXCEPT ![t] = WithTop(t,
                        IF Top(t).msg.priority <= threshold[a]
                        THEN "doLog" ELSE "iterate", a)]
    /\ UNCHANGED <<holds, guards, appenders, priority, threshold,
                   constructed, out, calls, admin>>

(* doLog of an appender that outputs, and its return to the range-for *)
SinkDoLog(t) ==
    /\ Running(t, "doLog")
    /\ Top(t).pos \in Sinks
    /\ out' = [out EXCEPT ![Top(t).pos] = Append(@, Top(t).msg)]
    /\ stack' = [stack EXCEPT ![t] = WithTop(t, "iterate", Top(t).pos)]
    /\ UNCHANGED <<holds, guards, appenders, priority, threshold,
                   constructed, calls, admin>>

(* Backend::Appender::doLog calls m_backend->doLog(time, priority, message) *)
ForwardDoLog(t) ==
    /\ Running(t, "doLog")
    /\ Top(t).pos \in Forwards
    /\ stack' = [stack EXCEPT ![t] =
                    Append(WithTop(t, "await", Top(t).pos),
                           NewFrame(Target[Top(t).pos], Top(t).msg))]
    /\ UNCHANGED <<holds, guards, appenders, priority, threshold,
                   constructed, out, calls, admin>>

(* The stack after the innermost doLog has returned: a caller that waited  *)
(* for it goes on with its own range-for.                                  *)
Popped(t) ==
    LET n == Len(stack[t])
    IN  [i \in 1 .. (n - 1) |->
            IF i = n - 1 THEN [stack[t][i] EXCEPT !.pc = "iterate"]
                         ELSE stack[t][i]]

(* Mutant: an early return on the rejected message leaves the mutex locked *)
FinishLeaky(t) ==
    /\ stack[t] # <<>>
    /\ \/ /\ Top(t).pc = "skip"
          /\ UNCHANGED holds
       \/ /\ Top(t).pc = "iterate"
          /\ Rest(Top(t)) = {}
          /\ holds' = [holds EXCEPT ![t][Top(t).backend] = @ - 1]
    /\ stack' = [stack EXCEPT ![t] = Popped(t)]
    /\ UNCHANGED <<guards, appenders, priority, threshold, constructed,
                   out, calls, admin>>

(* End of the range-for (or of the skipped if): ~lock_guard and return *)
Finish(t) ==
    /\ stack[t] # <<>>
    /\ \/ Top(t).pc = "skip"
       \/ Top(t).pc = "iterate" /\ Rest(Top(t)) = {}
    /\ holds' = [holds EXCEPT ![t][Top(t).backend] = @ - 1]
    /\ stack' = [stack EXCEPT ![t] = Popped(t)]
    /\ UNCHANGED <<guards, appenders, priority, threshold, constructed,
                   out, calls, admin>>

Step(t) ==
    \/ Acquire(t)
    \/ Dispatch(t)
    \/ SinkDoLog(t)
    \/ ForwardDoLog(t)
    \/ Finish(t)

-----------------------------------------------------------------------------
(* The other operations, each a critical section of its own *)

Administer == admin < MaxAdmin /\ admin' = admin + 1

(* Mutant: setPriority takes no lock *)
SetPriorityUnlocked(t, b, p) ==
    /\ Administer
    /\ MayUse(t, b)
    /\ priority' = [priority EXCEPT ![b] = p]
    /\ UNCHANGED <<holds, guards, appenders, threshold, constructed, stack,
                   out, calls>>

(* Backend::setPriority *)
SetPriority(t, b, p) ==
    /\ Administer
    /\ MayUse(t, b)
    /\ CanLock(t, b)
    /\ priority' = [priority EXCEPT ![b] = p]
    /\ UNCHANGED <<holds, guards, appenders, threshold, constructed, stack,
                   out, calls>>

(* Backend::addAppender *)
AddAppender(t, b, a) ==
    /\ Administer
    /\ MayUse(t, b)
    /\ CanLock(t, b)
    /\ a \in Wiring[b]
    /\ a \in Sinks \cup constructed
    /\ appenders' = [appenders EXCEPT ![b] = @ \cup {a}]
    /\ UNCHANGED <<holds, guards, priority, threshold, constructed, stack,
                   out, calls>>

(* Mutant: removeAppender takes no lock *)
RemoveAppenderUnlocked(t, b, a) ==
    /\ Administer
    /\ MayUse(t, b)
    /\ appenders' = [appenders EXCEPT ![b] = @ \ {a}]
    /\ UNCHANGED <<holds, guards, priority, threshold, constructed, stack,
                   out, calls>>

(* Backend::removeAppender *)
RemoveAppender(t, b, a) ==
    /\ Administer
    /\ MayUse(t, b)
    /\ CanLock(t, b)
    /\ appenders' = [appenders EXCEPT ![b] = @ \ {a}]
    /\ UNCHANGED <<holds, guards, priority, threshold, constructed, stack,
                   out, calls>>

(* Appender::setPriority: an atomic store, under no lock *)
SetThreshold(a, p) ==
    /\ Administer
    /\ a \in Sinks \cup constructed
    /\ threshold' = [threshold EXCEPT ![a] = p]
    /\ UNCHANGED <<holds, guards, appenders, priority, constructed, stack,
                   out, calls>>

(* Backend::Appender(backend): copies the backend's m_priority, which it   *)
(* reads under no lock; it sees the value before or after a setPriority    *)
(* that runs at the same time.                                             *)
ConstructForward(f) ==
    /\ Administer
    /\ f \in Forwards \ constructed
    /\ constructed' = constructed \cup {f}
    /\ threshold' = [threshold EXCEPT ![f] = priority[Target[f]]]
    /\ UNCHANGED <<holds, guards, appenders, priority, stack, out, calls>>

(* Backend::Appender(backend, priority) *)
ConstructForwardWith(f, p) ==
    /\ Administer
    /\ f \in Forwards \ constructed
    /\ constructed' = constructed \cup {f}
    /\ threshold' = [threshold EXCEPT ![f] = p]
    /\ UNCHANGED <<holds, guards, appenders, priority, stack, out, calls>>

(* Logger::retrieveBackendLock: the caller gets a unique_lock *)
RetrieveLock(t, b) ==
    /\ Administer
    /\ MayUse(t, b)
    /\ CanLock(t, b)
    /\ holds' = [holds EXCEPT ![t][b] = @ + 1]
    /\ guards' = [guards EXCEPT ![t][b] = @ + 1]
    /\ UNCHANGED <<appenders, priority, threshold, constructed, stack, out,
                   calls>>

(* Mutant: a lock that is released again after it has been released *)
ReleaseLockAgain(t, b) ==
    /\ Idle(t)
    /\ holds' = [holds EXCEPT ![t][b] = @ - 1]
    /\ guards' = [guards EXCEPT ![t][b] = @ - 1]
    /\ UNCHANGED <<appenders, priority, threshold, constructed, stack, out,
                   calls, admin>>

(* Destruction of such a unique_lock, by the thread that retrieved it *)
ReleaseLock(t, b) ==
    /\ Idle(t)
    /\ guards[t][b] > 0
    /\ holds' = [holds EXCEPT ![t][b] = @ - 1]
    /\ guards' = [guards EXCEPT ![t][b] = @ - 1]
    /\ UNCHANGED <<appenders, priority, threshold, constructed, stack, out,
                   calls, admin>>

-----------------------------------------------------------------------------

Init ==
    /\ holds = [t \in Threads |-> [b \in Backends |-> 0]]
    /\ guards = [t \in Threads |-> [b \in Backends |-> 0]]
    /\ appenders = [b \in Backends |-> {}]
    /\ priority = [b \in Backends |-> BackendDefault]
    /\ threshold = [a \in Appenders |-> AppenderDefault]
    /\ constructed = {}
    /\ stack = [t \in Threads |-> <<>>]
    /\ out = [s \in Sinks |-> <<>>]
    /\ calls = 0
    /\ admin = 0

Client(t) ==
    \E b \in Backends :
       \/ RetrieveLock(t, b)
       \/ ReleaseLock(t, b)
       \/ \E p \in Priorities : BeginLog(t, b, p) \/ SetPriority(t, b, p)
       \/ \E a \in Appenders : AddAppender(t, b, a) \/ RemoveAppender(t, b, a)

Unlocked ==
    \/ \E f \in Forwards : ConstructForward(f)
    \/ \E a \in Appenders, p \in Priorities : SetThreshold(a, p)
    \/ \E f \in Forwards, p \in Priorities : ConstructForwardWith(f, p)

Next ==
    \/ \E t \in Threads : Step(t) \/ Client(t)
    \/ Unlocked

Spec == Init /\ [][Next]_vars

(***************************************************************************)
(* A thread inside the library keeps running, and a client drops the locks *)
(* it has retrieved.  No fairness makes a client begin a call, and none    *)
(* but weak fairness is given to the acquisition of a mutex: a             *)
(* std::recursive_mutex does not queue its waiters.                        *)
(***************************************************************************)
FairSpec ==
    /\ Spec
    /\ \A t \in Threads : WF_vars(Step(t))
    /\ \A t \in Threads, b \in Backends : WF_vars(ReleaseLock(t, b))

-----------------------------------------------------------------------------
(* Properties *)

(* t is between the lock_guard's constructor and destructor in doLog of b *)
InDoLog(t, b) ==
    \E i \in DOMAIN stack[t] :
       stack[t][i].backend = b /\ stack[t][i].pc # "lock"

(***************************************************************************)
(* Never do two threads run the guarded part of one backend's doLog, and   *)
(* none runs it while another holds that backend's Lock.                   *)
(***************************************************************************)
MutualExclusion ==
    \A t, u \in Threads : \A b \in Backends :
       t # u => ~ (InDoLog(t, b) /\ (InDoLog(u, b) \/ guards[u][b] > 0))

(***************************************************************************)
(* A thread owns a mutex exactly as often as it has Lock objects of it and *)
(* doLog calls past its lock_guard: no path through doLog, the rejected    *)
(* message and the recursion through forwards included, leaks or           *)
(* over-releases it.                                                       *)
(***************************************************************************)
Guarding(frames, b) ==
    {i \in DOMAIN frames : frames[i].backend = b /\ frames[i].pc # "lock"}

LockAccounting ==
    \A t \in Threads : \A b \in Backends :
       holds[t][b] = guards[t][b] + Cardinality(Guarding(stack[t], b))

Walking(f) == f.pc \in {"iterate", "doLog", "await"}

(***************************************************************************)
(* The test "priority <= m_priority" that let a message in still holds at  *)
(* every later moment of the walk, whatever other threads set.             *)
(***************************************************************************)
FilterStable ==
    \A t \in Threads : \A i \in DOMAIN stack[t] :
       LET f == stack[t][i]
       IN  Walking(f) => f.msg.priority <= priority[f.backend]

(***************************************************************************)
(* The iterator of the range-for never dangles: the appender it stands on  *)
(* stays in m_appenders, and so stays alive, until the iterator moves on.  *)
(***************************************************************************)
IteratorValid ==
    \A t \in Threads : \A i \in DOMAIN stack[t] :
       LET f == stack[t][i]
       IN  Walking(f) /\ f.pos # 0 => f.pos \in appenders[f.backend]

(***************************************************************************)
(* A message that no threshold in use can reject has reached every sink    *)
(* that is attached at or before the iterator, one it is being output to   *)
(* excepted.  At the end of a walk that is every attached sink: nothing    *)
(* attached is passed over, even when appenders come and go between calls. *)
(***************************************************************************)
Received(s, m) == \E k \in DOMAIN out[s] : out[s][k] = m

NothingSkipped ==
    \A t \in Threads : \A i \in DOMAIN stack[t] :
       LET f == stack[t][i]
       IN  /\ Walking(f)
           /\ \A p \in Priorities : f.msg.priority <= p
           => \A s \in appenders[f.backend] \cap Sinks :
                 s <= f.pos /\ ~ (f.pc = "doLog" /\ s = f.pos)
                    => Received(s, f.msg)

(***************************************************************************)
(* Messages logged through one backend reach all sinks, those behind its   *)
(* forwards included, in one common order: no two sinks disagree.          *)
(***************************************************************************)
Before(s, m, n) ==
    \E j, k \in DOMAIN out[s] : j < k /\ out[s][j] = m /\ out[s][k] = n

OutputOf(s) == {out[s][k] : k \in DOMAIN out[s]}

OrderAgreement ==
    \A r, s \in Sinks : \A m, n \in OutputOf(r) \cap OutputOf(s) :
       m.backend = n.backend /\ m # n
          => ~ (Before(r, m, n) /\ Before(s, n, m))

(***************************************************************************)
(* Two threads are never in the doLog of the same sink.  Only the mutex of *)
(* the backend protects a sink (EarlyAppender has none of its own), so     *)
(* this needs every sink to be attached to one backend only.               *)
(***************************************************************************)
InSink(t, s) == Running(t, "doLog") /\ Top(t).pos = s

SinkExclusion ==
    \A t, u \in Threads : \A s \in Sinks :
       t # u => ~ (InSink(t, s) /\ InSink(u, s))

(***************************************************************************)
(* No set of threads waits for mutexes that only its own members hold.     *)
(***************************************************************************)
Blocked(t) == Running(t, "lock") /\ ~ CanLock(t, Top(t).backend)

NoDeadlock ==
    ~ \E W \in (SUBSET Threads) \ {{}} :
         \A t \in W : /\ Blocked(t)
                     /\ \E u \in W : holds[u][Top(t).backend] > 0

(***************************************************************************)
(* m_appenders does not change while a range-for walks it.                 *)
(***************************************************************************)
StableWalk ==
    [][\A b \in Backends :
          (\E t \in Threads : \E i \in DOMAIN stack[t] :
              stack[t][i].backend = b /\ Walking(stack[t][i]))
             => appenders'[b] = appenders[b]]_vars

(***************************************************************************)
(* Every call of doLog returns, when finitely many calls compete.          *)
(***************************************************************************)
EveryCallReturns ==
    \A t \in Threads : ~ Idle(t) ~> Idle(t)
=============================================================================
