--------------------------- MODULE BackendProofs ---------------------------
(***************************************************************************)
(* Proofs about Backend, for any number of threads, backends and appenders *)
(* and any wiring.                                                         *)
(*                                                                         *)
(* The type invariant is not inductive: that Finish and ReleaseLock do not *)
(* drive holds below zero rests on LockAccounting.  Mutual exclusion rests *)
(* on LockAccounting and on Exclusive, which is what CanLock guards.       *)
(***************************************************************************)
EXTENDS Backend, FiniteSetTheorems, SequenceTheorems, TLAPS

(* A mutex has at most one owner. *)
Exclusive ==
    \A t, u \in Threads : \A b \in Backends :
       t # u => holds[t][b] = 0 \/ holds[u][b] = 0

(* The innermost frame of a stack, and no other, runs. *)
CallChain ==
    \A t \in Threads : \A i \in DOMAIN stack[t] :
       stack[t][i].pc = "await" <=> i # Len(stack[t])

IInv ==
    /\ TypeOK
    /\ CallChain
    /\ LockAccounting
    /\ Exclusive
    /\ FilterStable
    /\ IteratorValid

-----------------------------------------------------------------------------
(* Frames and stacks *)

LEMMA StackType ==
    ASSUME TypeOK, NEW t \in Threads
    PROVE  /\ Len(stack[t]) \in Nat
           /\ DOMAIN stack[t] = 1 .. Len(stack[t])
           /\ \A i \in 1 .. Len(stack[t]) : stack[t][i] \in Frames
           /\ stack[t] # <<>> => /\ Len(stack[t]) \in 1 .. Len(stack[t])
                                 /\ Top(t) \in Frames
  BY DEF TypeOK, Top

LEMMA WithTopShape ==
    ASSUME TypeOK, NEW t \in Threads, stack[t] # <<>>,
           NEW pc \in Phases, NEW pos \in Nat
    PROVE  /\ WithTop(t, pc, pos) \in Seq(Frames)
           /\ Len(WithTop(t, pc, pos)) = Len(stack[t])
           /\ \A i \in 1 .. Len(stack[t]) :
                 WithTop(t, pc, pos)[i] =
                    IF i = Len(stack[t])
                    THEN [stack[t][i] EXCEPT !.pc = pc, !.pos = pos]
                    ELSE stack[t][i]
<1> DEFINE n == Len(stack[t])
           f == [stack[t][n] EXCEPT !.pc = pc, !.pos = pos]
<1>1. stack[t] \in Seq(Frames) /\ n \in 1 .. n /\ stack[t][n] \in Frames
  BY StackType DEF TypeOK
<1>2. f \in Frames
  BY <1>1 DEF Frames
<1>3. WithTop(t, pc, pos) = [stack[t] EXCEPT ![n] = f]
  BY DEF WithTop
<1>4. /\ [stack[t] EXCEPT ![n] = f] \in Seq(Frames)
      /\ Len([stack[t] EXCEPT ![n] = f]) = n
      /\ \A i \in 1 .. n : [stack[t] EXCEPT ![n] = f][i]
                              = IF i = n THEN f ELSE stack[t][i]
  <2> HIDE DEF f
  <2> QED BY <1>1, <1>2, ExceptSeq
<1> QED
  BY <1>3, <1>4

LEMMA PoppedShape ==
    ASSUME TypeOK, NEW t \in Threads, stack[t] # <<>>
    PROVE  /\ Popped(t) \in Seq(Frames)
           /\ Len(Popped(t)) = Len(stack[t]) - 1
           /\ \A i \in 1 .. Len(stack[t]) - 1 :
                 Popped(t)[i] = IF i = Len(stack[t]) - 1
                                THEN [stack[t][i] EXCEPT !.pc = "iterate"]
                                ELSE stack[t][i]
<1> DEFINE n == Len(stack[t])
           F(i) == IF i = n - 1 THEN [stack[t][i] EXCEPT !.pc = "iterate"]
                                ELSE stack[t][i]
<1>1. n \in Nat /\ n >= 1 /\ \A i \in 1 .. n : stack[t][i] \in Frames
  BY StackType
<1>2. \A i \in 1 .. n - 1 : F(i) \in Frames
  BY <1>1 DEF Frames, Phases
<1>3. n - 1 \in Nat
  BY <1>1
<1>4. [i \in 1 .. n - 1 |-> F(i)] \in Seq(Frames)
  <2> HIDE DEF F
  <2> QED BY <1>2, <1>3
<1>5. Len([i \in 1 .. n - 1 |-> F(i)]) = n - 1
  BY <1>3
<1> QED
  BY <1>4, <1>5 DEF Popped

(* The stack of t alone changes, to s. *)
LEMMA StackUpdate ==
    ASSUME TypeOK, NEW t \in Threads, NEW s \in Seq(Frames),
           stack' = [stack EXCEPT ![t] = s]
    PROVE  /\ stack' \in [Threads -> Seq(Frames)]
           /\ stack'[t] = s
           /\ \A u \in Threads \ {t} : stack'[u] = stack[u]
  BY DEF TypeOK

(* The stacks r and s are of the same backends and differ at n only. *)
ChangedAt(r, s, n) ==
    /\ n \in DOMAIN r
    /\ DOMAIN s = DOMAIN r
    /\ s[n].backend = r[n].backend
    /\ \A i \in DOMAIN r : i # n => s[i] = r[i]

(* Changing the frame n of a stack, but not its backend, and so that it is *)
(* past its lock_guard, makes n a guarded frame and no other change.       *)
LEMMA GuardingUpdate ==
    ASSUME NEW r, NEW s, NEW n, ChangedAt(r, s, n)
    PROVE  /\ \A b : b # r[n].backend => Guarding(s, b) = Guarding(r, b)
           /\ s[n].pc # "lock" => Guarding(s, r[n].backend)
                                     = Guarding(r, r[n].backend) \cup {n}
<1>1. ASSUME NEW b, b # r[n].backend
      PROVE  Guarding(s, b) = Guarding(r, b)
  <2>1. \A i \in DOMAIN r : s[i].backend = b /\ s[i].pc # "lock"
                          <=> r[i].backend = b /\ r[i].pc # "lock"
    BY <1>1 DEF ChangedAt
  <2> QED BY <2>1 DEF Guarding, ChangedAt
<1>2. ASSUME s[n].pc # "lock"
      PROVE  Guarding(s, r[n].backend) = Guarding(r, r[n].backend) \cup {n}
  <2>1. \A i \in DOMAIN r :
           s[i].backend = r[n].backend /\ s[i].pc # "lock"
              <=> (r[i].backend = r[n].backend /\ r[i].pc # "lock") \/ i = n
    BY <1>2 DEF ChangedAt
  <2> QED BY <2>1 DEF Guarding, ChangedAt
<1> QED
  BY <1>1, <1>2

(* The step changes t's innermost frame, to pc and pos, and no other. *)
TopBecomes(t, pc, pos) ==
    /\ stack' \in [Threads -> Seq(Frames)]
    /\ \A u \in Threads : /\ Len(stack'[u]) = Len(stack[u])
                           /\ DOMAIN stack'[u] = DOMAIN stack[u]
    /\ \A u \in Threads : \A i \in DOMAIN stack[u] :
          u # t \/ i # Len(stack[t]) => stack'[u][i] = stack[u][i]
    /\ Len(stack[t]) \in DOMAIN stack[t]
    /\ stack[t][Len(stack[t])] = Top(t)
    /\ stack'[t][Len(stack[t])].backend = Top(t).backend
    /\ stack'[t][Len(stack[t])].msg = Top(t).msg
    /\ stack'[t][Len(stack[t])].pc = pc
    /\ stack'[t][Len(stack[t])].pos = pos
    /\ \A u \in Threads \ {t} : stack'[u] = stack[u]
    /\ \A b : b # Top(t).backend
                 => Guarding(stack'[t], b) = Guarding(stack[t], b)
    /\ pc # "lock" =>
          Guarding(stack'[t], Top(t).backend)
             = Guarding(stack[t], Top(t).backend) \cup {Len(stack[t])}

LEMMA TopChange ==
    ASSUME TypeOK, NEW t \in Threads, stack[t] # <<>>,
           NEW pc \in Phases, NEW pos \in Nat,
           stack' = [stack EXCEPT ![t] = WithTop(t, pc, pos)]
    PROVE  TopBecomes(t, pc, pos)
<1> DEFINE n == Len(stack[t])
           s == WithTop(t, pc, pos)
<1>1. /\ s \in Seq(Frames) /\ Len(s) = n /\ DOMAIN s = 1 .. n
      /\ s[n] = [Top(t) EXCEPT !.pc = pc, !.pos = pos]
      /\ \A i \in 1 .. n : i # n => s[i] = stack[t][i]
      /\ n \in 1 .. n /\ DOMAIN stack[t] = 1 .. n /\ Top(t) \in Frames
  <2>1. s \in Seq(Frames) /\ Len(s) = n
    BY WithTopShape
  <2>2. n \in 1 .. n /\ DOMAIN stack[t] = 1 .. n /\ Top(t) \in Frames
    BY StackType
  <2>3. \A i \in 1 .. n : s[i] = IF i = n
                                 THEN [stack[t][i] EXCEPT !.pc = pc, !.pos = pos]
                                 ELSE stack[t][i]
    BY WithTopShape
  <2>4. stack[t][n] = Top(t)
    BY DEF Top
  <2> HIDE DEF s, n
  <2>5. DOMAIN s = 1 .. n
    BY <2>1
  <2>6. s[n] = [Top(t) EXCEPT !.pc = pc, !.pos = pos]
    BY <2>2, <2>3, <2>4
  <2> QED BY <2>1, <2>2, <2>3, <2>5, <2>6
<1> HIDE DEF s
<1>2. /\ stack' \in [Threads -> Seq(Frames)]
      /\ stack'[t] = s
      /\ \A u \in Threads \ {t} : stack'[u] = stack[u]
  BY <1>1, StackUpdate DEF s
<1>3. /\ s[n].backend = Top(t).backend /\ s[n].msg = Top(t).msg
      /\ s[n].pc = pc /\ s[n].pos = pos
  BY <1>1 DEF Frames
<1>4. stack[t][n] = Top(t)
  BY DEF Top
<1> HIDE DEF n
<1>5. /\ \A b : b # Top(t).backend => Guarding(s, b) = Guarding(stack[t], b)
      /\ pc # "lock" => Guarding(s, Top(t).backend)
                           = Guarding(stack[t], Top(t).backend) \cup {n}
  <2>1. ChangedAt(stack[t], s, n)
    BY <1>1, <1>3, <1>4 DEF ChangedAt
  <2>2. /\ \A b : b # stack[t][n].backend
                     => Guarding(s, b) = Guarding(stack[t], b)
        /\ s[n].pc # "lock" => Guarding(s, stack[t][n].backend)
               = Guarding(stack[t], stack[t][n].backend) \cup {n}
    BY <2>1, GuardingUpdate
  <2> QED BY <1>3, <1>4, <2>2
<1>6. \A u \in Threads : /\ Len(stack'[u]) = Len(stack[u])
                         /\ DOMAIN stack'[u] = DOMAIN stack[u]
  BY <1>1, <1>2 DEF n
<1>7. \A u \in Threads : \A i \in DOMAIN stack[u] :
         u # t \/ i # n => stack'[u][i] = stack[u][i]
  BY <1>1, <1>2
<1> QED
  BY <1>1, <1>2, <1>3, <1>4, <1>5, <1>6, <1>7 DEF n, TopBecomes

-----------------------------------------------------------------------------
(* Guarded frames and ownership *)

LEMMA GuardingFinite ==
    ASSUME TypeOK, NEW t \in Threads, NEW b
    PROVE  IsFiniteSet(Guarding(stack[t], b)) /\ Cardinality(Guarding(stack[t], b)) \in Nat
<1>1. IsFiniteSet(1 .. Len(stack[t]))
  BY StackType, FS_Interval
<1>2. Guarding(stack[t], b) \in SUBSET (1 .. Len(stack[t]))
  BY StackType DEF Guarding
<1> QED
  BY <1>1, <1>2, FS_Subset, FS_CardinalityType

(* The owner of a guarded frame has locked the frame's backend. *)
LEMMA GuardingLocks ==
    ASSUME TypeOK, LockAccounting, NEW t \in Threads, NEW b \in Backends,
           Guarding(stack[t], b) # {}
    PROVE  holds[t][b] >= 1 + guards[t][b]
<1>1. PICK i : i \in Guarding(stack[t], b)
  OBVIOUS
<1>2. /\ Cardinality(Guarding(stack[t], b) \ {i}) = Cardinality(Guarding(stack[t], b)) - 1
      /\ Cardinality(Guarding(stack[t], b) \ {i}) \in Nat
  BY <1>1, GuardingFinite, FS_RemoveElement, FS_CardinalityType
<1> QED
  BY <1>2, GuardingFinite DEF LockAccounting, TypeOK

(* CanLock keeps out a thread while another is in a guarded frame. *)
LEMMA CanLockAlone ==
    ASSUME TypeOK, LockAccounting, NEW t \in Threads, NEW b \in Backends,
           CanLock(t, b), NEW u \in Threads \ {t}
    PROVE  Guarding(stack[u], b) = {}
<1>1. holds[u][b] = 0 /\ guards[u][b] \in Nat
  BY DEF CanLock, TypeOK
<1> QED
  BY <1>1, GuardingLocks

(* A thread that may administer b, with b's mutex, is alone with it. *)
LEMMA AdminAlone ==
    ASSUME TypeOK, LockAccounting, NEW t \in Threads, NEW b \in Backends,
           Idle(t), CanLock(t, b), NEW u \in Threads
    PROVE  Guarding(stack[u], b) = {}
<1>1. CASE u = t
  BY <1>1 DEF Idle, Guarding
<1>2. CASE u # t
  BY <1>2, CanLockAlone
<1> QED
  BY <1>1, <1>2

(* A frame in its range-for is a guarded frame of its backend. *)
LEMMA WalkingGuards ==
    ASSUME NEW t \in Threads, NEW i \in DOMAIN stack[t], Walking(stack[t][i])
    PROVE  i \in Guarding(stack[t], stack[t][i].backend)
  BY DEF Walking, Guarding

-----------------------------------------------------------------------------
(* One lemma per action: it preserves IInv.                                *)

LEMMA BeginLogInv ==
    ASSUME IInv, NEW t \in Threads, NEW b \in Backends, NEW p \in Priorities,
           BeginLog(t, b, p)
    PROVE  IInv'
<1> DEFINE msg == [id |-> calls + 1, thread |-> t, backend |-> b,
                   priority |-> p]
           s == <<NewFrame(b, msg)>>
<1>1. /\ TypeOK /\ Idle(t)
      /\ stack' = [stack EXCEPT ![t] = s]
      /\ calls' = calls + 1
      /\ UNCHANGED <<holds, guards, appenders, priority, threshold,
                     constructed, out, admin>>
  BY DEF IInv, BeginLog, MayUse
<1>2. NewFrame(b, msg) \in Frames /\ NewFrame(b, msg).pc = "lock"
  BY <1>1 DEF NewFrame, Frames, Phases, Messages, TypeOK
<1>3. s \in Seq(Frames) /\ Len(s) = 1 /\ s[1] = NewFrame(b, msg)
      /\ DOMAIN s = {1}
  <2> HIDE DEF msg
  <2> QED BY <1>2
<1> HIDE DEF s
<1>4. /\ stack' \in [Threads -> Seq(Frames)]
      /\ stack'[t] = s
      /\ \A u \in Threads \ {t} : stack'[u] = stack[u]
  BY <1>1, <1>3, StackUpdate
<1>5. TypeOK'
  BY <1>1, <1>4 DEF TypeOK
<1>6. CallChain'
  <2>1. stack'[t][1].pc = "lock" /\ DOMAIN stack'[t] = {1} /\ Len(stack'[t]) = 1
    BY <1>2, <1>3, <1>4
  <2>2. ASSUME NEW u \in Threads, NEW i \in DOMAIN stack'[u]
        PROVE  stack'[u][i].pc = "await" <=> i # Len(stack'[u])
    <3>1. CASE u = t
      BY <2>1, <3>1
    <3>2. CASE u # t
      BY <1>4, <3>2 DEF IInv, CallChain
    <3> QED BY <3>1, <3>2
  <2> QED BY <2>2 DEF CallChain
<1>7. ASSUME NEW u \in Threads, NEW c PROVE Guarding(stack'[u], c) = Guarding(stack[u], c)
  BY <1>1, <1>2, <1>3, <1>4 DEF Guarding, Idle
<1>8. LockAccounting'
  BY <1>1, <1>7 DEF IInv, LockAccounting
<1>9. Exclusive'
  BY <1>1 DEF IInv, Exclusive
<1>10. FilterStable' /\ IteratorValid'
  <2>1. ~ Walking(stack'[t][1]) /\ DOMAIN stack'[t] = {1}
    BY <1>2, <1>3, <1>4 DEF Walking
  <2> QED BY <1>1, <1>4, <2>1 DEF IInv, FilterStable, IteratorValid
<1> QED
  BY <1>5, <1>6, <1>8, <1>9, <1>10 DEF IInv

LEMMA AcquireInv ==
    ASSUME IInv, NEW t \in Threads, Acquire(t)
    PROVE  IInv'
<1> DEFINE n == Len(stack[t])
           b == Top(t).backend
           pc == IF Top(t).msg.priority <= priority[b]
                 THEN "iterate" ELSE "skip"
<1>1. /\ TypeOK /\ stack[t] # <<>> /\ Top(t).pc = "lock" /\ CanLock(t, b)
      /\ holds' = [holds EXCEPT ![t][b] = @ + 1]
      /\ stack' = [stack EXCEPT ![t] = WithTop(t, pc, 0)]
      /\ UNCHANGED <<guards, appenders, priority, threshold, constructed,
                     out, calls, admin>>
  BY DEF IInv, Acquire, Running
<1>2. /\ pc \in {"iterate", "skip"} /\ pc \in Phases
      /\ Walking([pc |-> pc]) => Top(t).msg.priority <= priority[b]
  BY DEF Phases, Walking
<1>3. b \in Backends
  BY <1>1, StackType DEF Frames
<1>4. TopBecomes(t, pc, 0)
  <2>1. 0 \in Nat
    OBVIOUS
  <2> QED BY <1>1, <1>2, <2>1, TopChange
<1> HIDE DEF n, b, pc
<1>5. TypeOK'
  BY <1>1, <1>3, <1>4 DEF TypeOK, TopBecomes
<1>6. CallChain'
  BY <1>1, <1>2, <1>4 DEF IInv, CallChain, TopBecomes
<1>7. /\ Guarding(stack'[t], b) = Guarding(stack[t], b) \cup {n}
      /\ n \notin Guarding(stack[t], b)
      /\ \A u \in Threads, c \in Backends :
            u # t \/ c # b => Guarding(stack'[u], c) = Guarding(stack[u], c)
  <2>1. n \notin Guarding(stack[t], b)
    BY <1>1, <1>4 DEF Guarding, TopBecomes, n
  <2> QED BY <1>2, <1>4, <2>1 DEF TopBecomes, n, b
<1>8. LockAccounting'
  <2>1. /\ Cardinality(Guarding(stack'[t], b)) = Cardinality(Guarding(stack[t], b)) + 1
        /\ Cardinality(Guarding(stack[t], b)) \in Nat
    BY <1>1, <1>7, GuardingFinite, FS_AddElement
  <2>2. holds'[t][b] = guards'[t][b] + Cardinality(Guarding(stack'[t], b))
    BY <1>1, <1>3, <2>1 DEF IInv, LockAccounting, TypeOK
  <2>3. ASSUME NEW u \in Threads, NEW c \in Backends, u # t \/ c # b
        PROVE  holds'[u][c] = guards'[u][c] + Cardinality(Guarding(stack'[u], c))
    <3>1. holds'[u][c] = holds[u][c] /\ Guarding(stack'[u], c) = Guarding(stack[u], c)
      BY <1>1, <1>3, <1>7, <2>3 DEF TypeOK
    <3> QED BY <1>1, <3>1 DEF IInv, LockAccounting
  <2>4. ASSUME NEW u \in Threads, NEW c \in Backends
        PROVE  holds'[u][c] = guards'[u][c] + Cardinality(Guarding(stack'[u], c))
    BY <2>2, <2>3
  <2> QED BY <2>4 DEF LockAccounting
<1>9. Exclusive'
  <2> SUFFICES ASSUME NEW u \in Threads, NEW v \in Threads, NEW c \in Backends,
                      u # v
               PROVE  holds'[u][c] = 0 \/ holds'[v][c] = 0
    BY DEF Exclusive
  <2>1. \A w \in Threads : w # t \/ c # b => holds'[w][c] = holds[w][c]
    BY <1>1, <1>3 DEF TypeOK
  <2> QED BY <1>1, <2>1 DEF IInv, Exclusive, CanLock
<1>10. FilterStable'
  BY <1>1, <1>2, <1>4 DEF IInv, FilterStable, Walking, TopBecomes, b
<1>11. IteratorValid'
  BY <1>1, <1>2, <1>4 DEF IInv, IteratorValid, Walking, TopBecomes
<1> QED
  BY <1>5, <1>6, <1>8, <1>9, <1>10, <1>11 DEF IInv

(* The step leaves every guarded frame a guarded frame, and makes no other. *)
SameGuarding ==
    \A u \in Threads : \A b \in Backends :
       Guarding(stack'[u], b) = Guarding(stack[u], b)

(* Lock state and guarded frames both unchanged *)
LEMMA LocksKept ==
    ASSUME IInv, SameGuarding, UNCHANGED <<holds, guards>>
    PROVE  LockAccounting' /\ Exclusive'
<1>1. LockAccounting'
  <2> SUFFICES ASSUME NEW t \in Threads, NEW b \in Backends
               PROVE  holds'[t][b]
                         = guards'[t][b] + Cardinality(Guarding(stack'[t], b))
    BY DEF LockAccounting
  <2> QED BY DEF IInv, LockAccounting, SameGuarding
<1>2. Exclusive'
  BY DEF IInv, Exclusive
<1> QED
  BY <1>1, <1>2

LEMMA DispatchInv ==
    ASSUME IInv, NEW t \in Threads, Dispatch(t)
    PROVE  IInv'
<1> DEFINE n == Len(stack[t])
           b == Top(t).backend
<1>1. PICK a \in Rest(Top(t)) :
         stack' = [stack EXCEPT ![t] = WithTop(t,
                       IF Top(t).msg.priority <= threshold[a]
                       THEN "doLog" ELSE "iterate", a)]
  BY DEF Dispatch
<1> DEFINE pc == IF Top(t).msg.priority <= threshold[a]
                 THEN "doLog" ELSE "iterate"
<1>2. /\ TypeOK /\ stack[t] # <<>> /\ Top(t).pc = "iterate"
      /\ UNCHANGED <<holds, guards, appenders, priority, threshold,
                     constructed, out, calls, admin>>
  BY DEF IInv, Dispatch, Running
<1>3. b \in Backends
  BY <1>2, StackType DEF Frames
<1>4. a \in Nat /\ a \in appenders[b]
  BY <1>2, <1>3, BackendAssumption DEF TypeOK, Rest, Appenders
<1>5. pc \in {"doLog", "iterate"} /\ pc \in Phases
  BY DEF Phases
<1>6. TopBecomes(t, pc, a)
  BY <1>1, <1>2, <1>4, <1>5, TopChange
<1> HIDE DEF n, b, pc
<1>7. TypeOK'
  BY <1>2, <1>6 DEF TypeOK, TopBecomes
<1>8. CallChain'
  BY <1>2, <1>5, <1>6 DEF IInv, CallChain, TopBecomes
<1>9. SameGuarding
  <2>1. n \in Guarding(stack[t], b)
    BY <1>2, <1>6 DEF Guarding, TopBecomes, n, b
  <2> QED BY <1>5, <1>6, <2>1 DEF SameGuarding, TopBecomes, n, b
<1>10. LockAccounting' /\ Exclusive'
  BY <1>2, <1>9, LocksKept
<1>11. FilterStable'
  BY <1>2, <1>5, <1>6 DEF IInv, FilterStable, Walking, TopBecomes
<1>12. IteratorValid'
  BY <1>2, <1>4, <1>5, <1>6 DEF IInv, IteratorValid, Walking, TopBecomes, b
<1> QED
  BY <1>7, <1>8, <1>10, <1>11, <1>12 DEF IInv

LEMMA SinkDoLogInv ==
    ASSUME IInv, NEW t \in Threads, SinkDoLog(t)
    PROVE  IInv'
<1> DEFINE n == Len(stack[t])
           b == Top(t).backend
           a == Top(t).pos
<1>1. /\ TypeOK /\ stack[t] # <<>> /\ Top(t).pc = "doLog" /\ a \in Sinks
      /\ stack' = [stack EXCEPT ![t] = WithTop(t, "iterate", a)]
      /\ out' = [out EXCEPT ![a] = Append(@, Top(t).msg)]
      /\ UNCHANGED <<holds, guards, appenders, priority, threshold,
                     constructed, calls, admin>>
  BY DEF IInv, SinkDoLog, Running
<1>2. b \in Backends /\ a \in Nat /\ Top(t).msg \in Messages
  BY <1>1, StackType DEF Frames
<1>3. TopBecomes(t, "iterate", a)
  <2>1. "iterate" \in Phases
    BY DEF Phases
  <2> QED BY <1>1, <1>2, <2>1, TopChange
<1>4. out' \in [Sinks -> Seq(Messages)]
  BY <1>1, <1>2 DEF TypeOK
<1> HIDE DEF n, b, a
<1>5. TypeOK'
  BY <1>1, <1>3, <1>4 DEF TypeOK, TopBecomes
<1>6. CallChain'
  BY <1>1, <1>3 DEF IInv, CallChain, TopBecomes
<1>7. SameGuarding
  <2>1. n \in Guarding(stack[t], b)
    BY <1>1, <1>3 DEF Guarding, TopBecomes, n, b
  <2> QED BY <1>3, <2>1 DEF SameGuarding, TopBecomes, n, b
<1>8. LockAccounting' /\ Exclusive'
  BY <1>1, <1>7, LocksKept
<1>9. FilterStable'
  BY <1>1, <1>3 DEF IInv, FilterStable, Walking, TopBecomes
<1>10. IteratorValid'
  BY <1>1, <1>3 DEF IInv, IteratorValid, Walking, TopBecomes, a
<1> QED
  BY <1>5, <1>6, <1>8, <1>9, <1>10 DEF IInv

LEMMA ForwardDoLogInv ==
    ASSUME IInv, NEW t \in Threads, ForwardDoLog(t)
    PROVE  IInv'
<1> DEFINE n == Len(stack[t])
           b == Top(t).backend
           a == Top(t).pos
           s0 == WithTop(t, "await", a)
           new == NewFrame(Target[a], Top(t).msg)
           s == Append(s0, new)
<1>1. /\ TypeOK /\ stack[t] # <<>> /\ Top(t).pc = "doLog" /\ a \in Forwards
      /\ stack' = [stack EXCEPT ![t] = s]
      /\ UNCHANGED <<holds, guards, appenders, priority, threshold,
                     constructed, out, calls, admin>>
  BY DEF IInv, ForwardDoLog, Running
<1>2. /\ n \in Nat /\ n \in 1 .. n /\ DOMAIN stack[t] = 1 .. n
      /\ Top(t) \in Frames /\ b \in Backends /\ a \in Nat
      /\ stack[t][n] = Top(t)
  BY <1>1, StackType DEF Frames, Top
<1>3. new \in Frames /\ new.pc = "lock"
  BY <1>1, <1>2, BackendAssumption DEF NewFrame, Frames, Phases
<1>4. /\ s0 \in Seq(Frames) /\ Len(s0) = n
      /\ s0[n] = [stack[t][n] EXCEPT !.pc = "await", !.pos = a]
      /\ \A i \in 1 .. n : i # n => s0[i] = stack[t][i]
  <2>1. "await" \in Phases
    BY DEF Phases
  <2> HIDE DEF a
  <2>2. /\ s0 \in Seq(Frames) /\ Len(s0) = n
        /\ \A i \in 1 .. n : s0[i] =
               IF i = n THEN [stack[t][i] EXCEPT !.pc = "await", !.pos = a]
                        ELSE stack[t][i]
    BY <1>1, <1>2, <2>1, WithTopShape
  <2> HIDE DEF s0, n
  <2> QED BY <1>2, <2>2
<1> HIDE DEF s0, new
<1>5. /\ s \in Seq(Frames) /\ Len(s) = n + 1 /\ DOMAIN s = 1 .. n + 1
      /\ s[n + 1] = new
      /\ \A i \in 1 .. n : s[i] = s0[i]
  BY <1>2, <1>3, <1>4
<1> HIDE DEF s
<1>6. /\ s[n].backend = b /\ s[n].pc = "await" /\ s[n].pos = a
      /\ s[n].msg = Top(t).msg
  BY <1>2, <1>4, <1>5 DEF Frames
<1> HIDE DEF n, b, a
<1>7. /\ stack' \in [Threads -> Seq(Frames)]
      /\ stack'[t] = s
      /\ \A u \in Threads \ {t} : stack'[u] = stack[u]
  BY <1>1, <1>5, StackUpdate
<1>8. TypeOK'
  BY <1>1, <1>7 DEF TypeOK
<1>9. CallChain'
  BY <1>1, <1>2, <1>3, <1>4, <1>5, <1>6, <1>7 DEF IInv, CallChain, n
<1>10. SameGuarding
  <2>1. ASSUME NEW c \in Backends
        PROVE  Guarding(s, c) = Guarding(stack[t], c)
    <3>1. \A i \in 1 .. n : s[i].backend = c /\ s[i].pc # "lock"
                         <=> stack[t][i].backend = c /\ stack[t][i].pc # "lock"
      BY <1>1, <1>2, <1>4, <1>5, <1>6 DEF b
    <3> QED BY <1>2, <1>3, <1>5, <3>1 DEF Guarding
  <2> QED BY <1>7, <2>1 DEF SameGuarding
<1>11. LockAccounting' /\ Exclusive'
  BY <1>1, <1>10, LocksKept
<1>12. FilterStable' /\ IteratorValid'
  <2>1. ASSUME NEW i \in 1 .. n + 1, Walking(s[i])
        PROVE  /\ i \in 1 .. n /\ Walking(stack[t][i])
               /\ s[i].msg = stack[t][i].msg /\ s[i].pos = stack[t][i].pos
               /\ s[i].backend = stack[t][i].backend
    BY <1>1, <1>2, <1>3, <1>4, <1>5, <1>6, <2>1 DEF Walking, a, b
  <2> QED BY <1>1, <1>2, <1>5, <1>7, <2>1 DEF IInv, FilterStable, IteratorValid
<1> QED
  BY <1>8, <1>9, <1>11, <1>12 DEF IInv

LEMMA FinishInv ==
    ASSUME IInv, NEW t \in Threads, Finish(t)
    PROVE  IInv'
<1> DEFINE n == Len(stack[t])
           b == Top(t).backend
           s == Popped(t)
<1>1. /\ TypeOK /\ stack[t] # <<>> /\ Top(t).pc \in {"skip", "iterate"}
      /\ holds' = [holds EXCEPT ![t][b] = @ - 1]
      /\ stack' = [stack EXCEPT ![t] = s]
      /\ UNCHANGED <<guards, appenders, priority, threshold, constructed,
                     out, calls, admin>>
  BY DEF IInv, Finish
<1>2. /\ n \in Nat /\ n \in 1 .. n /\ DOMAIN stack[t] = 1 .. n
      /\ Top(t) \in Frames /\ b \in Backends
      /\ \A i \in 1 .. n : stack[t][i] \in Frames
      /\ stack[t][n] = Top(t)
  BY <1>1, StackType DEF Frames, Top
<1>3. /\ s \in Seq(Frames) /\ Len(s) = n - 1
      /\ \A i \in 1 .. n - 1 :
            s[i] = IF i = n - 1 THEN [stack[t][i] EXCEPT !.pc = "iterate"]
                                ELSE stack[t][i]
  BY <1>1, PoppedShape
<1> HIDE DEF n, b, s
<1>4. /\ DOMAIN s = 1 .. n - 1
      /\ \A i \in 1 .. n - 1 :
            /\ i \in 1 .. n
            /\ s[i].backend = stack[t][i].backend
            /\ s[i].msg = stack[t][i].msg
            /\ s[i].pos = stack[t][i].pos
            /\ s[i].pc = IF i = n - 1 THEN "iterate" ELSE "await"
            /\ stack[t][i].pc = "await"
  <2>1. DOMAIN s = 1 .. n - 1
    BY <1>3
  <2>2. ASSUME NEW i \in 1 .. n - 1
        PROVE  i \in 1 .. n /\ stack[t][i] \in Frames
               /\ stack[t][i].pc = "await"
    <3>1. i \in 1 .. n /\ i # n
      BY <1>2
    <3> QED BY <1>2, <3>1 DEF IInv, CallChain, n
  <2> QED BY <1>3, <2>1, <2>2 DEF Frames
<1>5. /\ stack' \in [Threads -> Seq(Frames)]
      /\ stack'[t] = s
      /\ \A u \in Threads \ {t} : stack'[u] = stack[u]
  BY <1>1, <1>3, StackUpdate
<1>6. /\ Guarding(s, b) = Guarding(stack[t], b) \ {n}
      /\ n \in Guarding(stack[t], b)
      /\ \A c : c # b => Guarding(s, c) = Guarding(stack[t], c)
  <2>1. n \in Guarding(stack[t], b)
    BY <1>1, <1>2 DEF Guarding, b
  <2>2. ASSUME NEW c
        PROVE  Guarding(s, c) = Guarding(stack[t], c) \ {n}
    <3>1. \A i \in 1 .. n : i # n <=> i \in 1 .. n - 1
      BY <1>2
    <3>2. \A i \in 1 .. n - 1 : i \in Guarding(s, c)
                                 <=> i \in Guarding(stack[t], c)
      BY <1>2, <1>4 DEF Guarding
    <3>3. /\ Guarding(s, c) \subseteq 1 .. n - 1
          /\ Guarding(stack[t], c) \subseteq 1 .. n
          /\ 1 .. n - 1 \subseteq 1 .. n
      BY <1>2, <1>4 DEF Guarding
    <3> QED BY <3>1, <3>2, <3>3
  <2>3. \A c : c # b => n \notin Guarding(stack[t], c)
    BY <1>2 DEF Guarding, b
  <2> QED BY <2>1, <2>2, <2>3
<1>7. /\ holds[t][b] \in Nat /\ holds[t][b] >= 1
  <2>1. Guarding(stack[t], b) # {} /\ guards[t][b] \in Nat
    BY <1>1, <1>2, <1>6 DEF TypeOK
  <2>2. holds[t][b] >= 1 + guards[t][b]
    BY <1>1, <1>2, <2>1, GuardingLocks DEF IInv
  <2> QED BY <1>1, <1>2, <2>1, <2>2 DEF TypeOK
<1>8. TypeOK'
  BY <1>1, <1>2, <1>5, <1>7 DEF TypeOK
<1>9. CallChain'
  BY <1>2, <1>3, <1>4, <1>5 DEF IInv, CallChain
<1>10. LockAccounting'
  <2>1. /\ Cardinality(Guarding(s, b)) = Cardinality(Guarding(stack[t], b)) - 1
        /\ Cardinality(Guarding(stack[t], b)) \in Nat
    BY <1>1, <1>6, GuardingFinite, FS_RemoveElement
  <2>2. holds'[t][b] = guards'[t][b] + Cardinality(Guarding(stack'[t], b))
    <3>1. holds'[t][b] = holds[t][b] - 1 /\ guards'[t][b] = guards[t][b]
      BY <1>1, <1>2 DEF TypeOK
    <3>2. holds[t][b] = guards[t][b] + Cardinality(Guarding(stack[t], b))
      BY <1>2 DEF IInv, LockAccounting
    <3>3. guards[t][b] \in Nat
      BY <1>1, <1>2 DEF TypeOK
    <3> QED BY <1>5, <1>7, <2>1, <3>1, <3>2, <3>3
  <2>3. ASSUME NEW u \in Threads, NEW c \in Backends, u # t \/ c # b
        PROVE  holds'[u][c] = guards'[u][c] + Cardinality(Guarding(stack'[u], c))
    <3>1. /\ holds'[u][c] = holds[u][c]
          /\ Guarding(stack'[u], c) = Guarding(stack[u], c)
      BY <1>1, <1>2, <1>5, <1>6, <2>3 DEF TypeOK
    <3> QED BY <1>1, <3>1 DEF IInv, LockAccounting
  <2>4. ASSUME NEW u \in Threads, NEW c \in Backends
        PROVE  holds'[u][c] = guards'[u][c] + Cardinality(Guarding(stack'[u], c))
    BY <2>2, <2>3
  <2> QED BY <2>4 DEF LockAccounting
<1>11. Exclusive'
  <2> SUFFICES ASSUME NEW u \in Threads, NEW v \in Threads, NEW c \in Backends,
                      u # v
               PROVE  holds'[u][c] = 0 \/ holds'[v][c] = 0
    BY DEF Exclusive
  <2>1. \A w \in Threads : w # t \/ c # b => holds'[w][c] = holds[w][c]
    BY <1>1, <1>2 DEF TypeOK
  <2>2. holds[u][c] = 0 \/ holds[v][c] = 0
    BY DEF IInv, Exclusive
  <2> QED BY <1>7, <2>1, <2>2
<1>12. FilterStable' /\ IteratorValid'
  <2>1. ASSUME NEW i \in 1 .. n - 1
        PROVE  Walking(stack[t][i]) /\ i \in DOMAIN stack[t]
    BY <1>2, <1>4 DEF Walking
  <2> QED BY <1>1, <1>4, <1>5, <2>1 DEF IInv, FilterStable, IteratorValid
<1> QED
  BY <1>8, <1>9, <1>10, <1>11, <1>12 DEF IInv

LEMMA SetPriorityInv ==
    ASSUME IInv, NEW t \in Threads, NEW b \in Backends, NEW p \in Priorities,
           SetPriority(t, b, p)
    PROVE  IInv'
<1>1. /\ TypeOK /\ LockAccounting /\ Idle(t) /\ CanLock(t, b)
      /\ priority' = [priority EXCEPT ![b] = p]
      /\ admin' = admin + 1
      /\ UNCHANGED <<holds, guards, appenders, threshold, constructed, stack,
                     out, calls>>
  BY DEF IInv, SetPriority, Administer, MayUse
<1>2. TypeOK' /\ CallChain'
  BY <1>1 DEF IInv, TypeOK, CallChain
<1>3. LockAccounting' /\ Exclusive'
  BY <1>1, LocksKept DEF SameGuarding
<1>4. FilterStable'
  <2> SUFFICES ASSUME NEW u \in Threads, NEW i \in DOMAIN stack[u],
                      Walking(stack[u][i])
               PROVE  stack[u][i].msg.priority <= priority'[stack[u][i].backend]
    BY <1>1 DEF FilterStable
  <2>1. stack[u][i].backend \in Backends
    BY <1>1, StackType DEF Frames
  <2>2. stack[u][i].backend # b
    BY <1>1, AdminAlone, WalkingGuards
  <2> QED BY <1>1, <2>1, <2>2 DEF IInv, FilterStable, TypeOK
<1>5. IteratorValid'
  BY <1>1 DEF IInv, IteratorValid
<1> QED
  BY <1>2, <1>3, <1>4, <1>5 DEF IInv

LEMMA AddAppenderInv ==
    ASSUME IInv, NEW t \in Threads, NEW b \in Backends, NEW a \in Appenders,
           AddAppender(t, b, a)
    PROVE  IInv'
<1>1. /\ TypeOK
      /\ appenders' = [appenders EXCEPT ![b] = @ \cup {a}]
      /\ admin' = admin + 1
      /\ UNCHANGED <<holds, guards, priority, threshold, constructed, stack,
                     out, calls>>
  BY DEF IInv, AddAppender, Administer
<1>2. TypeOK' /\ CallChain'
  BY <1>1 DEF IInv, TypeOK, CallChain
<1>3. LockAccounting' /\ Exclusive'
  BY <1>1, LocksKept DEF SameGuarding
<1>4. FilterStable'
  BY <1>1 DEF IInv, FilterStable
<1>5. IteratorValid'
  <2>1. \A u \in Threads : \A i \in DOMAIN stack[u] :
           stack[u][i].backend \in Backends
    BY <1>1, StackType DEF Frames
  <2>2. \A c \in Backends : appenders[c] \subseteq appenders'[c]
    BY <1>1 DEF TypeOK
  <2> QED BY <1>1, <2>1, <2>2 DEF IInv, IteratorValid
<1> QED
  BY <1>2, <1>3, <1>4, <1>5 DEF IInv

LEMMA RemoveAppenderInv ==
    ASSUME IInv, NEW t \in Threads, NEW b \in Backends, NEW a \in Appenders,
           RemoveAppender(t, b, a)
    PROVE  IInv'
<1>1. /\ TypeOK /\ LockAccounting /\ Idle(t) /\ CanLock(t, b)
      /\ appenders' = [appenders EXCEPT ![b] = @ \ {a}]
      /\ admin' = admin + 1
      /\ UNCHANGED <<holds, guards, priority, threshold, constructed, stack,
                     out, calls>>
  BY DEF IInv, RemoveAppender, Administer, MayUse
<1>2. TypeOK' /\ CallChain'
  BY <1>1 DEF IInv, TypeOK, CallChain
<1>3. LockAccounting' /\ Exclusive'
  BY <1>1, LocksKept DEF SameGuarding
<1>4. FilterStable'
  BY <1>1 DEF IInv, FilterStable
<1>5. IteratorValid'
  <2> SUFFICES ASSUME NEW u \in Threads, NEW i \in DOMAIN stack[u],
                      Walking(stack[u][i]), stack[u][i].pos # 0
               PROVE  stack[u][i].pos \in appenders'[stack[u][i].backend]
    BY <1>1 DEF IteratorValid
  <2>1. stack[u][i].backend \in Backends
    BY <1>1, StackType DEF Frames
  <2>2. stack[u][i].backend # b
    BY <1>1, AdminAlone, WalkingGuards
  <2> QED BY <1>1, <2>1, <2>2 DEF IInv, IteratorValid, TypeOK
<1> QED
  BY <1>2, <1>3, <1>4, <1>5 DEF IInv

(* The steps that take no lock write nothing that the locks protect. *)
LEMMA UnlockedInv ==
    ASSUME IInv, Unlocked
    PROVE  IInv'
<1>1. /\ TypeOK /\ admin' = admin + 1
      /\ UNCHANGED <<holds, guards, appenders, priority, stack, out, calls>>
  BY DEF IInv, Unlocked, Administer, SetThreshold, ConstructForward,
         ConstructForwardWith
<1>2. threshold' \in [Appenders -> Priorities] /\ constructed' \subseteq Forwards
  <2>1. \A f \in Forwards : priority[Target[f]] \in Priorities
    BY <1>1, BackendAssumption DEF TypeOK
  <2> QED BY <1>1, <2>1 DEF TypeOK, Unlocked, SetThreshold, ConstructForward,
             ConstructForwardWith
<1>3. TypeOK' /\ CallChain'
  BY <1>1, <1>2 DEF IInv, TypeOK, CallChain
<1>4. LockAccounting' /\ Exclusive'
  BY <1>1, LocksKept DEF SameGuarding
<1>5. FilterStable' /\ IteratorValid'
  BY <1>1 DEF IInv, FilterStable, IteratorValid
<1> QED
  BY <1>3, <1>4, <1>5 DEF IInv

(* t's count of b and its Lock objects of b both change by the same. *)
LEMMA RetrieveLockInv ==
    ASSUME IInv, NEW t \in Threads, NEW b \in Backends, RetrieveLock(t, b)
    PROVE  IInv'
<1>1. /\ TypeOK /\ CanLock(t, b)
      /\ holds' = [holds EXCEPT ![t][b] = @ + 1]
      /\ guards' = [guards EXCEPT ![t][b] = @ + 1]
      /\ admin' = admin + 1
      /\ UNCHANGED <<appenders, priority, threshold, constructed, stack, out,
                     calls>>
  BY DEF IInv, RetrieveLock, Administer
<1>2. TypeOK' /\ CallChain'
  BY <1>1 DEF IInv, TypeOK, CallChain
<1>3. LockAccounting'
  <2> SUFFICES ASSUME NEW u \in Threads, NEW c \in Backends
               PROVE  holds'[u][c] = guards'[u][c]
                                        + Cardinality(Guarding(stack[u], c))
    BY <1>1 DEF LockAccounting
  <2>1. /\ holds[u][c] = guards[u][c] + Cardinality(Guarding(stack[u], c))
        /\ Cardinality(Guarding(stack[u], c)) \in Nat
    BY <1>1, GuardingFinite DEF IInv, LockAccounting
  <2> QED BY <1>1, <2>1 DEF TypeOK
<1>4. Exclusive'
  <2> SUFFICES ASSUME NEW u \in Threads, NEW v \in Threads, NEW c \in Backends,
                      u # v
               PROVE  holds'[u][c] = 0 \/ holds'[v][c] = 0
    BY DEF Exclusive
  <2>1. \A w \in Threads : w # t \/ c # b => holds'[w][c] = holds[w][c]
    BY <1>1 DEF TypeOK
  <2> QED BY <1>1, <2>1 DEF IInv, Exclusive, CanLock
<1>5. FilterStable' /\ IteratorValid'
  BY <1>1 DEF IInv, FilterStable, IteratorValid
<1> QED
  BY <1>2, <1>3, <1>4, <1>5 DEF IInv

LEMMA ReleaseLockInv ==
    ASSUME IInv, NEW t \in Threads, NEW b \in Backends, ReleaseLock(t, b)
    PROVE  IInv'
<1>1. /\ TypeOK /\ guards[t][b] > 0
      /\ holds' = [holds EXCEPT ![t][b] = @ - 1]
      /\ guards' = [guards EXCEPT ![t][b] = @ - 1]
      /\ UNCHANGED <<appenders, priority, threshold, constructed, stack, out,
                     calls, admin>>
  BY DEF IInv, ReleaseLock
<1>2. /\ \A u \in Threads, c \in Backends :
            /\ holds[u][c] = guards[u][c] + Cardinality(Guarding(stack[u], c))
            /\ Cardinality(Guarding(stack[u], c)) \in Nat
            /\ guards[u][c] \in Nat
      /\ holds[t][b] \in Nat /\ holds[t][b] >= 1
  <2>1. ASSUME NEW u \in Threads, NEW c \in Backends
        PROVE  /\ holds[u][c] = guards[u][c] + Cardinality(Guarding(stack[u], c))
               /\ Cardinality(Guarding(stack[u], c)) \in Nat
               /\ guards[u][c] \in Nat
    BY <1>1, GuardingFinite DEF IInv, LockAccounting, TypeOK
  <2> QED BY <1>1, <2>1
<1>3. TypeOK' /\ CallChain'
  BY <1>1, <1>2 DEF IInv, TypeOK, CallChain
<1>4. LockAccounting'
  <2> SUFFICES ASSUME NEW u \in Threads, NEW c \in Backends
               PROVE  holds'[u][c] = guards'[u][c]
                                        + Cardinality(Guarding(stack[u], c))
    BY <1>1 DEF LockAccounting
  <2> QED BY <1>1, <1>2 DEF TypeOK
<1>5. Exclusive'
  <2> SUFFICES ASSUME NEW u \in Threads, NEW v \in Threads, NEW c \in Backends,
                      u # v
               PROVE  holds'[u][c] = 0 \/ holds'[v][c] = 0
    BY DEF Exclusive
  <2>1. \A w \in Threads : w # t \/ c # b => holds'[w][c] = holds[w][c]
    BY <1>1 DEF TypeOK
  <2>2. holds[u][c] = 0 \/ holds[v][c] = 0
    BY DEF IInv, Exclusive
  <2> QED BY <1>2, <2>1, <2>2
<1>6. FilterStable' /\ IteratorValid'
  BY <1>1 DEF IInv, FilterStable, IteratorValid
<1> QED
  BY <1>3, <1>4, <1>5, <1>6 DEF IInv

-----------------------------------------------------------------------------
(* The theorems *)

LEMMA InitInv == Init => IInv
<1> SUFFICES ASSUME Init PROVE IInv
  OBVIOUS
<1>1. TypeOK
  BY BackendAssumption DEF Init, TypeOK
<1>2. /\ \A t \in Threads : stack[t] = <<>> /\ DOMAIN stack[t] = {}
      /\ \A t \in Threads, b \in Backends :
            holds[t][b] = 0 /\ guards[t][b] = 0
  BY DEF Init
<1>3. CallChain /\ FilterStable /\ IteratorValid /\ Exclusive
  BY <1>2 DEF CallChain, FilterStable, IteratorValid, Exclusive
<1>4. LockAccounting
  <2>1. \A t \in Threads : \A b \in Backends : Guarding(stack[t], b) = {}
    BY <1>2 DEF Guarding
  <2>2. Cardinality({}) = 0
    BY FS_EmptySet
  <2>3. ASSUME NEW t \in Threads, NEW b \in Backends
        PROVE  holds[t][b] = guards[t][b] + Cardinality(Guarding(stack[t], b))
    <3>1. Cardinality(Guarding(stack[t], b)) = 0
      BY <2>1, <2>2
    <3>2. holds[t][b] = 0 /\ guards[t][b] = 0
      BY <1>2
    <3> QED BY <3>1, <3>2
  <2> QED BY <2>3 DEF LockAccounting
<1> QED
  BY <1>1, <1>3, <1>4 DEF IInv

LEMMA NextInv == IInv /\ [Next]_vars => IInv'
<1> SUFFICES ASSUME IInv, [Next]_vars PROVE IInv'
  OBVIOUS
<1>1. ASSUME NEW t \in Threads, Step(t) PROVE IInv'
  BY <1>1, AcquireInv, DispatchInv, SinkDoLogInv, ForwardDoLogInv, FinishInv
     DEF Step
<1>2. ASSUME NEW t \in Threads, Client(t) PROVE IInv'
  BY <1>2, BeginLogInv, SetPriorityInv, AddAppenderInv, RemoveAppenderInv,
     RetrieveLockInv, ReleaseLockInv DEF Client
<1>3. CASE Unlocked
  BY <1>3, UnlockedInv
<1>4. CASE UNCHANGED vars
  <2>1. SameGuarding /\ UNCHANGED <<holds, guards>>
    BY <1>4 DEF SameGuarding, vars
  <2>2. LockAccounting' /\ Exclusive'
    BY <2>1, LocksKept
  <2> QED BY <1>4, <2>2 DEF IInv, vars, TypeOK, CallChain, FilterStable,
             IteratorValid
<1> QED
  BY <1>1, <1>2, <1>3, <1>4 DEF Next

(* IInv holds in every reachable state. *)
THEOREM Invariance == Spec => []IInv
  BY InitInv, NextInv, PTL DEF Spec

(* Every variable keeps its type: no unlock drives an owner count below    *)
(* zero, and every frame on a stack is a call of an existing backend.      *)
THEOREM TypeCorrect == Spec => []TypeOK
<1>1. IInv => TypeOK
  BY DEF IInv
<1> QED
  BY <1>1, Invariance, PTL

(* Lock and unlock balance on every path through doLog, for any wiring,    *)
(* cyclic ones included.                                                   *)
THEOREM LocksBalance == Spec => []LockAccounting
<1>1. IInv => LockAccounting
  BY DEF IInv
<1> QED
  BY <1>1, Invariance, PTL

(* What a doLog call has tested, and the appender it is at, stay so for    *)
(* as long as it walks the appenders.                                      *)
THEOREM WalkIsProtected == Spec => [](FilterStable /\ IteratorValid)
<1>1. IInv => FilterStable /\ IteratorValid
  BY DEF IInv
<1> QED
  BY <1>1, Invariance, PTL

(* At most one thread is in the guarded part of a backend's doLog, and     *)
(* none while another thread holds the backend's Lock.                     *)
THEOREM BackendExclusion == Spec => []MutualExclusion
<1>1. IInv => MutualExclusion
  <2> SUFFICES ASSUME IInv, NEW t \in Threads, NEW u \in Threads,
                      NEW b \in Backends, t # u, InDoLog(t, b),
                      InDoLog(u, b) \/ guards[u][b] > 0
               PROVE  FALSE
    BY DEF MutualExclusion
  <2>1. /\ TypeOK /\ LockAccounting
        /\ guards[t][b] \in Nat /\ guards[u][b] \in Nat
        /\ holds[t][b] \in Nat /\ holds[u][b] \in Nat
    BY DEF IInv, TypeOK
  <2>2. holds[t][b] >= 1
    <3>1. Guarding(stack[t], b) # {}
      BY DEF InDoLog, Guarding
    <3> QED BY <2>1, <3>1, GuardingLocks
  <2>3. holds[u][b] >= 1
    <3>1. CASE InDoLog(u, b)
      <4>1. Guarding(stack[u], b) # {}
        BY <3>1 DEF InDoLog, Guarding
      <4> QED BY <2>1, <4>1, GuardingLocks
    <3>2. CASE guards[u][b] > 0
      <4>1. /\ holds[u][b] = guards[u][b] + Cardinality(Guarding(stack[u], b))
            /\ Cardinality(Guarding(stack[u], b)) \in Nat
        BY <2>1, GuardingFinite DEF LockAccounting
      <4> QED BY <2>1, <3>2, <4>1
    <3> QED BY <3>1, <3>2
  <2> QED BY <2>1, <2>2, <2>3 DEF IInv, Exclusive
<1> QED
  BY <1>1, Invariance, PTL

(* No step changes a set of appenders while a range-for walks it. *)
THEOREM WalkIsStable == Spec => StableWalk
<1>1. ASSUME IInv, [Next]_vars, NEW b \in Backends, NEW u \in Threads,
             NEW i \in DOMAIN stack[u], stack[u][i].backend = b,
             Walking(stack[u][i])
      PROVE  appenders'[b] = appenders[b]
  <2>1. TypeOK /\ LockAccounting /\ Guarding(stack[u], b) # {}
    BY <1>1, WalkingGuards DEF IInv
  <2>2. ASSUME NEW t \in Threads, Step(t) PROVE appenders' = appenders
    BY <2>2 DEF Step, Acquire, Dispatch, SinkDoLog, ForwardDoLog, Finish
  <2>3. ASSUME NEW t \in Threads, NEW c \in Backends, NEW a \in Appenders,
               AddAppender(t, c, a) \/ RemoveAppender(t, c, a)
        PROVE  appenders'[b] = appenders[b]
    <3>1. Idle(t) /\ CanLock(t, c)
      BY <2>3 DEF AddAppender, RemoveAppender, MayUse
    <3>2. c # b
      BY <2>1, <3>1, AdminAlone
    <3> QED BY <2>1, <2>3, <3>2 DEF AddAppender, RemoveAppender, TypeOK
  <2>4. ASSUME NEW t \in Threads, Client(t) PROVE appenders'[b] = appenders[b]
    BY <2>3, <2>4 DEF Client, BeginLog, SetPriority, RetrieveLock, ReleaseLock
  <2>5. CASE Unlocked
    BY <2>5 DEF Unlocked, SetThreshold, ConstructForward, ConstructForwardWith
  <2>6. CASE UNCHANGED vars
    BY <2>6 DEF vars
  <2> QED BY <1>1, <2>2, <2>4, <2>5, <2>6 DEF Next
<1>2. IInv /\ [Next]_vars =>
         [\A b \in Backends :
            (\E t \in Threads : \E i \in DOMAIN stack[t] :
                stack[t][i].backend = b /\ Walking(stack[t][i]))
               => appenders'[b] = appenders[b]]_vars
  BY <1>1
<1> QED
  BY <1>2, Invariance, PTL DEF Spec, StableWalk
=============================================================================
