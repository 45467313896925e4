------------------------ MODULE SyslogAppenderProofs ------------------------
(***************************************************************************)
(* Proofs about SyslogAppender, for any number of appenders, any messages  *)
(* and any number of constructor calls.                                    *)
(*                                                                         *)
(* IdentAlive holds even with the race, because the pointer openlog() was  *)
(* given is that of an appender which has not yet called closelog().  The  *)
(* other two need that no two calls of setEnabled_ overlap: the only       *)
(* appender is then the registered one, and the last to have called        *)
(* openlog().                                                              *)
(***************************************************************************)
EXTENDS SyslogAppender, TLAPS

IdentHeld == ident # NoAppender => phase[ident] \in {"up", "closing"}

Registered ==
    /\ \A a, b \in Appenders : Alive(a) /\ Alive(b) => a = b
    /\ \A a \in Appenders : phase[a] \notin {"none", "checking"}
                               => singleInstance = a
    /\ (\A a \in Appenders : ~ Alive(a)) => singleInstance = NoAppender

UpIdent == \A a \in Appenders : phase[a] = "up" => ident = a

SentAsSelf == sent # Nothing => sent.as = sent.by

IInv ==
    /\ TypeOK
    /\ IdentHeld
    /\ ~ raced => Registered /\ UpIdent /\ SentAsSelf

LEMMA Initially == Init => IInv
<1> SUFFICES ASSUME Init PROVE IInv
  OBVIOUS
<1>1. TypeOK
  BY DEF Init, TypeOK, Phases
<1>2. IdentHeld
  BY DEF Init, IdentHeld
<1>3. Registered /\ UpIdent /\ SentAsSelf
  BY DEF Init, Registered, UpIdent, SentAsSelf, Alive
<1> QED BY <1>1, <1>2, <1>3 DEF IInv

(* A constructor that reads nullptr is alone, if no call has overlapped.   *)
LEMMA ConstructKeeps ==
    ASSUME IInv, NEW a \in Appenders, Construct(a)
    PROVE  IInv'
<1> USE SyslogAssumption DEF Construct, Enter
<1>1. TypeOK'
  BY DEF IInv, TypeOK, Phases
<1>2. IdentHeld'
  BY DEF IInv, TypeOK, IdentHeld
<1>3. ASSUME ~ raced'
      PROVE  (Registered /\ UpIdent /\ SentAsSelf)'
  <2>1. /\ ~ raced /\ Registered /\ UpIdent /\ SentAsSelf
        /\ \A b \in Appenders : phase[b] \notin Inside
    BY <1>3 DEF IInv
  <2>2. \A b \in Appenders : phase[b] = "none"
    BY <2>1 DEF IInv, TypeOK, Phases, Inside, Registered
  <2>3. phase' = [b \in Appenders |-> IF b = a THEN "checking" ELSE "none"]
    BY <2>2 DEF IInv, TypeOK
  <2> QED
    BY <2>1, <2>2, <2>3 DEF Registered, UpIdent, SentAsSelf, Alive
<1> QED BY <1>1, <1>2, <1>3 DEF IInv

LEMMA StepKeeps == IInv /\ [Next]_vars => IInv'
<1> SUFFICES ASSUME IInv, [Next]_vars PROVE IInv'
  OBVIOUS
<1> USE SyslogAssumption
<1>1. ASSUME NEW a \in Appenders, Construct(a) PROVE IInv'
  BY <1>1, ConstructKeeps
<1>2. ASSUME NEW a \in Appenders, ConstructThrows(a) PROVE IInv'
  BY <1>2 DEF ConstructThrows, IInv, TypeOK, IdentHeld, Registered, UpIdent,
              SentAsSelf, Alive
<1>3. ASSUME NEW a \in Appenders, Register(a) PROVE IInv'
  BY <1>3 DEF Register, IInv, TypeOK, IdentHeld, Registered, UpIdent,
              SentAsSelf, Alive, Phases
<1>4. ASSUME NEW a \in Appenders, OpenLog(a) PROVE IInv'
  BY <1>4 DEF OpenLog, IInv, TypeOK, IdentHeld, Registered, UpIdent,
              SentAsSelf, Alive, Phases
<1>5. ASSUME NEW a \in Appenders, NEW p \in Priorities, DoLog(a, p) PROVE IInv'
  <2>1. sent' = [by |-> a, as |-> ident, level |-> priorities[p]]
    BY <1>5 DEF DoLog
  <2>2. priorities[p] \in 0 .. 7
    BY DEF priorities
  <2>3. sent' \in Messages
    BY <2>1, <2>2 DEF Messages, IInv, TypeOK
  <2>4. UpIdent => SentAsSelf'
    BY <1>5, <2>1 DEF DoLog, UpIdent, SentAsSelf
  <2> QED
    BY <1>5, <2>3, <2>4
       DEF DoLog, IInv, TypeOK, IdentHeld, Registered, UpIdent, Alive
<1>6. ASSUME NEW a \in Appenders, Destroy(a) PROVE IInv'
  BY <1>6 DEF Destroy, Enter, IInv, TypeOK, IdentHeld, Registered, UpIdent,
              SentAsSelf, Alive, Phases, Inside
<1>7. ASSUME NEW a \in Appenders, CloseLog(a) PROVE IInv'
  BY <1>7 DEF CloseLog, IInv, TypeOK, IdentHeld, Registered, UpIdent,
              SentAsSelf, Alive, Phases
<1>8. ASSUME NEW a \in Appenders, Unregister(a) PROVE IInv'
  BY <1>8 DEF Unregister, IInv, TypeOK, IdentHeld, Registered, UpIdent,
              SentAsSelf, Alive, Phases
<1>9. CASE UNCHANGED vars
  BY <1>9 DEF vars, IInv, TypeOK, IdentHeld, Registered, UpIdent, SentAsSelf,
              Alive
<1> QED
  BY <1>1, <1>2, <1>3, <1>4, <1>5, <1>6, <1>7, <1>8, <1>9 DEF Next

(***************************************************************************)
(* The inductive invariant.                                                *)
(***************************************************************************)
THEOREM Invariance == Spec => []IInv
<1>1. Init => IInv
  BY Initially
<1>2. IInv /\ [Next]_vars => IInv'
  BY StepKeeps
<1> QED BY <1>1, <1>2, PTL DEF Spec

(***************************************************************************)
(* While constructors and destructors of SyslogAppenders (setEnabled_) do  *)
(* not overlap, at most one of any number of appenders exists, and it is   *)
(* m_singleInstance.                                                       *)
(***************************************************************************)
THEOREM AtMostOne == Spec => []OneAppender
<1>1. IInv => OneAppender
  BY DEF IInv, Registered, OneAppender
<1> QED BY <1>1, Invariance, PTL

(***************************************************************************)
(* While they do not overlap, doLog gives every message to syslog() under  *)
(* the ident of the appender it is called on.                              *)
(***************************************************************************)
THEOREM UnderOwnIdent == Spec => []OwnIdent
<1>1. IInv => OwnIdent
  BY DEF IInv, SentAsSelf, OwnIdent
<1> QED BY <1>1, Invariance, PTL

(***************************************************************************)
(* However constructors and destructors overlap, the C library never holds *)
(* the m_ident of an appender that is gone.                                *)
(***************************************************************************)
THEOREM NoDanglingIdent == Spec => []IdentAlive
<1>1. IInv => IdentAlive
  BY DEF IInv, IdentHeld, IdentAlive, Alive
<1> QED BY <1>1, Invariance, PTL

(***************************************************************************)
(* Every variable keeps its type.                                          *)
(***************************************************************************)
THEOREM TypeCorrect == Spec => []TypeOK
<1>1. IInv => TypeOK
  BY DEF IInv
<1> QED BY <1>1, Invariance, PTL
=============================================================================
