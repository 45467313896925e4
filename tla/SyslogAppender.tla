--------------------------- MODULE SyslogAppender ---------------------------
(***************************************************************************)
(* LogHard::SyslogAppender: at most one per process, because openlog() and *)
(* closelog() set what the whole process logs as.  The only guard is the   *)
(* static m_singleInstance, a plain pointer: a constructor reads it, then  *)
(* writes it, without a lock, and so does a destructor.                    *)
(*                                                                         *)
(* Constructors and destructors of different appenders may run on          *)
(* different threads.  The race on m_singleInstance is modelled by the     *)
(* interleavings of its loads and stores, which are what a build performs: *)
(* they stay on their side of the calls to the C library, which locks.     *)
(* The ghost variable raced tells whether two calls of setEnabled_ have    *)
(* ever overlapped.                                                        *)
(***************************************************************************)
EXTENDS Naturals, FiniteSets

CONSTANTS
    Appenders,    \* addresses of SyslogAppender objects
    NoAppender,   \* nullptr
    Priorities,   \* values of enum Priority in use
    MaxObjects    \* bound: constructor calls in a behaviour

ASSUME SyslogAssumption ==
    /\ NoAppender \notin Appenders
    /\ Priorities \subseteq 0 .. 5
    /\ MaxObjects \in Nat

VARIABLES
    singleInstance,  \* m_singleInstance
    ident,           \* whose m_ident openlog() was last given (C library)
    phase,           \* how far each appender's life has come
    sent,            \* the last message given to syslog(), and as whom
    objects,         \* number of constructor calls
    raced            \* two calls of setEnabled_ have overlapped

vars == <<singleInstance, ident, phase, sent, objects, raced>>

(* "checking" and "opening" are within setEnabled_(true), "closing" and    *)
(* "clearing" within setEnabled_(false)                                    *)
Phases == {"none", "checking", "opening", "up", "closing", "clearing"}

Inside == {"checking", "opening", "closing", "clearing"}

(* Mutant: levels with a facility shifted in *)
prioritiesShifted == [p \in 0 .. 5 |-> 8 * p]

(* The syslog level of a priority: LOG_EMERG, LOG_ERR, LOG_WARNING,        *)
(* LOG_INFO, LOG_DEBUG and LOG_DEBUG                                       *)
priorities == [p \in 0 .. 5 |-> <<0, 3, 4, 6, 7, 7>>[p + 1]]

Messages == [by : Appenders, as : Appenders \cup {NoAppender}, level : 0 .. 7]
Nothing == [by |-> NoAppender]

TypeOK ==
    /\ singleInstance \in Appenders \cup {NoAppender}
    /\ ident \in Appenders \cup {NoAppender}
    /\ phase \in [Appenders -> Phases]
    /\ sent \in Messages \cup {Nothing}
    /\ objects \in Nat
    /\ raced \in BOOLEAN

-----------------------------------------------------------------------------

(* A call of setEnabled_ begins *)
Enter(a, p) ==
    /\ phase' = [phase EXCEPT ![a] = p]
    /\ raced' = (raced \/ \E other \in Appenders : phase[other] \in Inside)

(* Mutant: without the check *)
ConstructUnchecked(a) ==
    /\ objects < MaxObjects
    /\ phase[a] = "none"
    /\ objects' = objects + 1
    /\ Enter(a, "checking")
    /\ UNCHANGED <<singleInstance, ident, sent>>

(* setEnabled_(true) reads nullptr *)
Construct(a) ==
    /\ objects < MaxObjects
    /\ phase[a] = "none"
    /\ singleInstance = NoAppender
    /\ objects' = objects + 1
    /\ Enter(a, "checking")
    /\ UNCHANGED <<singleInstance, ident, sent>>

(* It reads another appender and throws: no object is left, and its        *)
(* destructor does not run.                                                *)
ConstructThrows(a) ==
    /\ objects < MaxObjects
    /\ phase[a] = "none"
    /\ singleInstance # NoAppender
    /\ objects' = objects + 1
    /\ raced' = (raced \/ \E other \in Appenders : phase[other] \in Inside)
    /\ UNCHANGED <<singleInstance, ident, phase, sent>>

Register(a) ==
    /\ phase[a] = "checking"
    /\ singleInstance' = a
    /\ phase' = [phase EXCEPT ![a] = "opening"]
    /\ UNCHANGED <<ident, sent, objects, raced>>

(* openlog() keeps the pointer m_ident.c_str() *)
OpenLog(a) ==
    /\ phase[a] = "opening"
    /\ ident' = a
    /\ phase' = [phase EXCEPT ![a] = "up"]
    /\ UNCHANGED <<singleInstance, sent, objects, raced>>

DoLog(a, p) ==
    /\ phase[a] = "up"
    /\ sent' = [by |-> a, as |-> ident, level |-> priorities[p]]
    /\ UNCHANGED <<singleInstance, ident, phase, objects, raced>>

(* setEnabled_(false), up to its assertion *)
Destroy(a) ==
    /\ phase[a] = "up"
    /\ Enter(a, "closing")
    /\ UNCHANGED <<singleInstance, ident, sent, objects>>

(* Mutant: closelog() is not called *)
CloseLogNot(a) ==
    /\ phase[a] = "closing"
    /\ phase' = [phase EXCEPT ![a] = "clearing"]
    /\ UNCHANGED <<singleInstance, ident, sent, objects, raced>>

(* closelog() forgets the pointer *)
CloseLog(a) ==
    /\ phase[a] = "closing"
    /\ ident' = NoAppender
    /\ phase' = [phase EXCEPT ![a] = "clearing"]
    /\ UNCHANGED <<singleInstance, sent, objects, raced>>

(* Mutant: m_singleInstance stays *)
UnregisterNot(a) ==
    /\ phase[a] = "clearing"
    /\ phase' = [phase EXCEPT ![a] = "none"]
    /\ UNCHANGED <<singleInstance, ident, sent, objects, raced>>

Unregister(a) ==
    /\ phase[a] = "clearing"
    /\ singleInstance' = NoAppender
    /\ phase' = [phase EXCEPT ![a] = "none"]
    /\ UNCHANGED <<ident, sent, objects, raced>>

-----------------------------------------------------------------------------

Init ==
    /\ singleInstance = NoAppender
    /\ ident = NoAppender
    /\ phase = [a \in Appenders |-> "none"]
    /\ sent = Nothing
    /\ objects = 0
    /\ raced = FALSE

Next == \E a \in Appenders :
    \/ Construct(a) \/ ConstructThrows(a) \/ Register(a) \/ OpenLog(a)
    \/ \E p \in Priorities : DoLog(a, p)
    \/ Destroy(a) \/ CloseLog(a) \/ Unregister(a)

Spec == Init /\ [][Next]_vars

-----------------------------------------------------------------------------
(* Properties *)

Alive(a) == phase[a] # "none"

(***************************************************************************)
(* While constructors and destructors do not overlap there is at most one  *)
(* appender, m_singleInstance is it, and nullptr if there is none: a       *)
(* constructor that throws disturbs nothing, and after the appender is     *)
(* gone a new one can be made.                                             *)
(***************************************************************************)
OneAppender ==
    ~ raced =>
       /\ \A a, b \in Appenders : Alive(a) /\ Alive(b) => a = b
       /\ \A a \in Appenders : phase[a] \notin {"none", "checking"}
                                  => singleInstance = a
       /\ (\A a \in Appenders : ~ Alive(a)) => singleInstance = NoAppender

(***************************************************************************)
(* While they do not overlap, what an appender logs goes out under its own *)
(* ident.                                                                  *)
(***************************************************************************)
OwnIdent == ~ raced /\ sent # Nothing => sent.as = sent.by

(***************************************************************************)
(* Overlapping or not: the string openlog() was given, which syslog() will *)
(* read, is never that of an appender that has been destroyed.             *)
(***************************************************************************)
IdentAlive == ident # NoAppender => Alive(ident)

(***************************************************************************)
(* The assertion "m_singleInstance == this" of setEnabled_(false).         *)
(***************************************************************************)
DestroysItself == \A a \in Appenders : phase[a] = "closing" => singleInstance = a
=============================================================================
