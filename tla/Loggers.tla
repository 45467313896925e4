------------------------------ MODULE Loggers ------------------------------
(***************************************************************************)
(* Who owns what: the objects of the C API (LogHardBackend, LogHardLogger),*)
(* the C++ Loggers inside and beside them, and the MessageBuilders of the  *)
(* log statements in progress.  All share the ownership of a C++ Backend   *)
(* by std::shared_ptr, and with it of its FileAppenders.  A Logger also    *)
(* has a prefix, which it makes from that of the Logger it is made from.   *)
(*                                                                         *)
(* Different threads may use different objects at the same time; what      *)
(* happens to one object is ordered by its clients.                        *)
(***************************************************************************)
EXTENDS Naturals, Sequences, FiniteSets, SequencesExt

CONSTANTS
    Backends,     \* LogHardBackend objects, each with a Backend of its own
    Loggers,      \* addresses of Logger and LogHardLogger objects
    Threads,
    Names,        \* words of which clients make prefixes
    Arguments,    \* what clients give as prefix: sequences of Names
    Exceptions,   \* what the calls that may throw do throw
    MaxNew,       \* bounds: objects made,
    MaxFiles,     \*   FileAppenders added to a backend,
    MaxLogs,      \*   log statements,
    MaxSets       \*   and calls of setPrefix, in a behaviour

Blank == " "

ASSUME LoggersAssumption ==
    /\ Blank \notin Names
    /\ Arguments \subseteq Seq(Names)
    /\ Exceptions \subseteq {"length_error", "bad_alloc", "other"}
    /\ {MaxNew, MaxFiles, MaxLogs, MaxSets} \subseteq Nat
    /\ Backends \cap Loggers = {}   \* objects and threads are distinct
    /\ Threads \cap (Backends \cup Loggers) = {}
    /\ "none" \notin Backends

VARIABLES
    handle,     \* the LogHardBackend objects
    uses,       \* uses[b]: use_count() of the shared_ptr to b's Backend
    files,      \* files[b]: open descriptors of FileAppenders
    logger,     \* the Logger and LogHardLogger objects
    builder,    \* builder[t]: the MessageBuilder of t's log statement
    lastError,  \* lastError[x]: the last error of the C API object x, if any
    added,      \* added[b]: successful calls of addFileAppender
    words,      \* words[l]: what clients have put into l's prefix, in order,
                \*   what of this it inherited, and what has been done to l
    made, logs, sets  \* counters

counters == <<made, logs, sets>>
vars == <<handle, uses, files, logger, builder, lastError, added, words,
          counters>>

PrefixTexts == Seq(Names \cup {Blank})

(* A moved-from Logger is "empty".  The object that a constructor of the C *)
(* API has made, but not returned, is "leaked".                            *)
LoggerStates ==
    [state : {"live", "leaked"}, c : BOOLEAN, inner : Backends,
     prefix : PrefixTexts, basePrefix : PrefixTexts]
Empty == [state |-> "empty", c |-> FALSE]
NoLogger == [state |-> "none"]
NoBuilder == [inner |-> "none"]

(* "moved": the Logger has been made by a move.  "set": its prefix, or that *)
(* of one it is made from, has been set.  "forgot": the same where it had  *)
(* been moved and had inherited something.                                 *)
Given == [inherited : Seq(Names), own : Seq(Names),
          marks : SUBSET {"moved", "set", "forgot"}]
NoWords == [inherited |-> <<>>, own |-> <<>>, marks |-> {}]

Errors == {"OK", "OUT_OF_MEMORY", "IMPLEMENTATION_LIMITS_REACHED",
           "MUTEX_ERROR", "UNKNOWN_ERROR"}

TypeOK ==
    /\ handle \in [Backends -> {"none", "live", "freed", "leaked"}]
    /\ uses \in [Backends -> Nat]
    /\ files \in [Backends -> 0 .. MaxFiles]
    /\ logger \in [Loggers -> LoggerStates \cup {Empty, NoLogger}]
    /\ builder \in [Threads -> [inner : Backends] \cup {NoBuilder}]
    /\ lastError \in [Backends \cup Loggers -> Errors]
    /\ added \in [Backends -> Nat]
    /\ words \in [Loggers -> Given]
    /\ {made, logs, sets} \subseteq Nat

Live(l) == logger[l].state = "live"

-----------------------------------------------------------------------------
(* Ownership of the Backend *)

Share(b) == uses' = [uses EXCEPT ![b] = @ + 1]

(* The last owner destroys the Backend, and with it its set of appenders:  *)
(* the FileAppenders close their descriptors.                              *)
Release(b) ==
    /\ uses' = [uses EXCEPT ![b] = @ - 1]
    /\ files' = [files EXCEPT ![b] = IF uses[b] = 1 THEN 0 ELSE @]

Make == made < MaxNew /\ made' = made + 1

-----------------------------------------------------------------------------
(* LogHardBackend *)

(* LogHardBackend_new: where the mutex of the object cannot be initialized *)
(* the object, and the Backend in it, are not deleted.  (When it throws,   *)
(* nothing has changed.)                                                   *)
NewBackend(b) ==
    /\ Make
    /\ handle[b] = "none"
    /\ \E state \in {"live", "leaked"} : handle' = [handle EXCEPT ![b] = state]
    /\ Share(b)
    /\ lastError' = [lastError EXCEPT ![b] = "OK"]
    /\ UNCHANGED <<files, logger, builder, added, words, logs, sets>>

FreeBackend(b) ==
    /\ handle[b] = "live"
    /\ handle' = [handle EXCEPT ![b] = "freed"]
    /\ Release(b)
    /\ lastError' = [lastError EXCEPT ![b] = "OK"]
    /\ UNCHANGED <<logger, builder, added, words, counters>>

AddFileAppender(b) ==
    /\ handle[b] = "live"
    /\ files[b] < MaxFiles
    /\ files' = [files EXCEPT ![b] = @ + 1]
    /\ added' = [added EXCEPT ![b] = @ + 1]
    /\ UNCHANGED <<handle, uses, logger, builder, lastError, words, counters>>

(* LOGHARD_EXCEPTIONS_TO_C_END *)
ErrorOf == [length_error |-> "IMPLEMENTATION_LIMITS_REACHED",
            bad_alloc    |-> "OUT_OF_MEMORY",
            other        |-> "UNKNOWN_ERROR"]

(* Mutant: the FileAppender is made with a plain new, and never deleted *)
AddFailsLeaky(b, exception) ==
    /\ handle[b] = "live"
    /\ files[b] < MaxFiles
    /\ files' = [files EXCEPT ![b] = @ + 1]
    /\ lastError' = [lastError EXCEPT ![b] = ErrorOf[exception]]
    /\ UNCHANGED <<handle, uses, logger, builder, added, words, counters>>

(* LogHardBackend_add...Appender when the appender cannot be made, or can  *)
(* be made but not inserted: it is destroyed again.                        *)
AddFails(b, exception) ==
    /\ handle[b] = "live"
    /\ lastError' = [lastError EXCEPT ![b] = ErrorOf[exception]]
    /\ UNCHANGED <<handle, uses, files, logger, builder, added, words,
                   counters>>

-----------------------------------------------------------------------------
(* Loggers *)

(* The prefix of a Logger made from one with this prefix: the blank at the *)
(* end of that is left out.                                                *)
Nested(prefix, arg) ==
    IF prefix # <<>> /\ Last(prefix) = Blank
    THEN Front(prefix) \o arg \o <<Blank>>
    ELSE prefix \o arg \o <<Blank>>

(* Nobody has given anything before arg. *)
First(arg) == [inherited |-> <<>>, own |-> arg, marks |-> {}]

(* What p was given comes before arg. *)
After(p, arg) ==
    [inherited |-> words[p].own, own |-> words[p].own \o arg,
     marks |-> words[p].marks \ {"moved"}]

(* An object of the C API is made at l. Where its mutex cannot be          *)
(* initialized, the object x it is made from is told, and l is not deleted.*)
NewObject(x, l, object, given) ==
    /\ Make
    /\ logger[l] = NoLogger
    /\ \/ /\ logger' = [logger EXCEPT ![l] = object]
          /\ lastError' = [lastError EXCEPT ![l] = "OK"]
       \/ /\ logger' = [logger EXCEPT ![l] = [object EXCEPT !.state = "leaked"]]
          /\ lastError' = [lastError EXCEPT ![l] = "OK", ![x] = "MUTEX_ERROR"]
    /\ Share(object.inner)
    /\ words' = [words EXCEPT ![l] = given]
    /\ UNCHANGED <<handle, files, builder, added, logs, sets>>

(* LogHardBackend_newLogger *)
NewLogger(b, l, arg) ==
    /\ handle[b] = "live"
    /\ NewObject(b, l,
                 [state |-> "live", c |-> TRUE, inner |-> b,
                  prefix |-> arg \o <<Blank>>, basePrefix |-> <<>>],
                 First(arg))

(* A Logger made from p: its prefix is nested in that of p. *)
ChildOf(p, arg, c) ==
    [state |-> "live", c |-> c, inner |-> logger[p].inner,
     prefix |-> Nested(logger[p].prefix, arg), basePrefix |-> logger[p].prefix]

(* LogHardLogger_newLogger *)
NewChild(p, l, arg) ==
    /\ Live(p) /\ logger[p].c
    /\ NewObject(p, l, ChildOf(p, arg, TRUE), After(p, arg))

(* Either, when new throws.  (The constructors of Logger are noexcept: an  *)
(* exception in one of them ends the program.)                             *)
NewFails(x) ==
    /\ IF x \in Backends THEN handle[x] = "live" ELSE Live(x) /\ logger[x].c
    /\ lastError' = [lastError EXCEPT ![x] = ErrorOf["bad_alloc"]]
    /\ UNCHANGED <<handle, uses, files, logger, builder, added, words,
                   counters>>

(* A Logger of C++ is made from p, which may be that of an object of the   *)
(* C API (LogHardLogger_cxx).                                              *)
Construct(p, l, object, given) ==
    /\ Make
    /\ Live(p) /\ logger[l] = NoLogger
    /\ logger' = [logger EXCEPT ![l] = object]
    /\ Share(object.inner)
    /\ words' = [words EXCEPT ![l] = given]
    /\ UNCHANGED <<handle, files, builder, lastError, added, logs, sets>>

(* Logger(p.backend()), with no prefix *)
Bare(p, l) ==
    Construct(p, l,
              [state |-> "live", c |-> FALSE, inner |-> logger[p].inner,
               prefix |-> <<>>, basePrefix |-> <<>>],
              First(<<>>))

(* Logger(p.backend(), arg) *)
Fresh(p, l, arg) ==
    Construct(p, l,
              [state |-> "live", c |-> FALSE, inner |-> logger[p].inner,
               prefix |-> arg \o <<Blank>>, basePrefix |-> <<>>],
              First(arg))

(* Logger(p, arg) *)
Child(p, l, arg) == Construct(p, l, ChildOf(p, arg, FALSE), After(p, arg))

(* Logger(p) *)
Copy(p, l) ==
    Construct(p, l,
              [logger[p] EXCEPT !.c = FALSE, !.basePrefix = logger[p].prefix],
              After(p, <<>>))

(* Logger(Logger &&): m_basePrefix is moved from the same string that      *)
(* m_prefix has just been moved from, and so is empty.                     *)
Move(p, l) ==
    /\ Make
    /\ Live(p) /\ ~ logger[p].c /\ logger[l] = NoLogger
    /\ logger' = [logger EXCEPT ![l] = [logger[p] EXCEPT !.basePrefix = <<>>],
                                ![p] = Empty]
    /\ words' = [words EXCEPT ![l] = [words[p] EXCEPT !.marks = @ \cup {"moved"}],
                              ![p] = NoWords]
    /\ UNCHANGED <<handle, uses, files, builder, lastError, added, logs, sets>>

(* What has been given to l once arg is set *)
Reset(l, arg) ==
    [words[l] EXCEPT
        !.own = words[l].inherited \o arg,
        !.marks = @ \cup {"set"} \cup
                     {m \in {"forgot"} : "moved" \in @ /\ words[l].inherited # <<>>}]

(* Mutant: what is set is put behind the whole old prefix *)
SetPrefixGrows(l, arg) ==
    /\ Live(l)
    /\ sets < MaxSets /\ sets' = sets + 1
    /\ logger' = [logger EXCEPT ![l].prefix = @ \o arg \o <<Blank>>]
    /\ words' = [words EXCEPT ![l] = Reset(l, arg)]
    /\ UNCHANGED <<handle, uses, files, builder, lastError, added, made, logs>>

SetPrefix(l, arg) ==
    /\ Live(l)
    /\ sets < MaxSets /\ sets' = sets + 1
    /\ logger' = [logger EXCEPT ![l].prefix =
                     logger[l].basePrefix \o arg \o <<Blank>>]
    /\ words' = [words EXCEPT ![l] = Reset(l, arg)]
    /\ UNCHANGED <<handle, uses, files, builder, lastError, added, made, logs>>

(* LogHardLogger_free, or ~Logger *)
FreeLogger(l) ==
    /\ logger[l].state \in {"live", "empty"}
    /\ logger' = [logger EXCEPT ![l] = NoLogger]
    /\ IF Live(l) THEN Release(logger[l].inner) ELSE UNCHANGED <<uses, files>>
    /\ words' = [words EXCEPT ![l] = NoWords]
    /\ lastError' = [lastError EXCEPT ![l] = "OK"]
    /\ UNCHANGED <<handle, builder, added, counters>>

-----------------------------------------------------------------------------
(* Log statements *)

(* Mutant: the builder has a plain pointer to the Backend *)
BeginLogBorrowing(t, l) ==
    /\ builder[t] = NoBuilder /\ Live(l)
    /\ logs < MaxLogs /\ logs' = logs + 1
    /\ builder' = [builder EXCEPT ![t] = [inner |-> logger[l].inner]]
    /\ UNCHANGED <<handle, uses, files, logger, lastError, added, words, made,
                   sets>>

(* The MessageBuilder's constructor copies the Logger's m_backend; it does *)
(* not use the Logger after that.                                          *)
BeginLog(t, l) ==
    /\ builder[t] = NoBuilder /\ Live(l)
    /\ logs < MaxLogs /\ logs' = logs + 1
    /\ builder' = [builder EXCEPT ![t] = [inner |-> logger[l].inner]]
    /\ Share(logger[l].inner)
    /\ UNCHANGED <<handle, files, logger, lastError, added, words, made, sets>>

(* ~MessageBuilder *)
EndLog(t) ==
    /\ builder[t] # NoBuilder
    /\ builder' = [builder EXCEPT ![t] = NoBuilder]
    /\ Release(builder[t].inner)
    /\ UNCHANGED <<handle, logger, lastError, added, words, counters>>

-----------------------------------------------------------------------------

Init ==
    /\ handle = [b \in Backends |-> "none"]
    /\ uses = [b \in Backends |-> 0]
    /\ files = [b \in Backends |-> 0]
    /\ logger = [l \in Loggers |-> NoLogger]
    /\ builder = [t \in Threads |-> NoBuilder]
    /\ lastError = [x \in Backends \cup Loggers |-> "OK"]
    /\ added = [b \in Backends |-> 0]
    /\ words = [l \in Loggers |-> NoWords]
    /\ made = 0 /\ logs = 0 /\ sets = 0

Next ==
    \/ \E b \in Backends :
          \/ NewBackend(b) \/ FreeBackend(b) \/ AddFileAppender(b)
          \/ \E e \in Exceptions : AddFails(b, e)
    \/ \E l \in Loggers, arg \in Arguments :
          \/ \E b \in Backends : NewLogger(b, l, arg)
          \/ \E p \in Loggers :
                NewChild(p, l, arg) \/ Fresh(p, l, arg) \/ Child(p, l, arg)
          \/ SetPrefix(l, arg)
    \/ \E x \in Backends \cup Loggers : NewFails(x)
    \/ \E p, l \in Loggers : Bare(p, l) \/ Copy(p, l) \/ Move(p, l)
    \/ \E l \in Loggers : FreeLogger(l)
    \/ \E t \in Threads : EndLog(t) \/ \E l \in Loggers : BeginLog(t, l)

Spec == Init /\ [][Next]_vars

-----------------------------------------------------------------------------
(* Properties *)

Owners(b) ==
    {x \in {b} : handle[b] \in {"live", "leaked"}}
    \cup {l \in Loggers : /\ logger[l].state \in {"live", "leaked"}
                          /\ logger[l].inner = b}
    \cup {t \in Threads : builder[t].inner = b}

(***************************************************************************)
(* A Backend lives exactly as long as something owns it: the object of the *)
(* C API, a Logger or a log statement in progress, in whatever order these *)
(* are made, moved and freed.  (An object that is leaked, because its      *)
(* mutex could not be initialized, owns it for ever.)                      *)
(***************************************************************************)
OwnersKeepAlive == \A b \in Backends : uses[b] > 0 <=> Owners(b) # {}

(***************************************************************************)
(* The descriptors that are open are those of the FileAppenders that have  *)
(* been added, as long as something owns the Backend they were added to: a *)
(* failed call leaves none open, and none is left when the last owner has  *)
(* gone.                                                                   *)
(***************************************************************************)
FilesBalance ==
    \A b \in Backends : files[b] = IF Owners(b) # {} THEN added[b] ELSE 0

(* How many of the first k words of a prefix are no blanks *)
Position(prefix, k) == Cardinality({j \in 1 .. k : prefix[j] # Blank})

(* Without its blanks the prefix is the sequence w. *)
ReadsAs(prefix, w) ==
    /\ Len(w) = Position(prefix, Len(prefix))
    /\ \A k \in DOMAIN prefix :
          prefix[k] # Blank => prefix[k] = w[Position(prefix, k)]

(***************************************************************************)
(* A prefix reads as what clients gave for the Loggers it was made from,   *)
(* the outermost first, each once, and for this one: setPrefix replaces    *)
(* only the last of them.  It is empty or ends in a blank, and this is the *)
(* only one unless setPrefix has been called for it or one it is made from.*)
(*                                                                         *)
(* Not where setPrefix has been called on a Logger that had been moved and *)
(* had inherited a prefix, or in one that was made from such a Logger:     *)
(* Logger(Logger &&) loses what is inherited, and setPrefix replaces all.  *)
(***************************************************************************)
PrefixNests ==
    \A l \in Loggers : Live(l) =>
       LET prefix == logger[l].prefix
       IN  /\ "forgot" \notin words[l].marks => ReadsAs(prefix, words[l].own)
           /\ prefix = <<>> \/ Last(prefix) = Blank
           /\ "set" \notin words[l].marks =>
                 \A k \in 1 .. Len(prefix) - 1 : prefix[k] # Blank
=============================================================================
