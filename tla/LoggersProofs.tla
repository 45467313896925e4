---------------------------- MODULE LoggersProofs ----------------------------
(***************************************************************************)
(* Proofs about Loggers, for any number of backends, Loggers and threads   *)
(* and any order in which they are made, moved, used and freed.            *)
(*                                                                         *)
(* That a Backend lives as long as it has an owner is not inductive: a     *)
(* step that makes or frees one of several owners needs the use_count() to *)
(* be their number.  That prefixes nest is not inductive either: setPrefix *)
(* goes back to m_basePrefix, which has to read as what is inherited, or   *)
(* be empty where a move has lost that.                                    *)
(***************************************************************************)
EXTENDS Loggers, FiniteSetTheorems, SequenceTheorems, TLAPS

(* use_count() is the number of owners. *)
Counted ==
    \A b \in Backends : /\ IsFiniteSet(Owners(b))
                        /\ uses[b] = Cardinality(Owners(b))

(* Nothing has been added to a backend before it is made. *)
Unused == \A b \in Backends : handle[b] = "none" => added[b] = 0

LInv == TypeOK /\ Counted /\ FilesBalance /\ Unused

-----------------------------------------------------------------------------
(* Owners *)

LEMMA Distinct ==
    /\ \A b \in Backends : b \notin Loggers /\ b \notin Threads /\ b # "none"
    /\ \A l \in Loggers : l \notin Threads
    /\ Arguments \subseteq Seq(Names)
    /\ Exceptions \subseteq {"length_error", "bad_alloc", "other"}
    /\ MaxNew \in Nat /\ MaxFiles \in Nat /\ MaxLogs \in Nat /\ MaxSets \in Nat
  BY LoggersAssumption

Holder(l) == logger[l].state \in {"live", "leaked"}

LEMMA HolderType ==
    ASSUME TypeOK, NEW l \in Loggers
    PROVE  /\ Holder(l) <=> logger[l] \in LoggerStates
           /\ Holder(l) => logger[l].inner \in Backends
           /\ Live(l) => Holder(l)
<1>1. logger[l] \in LoggerStates \cup {Empty, NoLogger}
  BY DEF TypeOK
<1>2. Empty.state = "empty" /\ NoLogger.state = "none"
  BY DEF Empty, NoLogger
<1>3. logger[l] \in LoggerStates
         => logger[l].state \in {"live", "leaked"} /\ logger[l].inner \in Backends
  BY DEF LoggerStates
<1> QED
  BY <1>1, <1>2, <1>3 DEF Holder, Live

LEMMA Members ==
    ASSUME NEW b \in Backends, NEW x
    PROVE  x \in Owners(b) <=>
              \/ x = b /\ handle[b] \in {"live", "leaked"}
              \/ x \in Loggers /\ Holder(x) /\ logger[x].inner = b
              \/ x \in Threads /\ builder[x].inner = b
  BY DEF Owners, Holder

(* A step in which b gets the owner x *)
LEMMA Gain ==
    ASSUME LInv, NEW b \in Backends, NEW x, x \notin Owners(b), Share(b),
           \A c \in Backends :
              Owners(c)' = IF c = b THEN Owners(b) \cup {x} ELSE Owners(c),
           UNCHANGED <<files, added>>, files[b] = added[b]
    PROVE  Counted' /\ FilesBalance' /\ uses' \in [Backends -> Nat]
<1>1. uses' = [uses EXCEPT ![b] = @ + 1] /\ uses \in [Backends -> Nat]
  BY DEF Share, LInv, TypeOK
<1>2. ASSUME NEW c \in Backends
      PROVE  /\ IsFiniteSet(Owners(c)')
             /\ uses'[c] = Cardinality(Owners(c)')
             /\ files'[c] = IF Owners(c)' # {} THEN added'[c] ELSE 0
  <2>1. /\ IsFiniteSet(Owners(c)) /\ uses[c] = Cardinality(Owners(c))
        /\ files[c] = IF Owners(c) # {} THEN added[c] ELSE 0
    BY DEF LInv, Counted, FilesBalance
  <2>2. CASE c = b
    <3>1. Owners(c)' = Owners(c) \cup {x} /\ uses'[c] = uses[c] + 1
      BY <1>1, <2>2
    <3>2. /\ IsFiniteSet(Owners(b) \cup {x})
          /\ Cardinality(Owners(b) \cup {x}) = Cardinality(Owners(b)) + 1
      BY <2>1, <2>2, FS_AddElement
    <3>3. files'[c] = added'[c] /\ Owners(c)' # {}
      BY <2>2, <3>1
    <3> QED BY <2>1, <2>2, <3>1, <3>2, <3>3
  <2>3. CASE c # b
    BY <1>1, <2>1, <2>3
  <2> QED BY <2>2, <2>3
<1>3. Counted' /\ FilesBalance'
  BY <1>2 DEF Counted, FilesBalance
<1> QED
  BY <1>1, <1>3

(* A step in which b loses the owner x *)
LEMMA Lose ==
    ASSUME LInv, NEW b \in Backends, NEW x, x \in Owners(b), Release(b),
           \A c \in Backends :
              Owners(c)' = IF c = b THEN Owners(b) \ {x} ELSE Owners(c),
           UNCHANGED added
    PROVE  /\ Counted' /\ FilesBalance'
           /\ uses' \in [Backends -> Nat]
           /\ files' \in [Backends -> 0 .. MaxFiles]
<1>1. /\ uses' = [uses EXCEPT ![b] = @ - 1] /\ uses \in [Backends -> Nat]
      /\ files' = [files EXCEPT ![b] = IF uses[b] = 1 THEN 0 ELSE @]
      /\ files \in [Backends -> 0 .. MaxFiles]
  BY DEF Release, LInv, TypeOK
<1>2. IsFiniteSet(Owners(b)) /\ uses[b] = Cardinality(Owners(b))
  BY DEF LInv, Counted
<1>3. /\ IsFiniteSet(Owners(b) \ {x})
      /\ Cardinality(Owners(b) \ {x}) = uses[b] - 1
      /\ uses[b] - 1 \in Nat
      /\ uses[b] - 1 = 0 <=> Owners(b) \ {x} = {}
  <2>1. /\ IsFiniteSet(Owners(b) \ {x})
        /\ Cardinality(Owners(b) \ {x}) = uses[b] - 1
    BY <1>2, FS_RemoveElement
  <2>2. Cardinality(Owners(b) \ {x}) \in Nat
    BY <2>1, FS_CardinalityType
  <2> QED BY <2>1, <2>2, FS_EmptySet
<1>4. ASSUME NEW c \in Backends
      PROVE  /\ IsFiniteSet(Owners(c)')
             /\ uses'[c] = Cardinality(Owners(c)')
             /\ files'[c] = IF Owners(c)' # {} THEN added'[c] ELSE 0
  <2>1. /\ IsFiniteSet(Owners(c)) /\ uses[c] = Cardinality(Owners(c))
        /\ files[c] = IF Owners(c) # {} THEN added[c] ELSE 0
    BY DEF LInv, Counted, FilesBalance
  <2>2. CASE c = b
    <3>1. Owners(c)' = Owners(b) \ {x} /\ uses'[c] = uses[b] - 1
      BY <1>1, <2>2
    <3>2. files'[c] = IF uses[b] = 1 THEN 0 ELSE files[c]
      BY <1>1, <2>2
    <3>3. uses[b] = 1 <=> Owners(c)' = {}
      BY <1>1, <1>3, <3>1
    <3>4. files[c] = added[c]
      BY <2>1, <2>2
    <3> QED BY <1>3, <3>1, <3>2, <3>3, <3>4
  <2>3. CASE c # b
    BY <1>1, <2>1, <2>3
  <2> QED BY <2>2, <2>3
<1>5. Counted' /\ FilesBalance'
  BY <1>4 DEF Counted, FilesBalance
<1>6. uses' \in [Backends -> Nat] /\ files' \in [Backends -> 0 .. MaxFiles]
  BY <1>1, <1>3, Distinct
<1> QED
  BY <1>5, <1>6

(* A step that changes neither the owners nor what they own *)
LEMMA Keep ==
    ASSUME LInv, UNCHANGED <<handle, uses, files, builder, added>>,
           \A l \in Loggers : /\ Holder(l)' <=> Holder(l)
                              /\ Holder(l) => logger'[l].inner = logger[l].inner
    PROVE  Counted' /\ FilesBalance' /\ Unused'
<1>1. ASSUME NEW b \in Backends PROVE Owners(b)' = Owners(b)
  <2>1. ASSUME NEW x PROVE x \in Owners(b)' <=> x \in Owners(b)
    BY Members DEF Owners, Holder
  <2> QED BY <2>1
<1> QED
  BY <1>1 DEF LInv, Counted, FilesBalance, Unused

(* A backend that something can log to has the descriptors added to it. *)
LEMMA OwnedFiles ==
    ASSUME LInv, NEW b \in Backends, NEW x \in Owners(b)
    PROVE  files[b] = added[b]
  BY DEF LInv, FilesBalance

-----------------------------------------------------------------------------
(* LogHardBackend *)

LEMMA NewBackendInv ==
    ASSUME LInv, NEW b \in Backends, NewBackend(b) PROVE LInv'
<1>1. PICK state \in {"live", "leaked"} : handle' = [handle EXCEPT ![b] = state]
  BY DEF NewBackend
<1>2. /\ TypeOK /\ handle[b] = "none" /\ Share(b)
      /\ handle \in [Backends -> {"none", "live", "freed", "leaked"}]
      /\ UNCHANGED <<files, logger, builder, added, words, logs, sets>>
  BY DEF NewBackend, LInv, TypeOK
<1>3. b \notin Owners(b)
  BY <1>2, Members, Distinct
<1>4. ASSUME NEW c \in Backends
      PROVE  Owners(c)' = IF c = b THEN Owners(b) \cup {b} ELSE Owners(c)
  <2>1. handle'[c] = IF c = b THEN state ELSE handle[c]
    BY <1>1, <1>2
  <2> QED BY <1>2, <2>1 DEF Owners
<1>5. files[b] = added[b]
  BY <1>2 DEF LInv, FilesBalance, Unused
<1>6. Counted' /\ FilesBalance' /\ uses' \in [Backends -> Nat]
  BY <1>2, <1>3, <1>4, <1>5, Gain
<1>7. TypeOK'
  <2>1. handle' \in [Backends -> {"none", "live", "freed", "leaked"}]
    BY <1>1, <1>2
  <2>2. made' \in Nat /\ lastError' \in [Backends \cup Loggers -> Errors]
    BY <1>2 DEF TypeOK, NewBackend, Make, Errors
  <2> QED BY <1>2, <1>6, <2>1, <2>2 DEF TypeOK
<1>8. Unused'
  BY <1>1, <1>2 DEF LInv, Unused
<1> QED
  BY <1>6, <1>7, <1>8 DEF LInv

LEMMA FreeBackendInv ==
    ASSUME LInv, NEW b \in Backends, FreeBackend(b) PROVE LInv'
<1>1. /\ TypeOK /\ handle[b] = "live" /\ Release(b)
      /\ handle' = [handle EXCEPT ![b] = "freed"]
      /\ handle \in [Backends -> {"none", "live", "freed", "leaked"}]
      /\ UNCHANGED <<logger, builder, added, words, counters>>
  BY DEF FreeBackend, LInv, TypeOK
<1>2. b \in Owners(b)
  BY <1>1, Members
<1>3. ASSUME NEW c \in Backends
      PROVE  Owners(c)' = IF c = b THEN Owners(b) \ {b} ELSE Owners(c)
  <2>1. handle'[c] = IF c = b THEN "freed" ELSE handle[c]
    BY <1>1
  <2>2. ASSUME NEW x
        PROVE  x \in Owners(c)' <=> x \in Owners(c) /\ (c = b => x # b)
    BY <1>1, <2>1, Distinct DEF Owners
  <2> QED BY <2>2
<1>4. /\ Counted' /\ FilesBalance'
      /\ uses' \in [Backends -> Nat]
      /\ files' \in [Backends -> 0 .. MaxFiles]
  BY <1>1, <1>2, <1>3, Lose
<1>5. TypeOK'
  <2>1. lastError' \in [Backends \cup Loggers -> Errors]
    <3>1. lastError \in [Backends \cup Loggers -> Errors] /\ "OK" \in Errors
      BY <1>1 DEF TypeOK, Errors
    <3> HIDE DEF Errors
    <3> QED BY <3>1 DEF FreeBackend
  <2>2. handle' \in [Backends -> {"none", "live", "freed", "leaked"}]
    BY <1>1 DEF TypeOK
  <2>3. UNCHANGED <<logger, builder, added, words, made, logs, sets>>
    BY DEF FreeBackend, counters
  <2> QED BY <1>1, <1>4, <2>1, <2>2, <2>3 DEF TypeOK
<1>6. Unused'
  BY <1>1 DEF LInv, Unused
<1> QED
  BY <1>4, <1>5, <1>6 DEF LInv

LEMMA AddFileAppenderInv ==
    ASSUME LInv, NEW b \in Backends, AddFileAppender(b) PROVE LInv'
<1>1. /\ TypeOK /\ handle[b] = "live" /\ files[b] < MaxFiles
      /\ files' = [files EXCEPT ![b] = @ + 1]
      /\ added' = [added EXCEPT ![b] = @ + 1]
      /\ UNCHANGED <<handle, uses, logger, builder, lastError, words, counters>>
  BY DEF AddFileAppender, LInv
<1>2. files[b] = added[b]
  BY <1>1, Members, OwnedFiles
<1>3. \A c \in Backends : Owners(c)' = Owners(c)
  BY <1>1 DEF Owners
<1>4. /\ files' \in [Backends -> 0 .. MaxFiles] /\ added' \in [Backends -> Nat]
  BY <1>1, Distinct DEF TypeOK
<1>5. TypeOK'
  BY <1>1, <1>4 DEF TypeOK, counters
<1>6. Counted' /\ Unused'
  BY <1>1, <1>3 DEF LInv, Counted, Unused, TypeOK
<1>7. ASSUME NEW c \in Backends
      PROVE  files'[c] = IF Owners(c)' # {} THEN added'[c] ELSE 0
  <2>1. b \in Owners(b)
    BY <1>1, Members
  <2>2. files[c] = IF Owners(c) # {} THEN added[c] ELSE 0
    BY DEF LInv, FilesBalance
  <2>3. c = b => files'[c] = added'[c]
    BY <1>1, <1>2 DEF TypeOK
  <2>4. c # b => files'[c] = files[c] /\ added'[c] = added[c]
    BY <1>1 DEF TypeOK
  <2> QED BY <1>3, <2>1, <2>2, <2>3, <2>4
<1> QED
  BY <1>5, <1>6, <1>7 DEF LInv, FilesBalance

(* The calls of the C API that fail *)
LEMMA FailsInv ==
    ASSUME LInv,
           \/ \E b \in Backends : \E e \in Exceptions : AddFails(b, e)
           \/ \E x \in Backends \cup Loggers : NewFails(x)
    PROVE  LInv'
<1>1. UNCHANGED <<handle, uses, files, logger, builder, added, words, counters>>
  BY DEF AddFails, NewFails
<1>2. Counted' /\ FilesBalance' /\ Unused'
  BY <1>1, Keep DEF Holder
<1>3. lastError' \in [Backends \cup Loggers -> Errors]
  <2>1. \A e \in {"length_error", "bad_alloc", "other"} : ErrorOf[e] \in Errors
    BY DEF ErrorOf, Errors
  <2>2. lastError \in [Backends \cup Loggers -> Errors]
    BY DEF LInv, TypeOK
  <2> HIDE DEF ErrorOf, Errors
  <2> QED BY <2>1, <2>2, Distinct DEF AddFails, NewFails
<1>4. TypeOK'
  BY <1>1, <1>3 DEF LInv, TypeOK, counters
<1> QED
  BY <1>2, <1>4 DEF LInv

-----------------------------------------------------------------------------
(* Loggers *)

(* A Logger is made at l, or the object of one that nobody gets to see. *)
LEMMA NewHolder ==
    ASSUME LInv, NEW l \in Loggers, NEW object \in LoggerStates,
           logger[l] = NoLogger,
           logger' = [logger EXCEPT ![l] = object], Share(object.inner),
           files[object.inner] = added[object.inner],
           UNCHANGED <<handle, files, builder, added>>
    PROVE  /\ Counted' /\ FilesBalance' /\ Unused'
           /\ uses' \in [Backends -> Nat]
           /\ logger' \in [Loggers -> LoggerStates \cup {Empty, NoLogger}]
<1>1. /\ logger \in [Loggers -> LoggerStates \cup {Empty, NoLogger}]
      /\ object.inner \in Backends /\ object.state \in {"live", "leaked"}
  BY DEF LInv, TypeOK, LoggerStates
<1>2. logger[l].state = "none"
  BY DEF NoLogger
<1>3. l \notin Owners(object.inner)
  BY <1>1, <1>2, Members, Distinct DEF Holder
<1>4. ASSUME NEW c \in Backends
      PROVE  Owners(c)' = IF c = object.inner THEN Owners(object.inner) \cup {l}
                                              ELSE Owners(c)
  <2>1. ASSUME NEW x
        PROVE  x \in Owners(c)' <=>
                  x \in Owners(c) \/ (c = object.inner /\ x = l)
    <3>1. CASE x = l
      <4>1. logger'[x] = object
        BY <1>1, <3>1
      <4>2. x \notin Owners(c)
        BY <1>2, <3>1, Members, Distinct DEF Holder
      <4>3. x \in Owners(c)' <=> object.inner = c
        BY <1>1, <3>1, <4>1, Distinct DEF Owners
      <4> QED BY <3>1, <4>2, <4>3
    <3>2. CASE x # l
      <4>1. x \in Loggers => logger'[x] = logger[x]
        BY <1>1, <3>2
      <4> QED BY <3>2, <4>1 DEF Owners
    <3> QED BY <3>1, <3>2
  <2> QED BY <2>1
<1>5. Counted' /\ FilesBalance' /\ uses' \in [Backends -> Nat]
  BY <1>1, <1>3, <1>4, Gain
<1>6. Unused'
  BY DEF LInv, Unused
<1> QED
  BY <1>1, <1>5, <1>6

(* What is noted of clients' words is of its type. *)
LEMMA GivenType ==
    ASSUME TypeOK, NEW p \in Loggers, NEW arg \in Seq(Names)
    PROVE  /\ words[p] \in Given /\ NoWords \in Given /\ First(arg) \in Given
           /\ After(p, arg) \in Given /\ Reset(p, arg) \in Given
           /\ [words[p] EXCEPT !.marks = @ \cup {"moved"}] \in Given
<1>1. words[p] \in Given
  BY DEF TypeOK
<1>2. words[p].own \o arg \in Seq(Names) /\ words[p].inherited \o arg \in Seq(Names)
  BY <1>1, ConcatProperties DEF Given
<1>3. NoWords \in Given /\ First(arg) \in Given
  BY DEF NoWords, First, Given
<1>4. After(p, arg) \in Given
  BY <1>1, <1>2 DEF After, Given
<1>5. Reset(p, arg) \in Given
  <2> DEFINE marks == words[p].marks \cup {"set"} \cup
                        {m \in {"forgot"} : "moved" \in words[p].marks
                                             /\ words[p].inherited # <<>>}
  <2>1. marks \in SUBSET {"moved", "set", "forgot"}
    BY <1>1 DEF Given
  <2>2. Reset(p, arg) = [words[p] EXCEPT !.own = words[p].inherited \o arg,
                                        !.marks = marks]
    BY <1>1 DEF Reset, Given
  <2> HIDE DEF marks
  <2> QED BY <1>1, <1>2, <2>1, <2>2 DEF Given
<1>6. [words[p] EXCEPT !.marks = @ \cup {"moved"}] \in Given
  BY <1>1 DEF Given
<1> QED
  BY <1>1, <1>3, <1>4, <1>5, <1>6

LEMMA NewObjectInv ==
    ASSUME LInv, NEW x \in Backends \cup Loggers, NEW l \in Loggers,
           NEW object \in LoggerStates, object.state = "live", NEW given \in Given,
           files[object.inner] = added[object.inner],
           NewObject(x, l, object, given)
    PROVE  LInv'
<1>1. /\ TypeOK /\ Make /\ logger[l] = NoLogger /\ Share(object.inner)
      /\ UNCHANGED <<handle, files, builder, added, logs, sets>>
      /\ words' = [words EXCEPT ![l] = given]
  BY DEF NewObject, LInv
<1>2. PICK made_object \in LoggerStates :
         logger' = [logger EXCEPT ![l] = made_object]
         /\ made_object.inner = object.inner
  <2>1. /\ [object EXCEPT !.state = "leaked"] \in LoggerStates
        /\ [object EXCEPT !.state = "leaked"].inner = object.inner
    BY DEF LoggerStates
  <2> QED BY <2>1 DEF NewObject
<1>3. /\ Counted' /\ FilesBalance' /\ Unused'
      /\ uses' \in [Backends -> Nat]
      /\ logger' \in [Loggers -> LoggerStates \cup {Empty, NoLogger}]
  BY <1>1, <1>2, NewHolder
<1>4. lastError' \in [Backends \cup Loggers -> Errors]
  <2>1. lastError \in [Backends \cup Loggers -> Errors]
    BY <1>1 DEF TypeOK
  <2>2. "OK" \in Errors /\ "MUTEX_ERROR" \in Errors
    BY DEF Errors
  <2> HIDE DEF Errors
  <2> QED BY <2>1, <2>2 DEF NewObject
<1>5. words' \in [Loggers -> Given]
  BY <1>1 DEF TypeOK
<1>6. TypeOK'
  <2>1. made \in Nat /\ logs \in Nat /\ sets \in Nat
    BY <1>1 DEF TypeOK
  <2>2. {made, logs, sets}' \subseteq Nat
    BY <1>1, <2>1 DEF Make
  <2>3. /\ handle \in [Backends -> {"none", "live", "freed", "leaked"}]
        /\ files \in [Backends -> 0 .. MaxFiles]
        /\ builder \in [Threads -> [inner : Backends] \cup {NoBuilder}]
        /\ added \in [Backends -> Nat]
    BY <1>1 DEF TypeOK
  <2>4. UNCHANGED <<handle, files, builder, added>>
    BY <1>1
  <2> QED BY <1>3, <1>4, <1>5, <2>2, <2>3, <2>4, Zenon DEF TypeOK
<1> QED
  BY <1>3, <1>6 DEF LInv

(* A Logger of C++ is made. *)
LEMMA ConstructInv ==
    ASSUME LInv, NEW p \in Loggers, NEW l \in Loggers, NEW object \in LoggerStates,
           NEW given \in Given, files[object.inner] = added[object.inner],
           Construct(p, l, object, given)
    PROVE  LInv'
<1>1. /\ TypeOK /\ Make /\ logger[l] = NoLogger /\ Share(object.inner)
      /\ logger' = [logger EXCEPT ![l] = object]
      /\ words' = [words EXCEPT ![l] = given]
      /\ UNCHANGED <<handle, files, builder, lastError, added, logs, sets>>
  BY DEF Construct, LInv
<1>2. /\ Counted' /\ FilesBalance' /\ Unused'
      /\ uses' \in [Backends -> Nat]
      /\ logger' \in [Loggers -> LoggerStates \cup {Empty, NoLogger}]
  BY <1>1, NewHolder
<1>3. words' \in [Loggers -> Given]
  BY <1>1 DEF TypeOK
<1>4. TypeOK'
  BY <1>1, <1>2, <1>3 DEF TypeOK, Make
<1> QED
  BY <1>2, <1>4 DEF LInv

LEMMA PrefixType ==
    ASSUME NEW prefix \in PrefixTexts, NEW arg \in Seq(Names)
    PROVE  /\ arg \o <<Blank>> \in PrefixTexts
           /\ prefix \o arg \o <<Blank>> \in PrefixTexts
           /\ Nested(prefix, arg) \in PrefixTexts
           /\ <<>> \in PrefixTexts
<1> DEFINE S == Names \cup {Blank}
<1>1. /\ prefix \in Seq(S) /\ arg \in Seq(S) /\ <<Blank>> \in Seq(S)
      /\ <<>> \in Seq(S)
  <2>1. \A i \in DOMAIN arg : arg[i] \in S
    OBVIOUS
  <2> QED BY <2>1 DEF PrefixTexts
<1>2. ASSUME NEW p \in Seq(S) PROVE p \o arg \o <<Blank>> \in Seq(S)
  <2>1. p \o arg \in Seq(S)
    BY <1>1, ConcatProperties
  <2> QED BY <1>1, <2>1, ConcatProperties
<1>3. arg \o <<Blank>> \in Seq(S)
  BY <1>1, ConcatProperties
<1>4. prefix # <<>> => Front(prefix) \in Seq(S)
  <2>1. /\ Len(prefix) \in Nat
        /\ \A i \in 1 .. Len(prefix) - 1 : prefix[i] \in S
    BY <1>1
  <2> HIDE DEF S
  <2> QED BY <2>1, SubSeqProperties DEF Front
<1> HIDE DEF S
<1>5. Nested(prefix, arg) \in Seq(S)
  BY <1>1, <1>2, <1>4 DEF Nested
<1> QED
  BY <1>1, <1>2, <1>3, <1>5 DEF PrefixTexts, S

LEMMA NewLoggerInv ==
    ASSUME LInv, NEW b \in Backends, NEW l \in Loggers, NEW arg \in Arguments,
           NewLogger(b, l, arg)
    PROVE  LInv'
<1> DEFINE object == [state |-> "live", c |-> TRUE, inner |-> b,
                      prefix |-> arg \o <<Blank>>, basePrefix |-> <<>>]
<1>1. arg \in Seq(Names) /\ handle[b] = "live"
  BY Distinct DEF NewLogger
<1>2. <<>> \in PrefixTexts
  BY DEF PrefixTexts
<1>3. object \in LoggerStates /\ object.state = "live" /\ object.inner = b
  BY <1>1, <1>2, PrefixType DEF LoggerStates
<1>4. files[b] = added[b]
  BY <1>1, Members, OwnedFiles
<1>5. NewObject(b, l, object, First(arg))
  BY DEF NewLogger
<1>6. b \in Backends \cup Loggers /\ First(arg) \in Given
  BY <1>1, GivenType DEF LInv
<1> HIDE DEF object
<1> QED
  BY <1>3, <1>4, <1>5, <1>6, NewObjectInv

(* What a Logger that can be used owns *)
LEMMA LiveLogger ==
    ASSUME LInv, NEW p \in Loggers, Live(p)
    PROVE  /\ logger[p] \in LoggerStates /\ logger[p].inner \in Backends
           /\ p \in Owners(logger[p].inner)
           /\ files[logger[p].inner] = added[logger[p].inner]
           /\ logger[p].prefix \in PrefixTexts
           /\ logger[p].basePrefix \in PrefixTexts
<1>1. logger[p] \in LoggerStates /\ Holder(p) /\ logger[p].inner \in Backends
  BY HolderType DEF LInv
<1>2. p \in Owners(logger[p].inner)
  BY <1>1, Members
<1> QED
  BY <1>1, <1>2, OwnedFiles DEF LoggerStates

(* The Logger that a live one is made into *)
LEMMA ChildType ==
    ASSUME LInv, NEW p \in Loggers, Live(p), NEW arg \in Seq(Names), NEW c \in BOOLEAN
    PROVE  /\ ChildOf(p, arg, c) \in LoggerStates
           /\ ChildOf(p, arg, c).state = "live"
           /\ ChildOf(p, arg, c).inner = logger[p].inner
<1>1. logger[p].inner \in Backends /\ logger[p].prefix \in PrefixTexts
  BY LiveLogger
<1>2. Nested(logger[p].prefix, arg) \in PrefixTexts
  BY <1>1, PrefixType
<1> QED
  BY <1>1, <1>2 DEF ChildOf, LoggerStates

LEMMA NewChildInv ==
    ASSUME LInv, NEW p \in Loggers, NEW l \in Loggers, NEW arg \in Arguments,
           NewChild(p, l, arg)
    PROVE  LInv'
<1>1. /\ arg \in Seq(Names) /\ Live(p) /\ TypeOK /\ p \in Backends \cup Loggers
      /\ NewObject(p, l, ChildOf(p, arg, TRUE), After(p, arg))
  BY Distinct DEF NewChild, LInv
<1>2. /\ ChildOf(p, arg, TRUE) \in LoggerStates
      /\ ChildOf(p, arg, TRUE).state = "live"
      /\ ChildOf(p, arg, TRUE).inner = logger[p].inner
      /\ After(p, arg) \in Given
      /\ files[logger[p].inner] = added[logger[p].inner]
  BY <1>1, ChildType, GivenType, LiveLogger
<1> QED
  BY <1>1, <1>2, NewObjectInv

LEMMA BareInv ==
    ASSUME LInv, NEW p \in Loggers, NEW l \in Loggers, Bare(p, l) PROVE LInv'
<1> DEFINE object == [state |-> "live", c |-> FALSE, inner |-> logger[p].inner,
                      prefix |-> <<>>, basePrefix |-> <<>>]
<1>1. /\ TypeOK /\ Live(p) /\ <<>> \in Seq(Names) /\ <<>> \in PrefixTexts
      /\ Construct(p, l, object, First(<<>>))
  BY DEF Bare, Construct, LInv, PrefixTexts
<1>2. /\ logger[p].inner \in Backends
      /\ files[logger[p].inner] = added[logger[p].inner]
  BY <1>1, LiveLogger
<1>3. /\ object \in LoggerStates /\ object.inner = logger[p].inner
      /\ First(<<>>) \in Given
  BY <1>1, <1>2, GivenType DEF LoggerStates
<1> HIDE DEF object
<1> QED
  BY <1>1, <1>2, <1>3, ConstructInv

LEMMA FreshInv ==
    ASSUME LInv, NEW p \in Loggers, NEW l \in Loggers, NEW arg \in Arguments,
           Fresh(p, l, arg)
    PROVE  LInv'
<1> DEFINE object == [state |-> "live", c |-> FALSE, inner |-> logger[p].inner,
                      prefix |-> arg \o <<Blank>>, basePrefix |-> <<>>]
<1>1. /\ TypeOK /\ Live(p) /\ arg \in Seq(Names) /\ <<>> \in PrefixTexts
      /\ Construct(p, l, object, First(arg))
  BY Distinct DEF Fresh, Construct, LInv, PrefixTexts
<1>2. /\ logger[p].inner \in Backends
      /\ files[logger[p].inner] = added[logger[p].inner]
  BY <1>1, LiveLogger
<1>3. /\ object \in LoggerStates /\ object.inner = logger[p].inner
      /\ First(arg) \in Given
  BY <1>1, <1>2, GivenType, PrefixType DEF LoggerStates
<1> HIDE DEF object
<1> QED
  BY <1>1, <1>2, <1>3, ConstructInv

LEMMA ChildInv ==
    ASSUME LInv, NEW p \in Loggers, NEW l \in Loggers, NEW arg \in Arguments,
           Child(p, l, arg)
    PROVE  LInv'
<1>1. /\ TypeOK /\ Live(p) /\ arg \in Seq(Names)
      /\ Construct(p, l, ChildOf(p, arg, FALSE), After(p, arg))
  BY Distinct DEF Child, Construct, LInv
<1>2. /\ ChildOf(p, arg, FALSE) \in LoggerStates
      /\ ChildOf(p, arg, FALSE).inner = logger[p].inner
      /\ After(p, arg) \in Given
      /\ files[logger[p].inner] = added[logger[p].inner]
  BY <1>1, ChildType, GivenType, LiveLogger
<1> QED
  BY <1>1, <1>2, ConstructInv

LEMMA CopyInv ==
    ASSUME LInv, NEW p \in Loggers, NEW l \in Loggers, Copy(p, l) PROVE LInv'
<1> DEFINE object == [logger[p] EXCEPT !.c = FALSE,
                                       !.basePrefix = logger[p].prefix]
<1>1. /\ TypeOK /\ Live(p) /\ <<>> \in Seq(Names)
      /\ Construct(p, l, object, After(p, <<>>))
  BY DEF Copy, Construct, LInv
<1>2. /\ logger[p] \in LoggerStates /\ logger[p].prefix \in PrefixTexts
      /\ files[logger[p].inner] = added[logger[p].inner]
      /\ After(p, <<>>) \in Given
  BY <1>1, LiveLogger, GivenType
<1>3. object \in LoggerStates /\ object.inner = logger[p].inner
  BY <1>2 DEF LoggerStates
<1> HIDE DEF object
<1> QED
  BY <1>1, <1>2, <1>3, ConstructInv

LEMMA SetPrefixInv ==
    ASSUME LInv, NEW l \in Loggers, NEW arg \in Arguments, SetPrefix(l, arg)
    PROVE  LInv'
<1> DEFINE text == logger[l].basePrefix \o arg \o <<Blank>>
<1>1. /\ TypeOK /\ Live(l) /\ arg \in Seq(Names) /\ sets' = sets + 1
      /\ logger' = [logger EXCEPT ![l].prefix = text]
      /\ words' = [words EXCEPT ![l] = Reset(l, arg)]
      /\ UNCHANGED <<handle, uses, files, builder, lastError, added, made, logs>>
  BY Distinct DEF SetPrefix, LInv
<1>2. logger[l] \in LoggerStates /\ text \in PrefixTexts
  BY <1>1, LiveLogger, PrefixType
<1> HIDE DEF text
<1>3. /\ logger' = [logger EXCEPT ![l] = [logger[l] EXCEPT !.prefix = text]]
      /\ [logger[l] EXCEPT !.prefix = text] \in LoggerStates
      /\ [logger[l] EXCEPT !.prefix = text].inner = logger[l].inner
      /\ [logger[l] EXCEPT !.prefix = text].state = logger[l].state
  BY <1>1, <1>2 DEF LoggerStates
<1>4. /\ logger' \in [Loggers -> LoggerStates \cup {Empty, NoLogger}]
      /\ \A k \in Loggers : logger'[k].inner = logger[k].inner
                            /\ logger'[k].state = logger[k].state
  BY <1>1, <1>3 DEF TypeOK
<1>5. Counted' /\ FilesBalance' /\ Unused'
  BY <1>1, <1>4, Keep DEF Holder
<1>6. words' \in [Loggers -> Given]
  <2>1. words \in [Loggers -> Given] /\ Reset(l, arg) \in Given
    BY <1>1, GivenType DEF TypeOK
  <2> QED BY <1>1, <2>1
<1>7. TypeOK'
  BY <1>1, <1>4, <1>6, SMTT(20) DEF TypeOK
<1> QED
  BY <1>5, <1>7 DEF LInv

(* A move takes p's place among the owners for l. *)
LEMMA MoveInv ==
    ASSUME LInv, NEW p \in Loggers, NEW l \in Loggers, Move(p, l) PROVE LInv'
<1> DEFINE b == logger[p].inner
           object == [logger[p] EXCEPT !.basePrefix = <<>>]
<1>1. /\ TypeOK /\ Make /\ Live(p) /\ logger[l] = NoLogger
      /\ logger' = [logger EXCEPT ![l] = object, ![p] = Empty]
      /\ words' = [words EXCEPT ![l] = [words[p] EXCEPT !.marks = @ \cup {"moved"}],
                                ![p] = NoWords]
      /\ UNCHANGED <<handle, uses, files, builder, lastError, added, logs, sets>>
  BY DEF Move, LInv
<1>2. logger[p] \in LoggerStates /\ b \in Backends /\ p \in Owners(b)
  BY <1>1, LiveLogger
<1>3. object \in LoggerStates /\ object.inner = b /\ object.state = "live"
  <2>1. <<>> \in PrefixTexts
    BY DEF PrefixTexts
  <2> QED BY <1>1, <1>2, <2>1 DEF LoggerStates, Live
<1> HIDE DEF object, b
<1>4. l # p /\ Empty.state = "empty" /\ NoLogger.state = "none"
  BY <1>1 DEF Live, NoLogger, Empty
<1>5. /\ logger' \in [Loggers -> LoggerStates \cup {Empty, NoLogger}]
      /\ logger'[l] = object /\ logger'[p] = Empty
      /\ \A k \in Loggers \ {l, p} : logger'[k] = logger[k]
  BY <1>1, <1>3, <1>4 DEF TypeOK
<1>6. ASSUME NEW c \in Backends
      PROVE  Owners(c)' = IF c = b THEN (Owners(b) \ {p}) \cup {l}
                                   ELSE Owners(c)
  <2>1. ASSUME NEW x
        PROVE  x \in Owners(c)' <=> IF x = p THEN FALSE
                                    ELSE IF x = l THEN c = b
                                    ELSE x \in Owners(c)
    <3>1. CASE x = p
      BY <1>1, <1>4, <1>5, <3>1, Distinct DEF Owners
    <3>2. CASE x = l
      BY <1>1, <1>3, <1>4, <1>5, <3>2, Distinct DEF Owners
    <3>3. CASE x # p /\ x # l
      <4>1. x \in Loggers => logger'[x] = logger[x]
        BY <1>5, <3>3
      <4> QED BY <1>1, <3>3, <4>1 DEF Owners
    <3> QED BY <1>4, <3>1, <3>2, <3>3
  <2>2. c # b => p \notin Owners(c)
    BY <1>2, Members, Distinct DEF b
  <2>3. l \notin Owners(c)
    BY <1>1, <1>4, Members, Distinct DEF Holder
  <2>4. CASE c = b
    <3>1. \A x : x \in Owners(c)' <=> x \in (Owners(b) \ {p}) \cup {l}
      BY <1>4, <2>1, <2>4
    <3> QED BY <2>4, <3>1
  <2>5. CASE c # b
    <3>1. \A x : x \in Owners(c)' <=> x \in Owners(c)
      BY <2>1, <2>2, <2>3, <2>5
    <3> QED BY <2>5, <3>1
  <2> QED BY <2>4, <2>5
<1>7. /\ IsFiniteSet((Owners(b) \ {p}) \cup {l})
      /\ Cardinality((Owners(b) \ {p}) \cup {l}) = Cardinality(Owners(b))
  <2>1. IsFiniteSet(Owners(b)) /\ Cardinality(Owners(b)) \in Nat
    BY <1>2, FS_CardinalityType DEF LInv, Counted
  <2>2. /\ IsFiniteSet(Owners(b) \ {p})
        /\ Cardinality(Owners(b) \ {p}) = Cardinality(Owners(b)) - 1
    BY <1>2, <2>1, FS_RemoveElement
  <2>3. l \notin Owners(b) \ {p}
    BY <1>1, <1>2, <1>4, Members, Distinct DEF Holder
  <2>4. /\ IsFiniteSet((Owners(b) \ {p}) \cup {l})
        /\ Cardinality((Owners(b) \ {p}) \cup {l})
             = Cardinality(Owners(b) \ {p}) + 1
    BY <2>2, <2>3, FS_AddElement
  <2> QED BY <2>1, <2>2, <2>4
<1>8. Counted'
  BY <1>1, <1>6, <1>7 DEF LInv, Counted
<1>9. FilesBalance' /\ Unused'
  BY <1>1, <1>2, <1>6 DEF LInv, FilesBalance, Unused
<1>10. words' \in [Loggers -> Given]
  <2>1. /\ words \in [Loggers -> Given] /\ NoWords \in Given
        /\ [words[p] EXCEPT !.marks = @ \cup {"moved"}] \in Given
    <3>1. <<>> \in Seq(Names)
      OBVIOUS
    <3> QED BY <1>1, <3>1, GivenType DEF TypeOK
  <2> QED BY <1>1, <2>1
<1>11. TypeOK'
  <2>1. made' \in Nat
    BY <1>1 DEF TypeOK, Make
  <2> QED BY <1>1, <1>5, <1>10, <2>1 DEF TypeOK
<1> QED
  BY <1>8, <1>9, <1>11 DEF LInv

LEMMA FreeLoggerInv ==
    ASSUME LInv, NEW l \in Loggers, FreeLogger(l) PROVE LInv'
<1>1. /\ TypeOK /\ logger[l].state \in {"live", "empty"}
      /\ logger' = [logger EXCEPT ![l] = NoLogger]
      /\ IF Live(l) THEN Release(logger[l].inner) ELSE UNCHANGED <<uses, files>>
      /\ words' = [words EXCEPT ![l] = NoWords]
      /\ lastError' = [lastError EXCEPT ![l] = "OK"]
      /\ UNCHANGED <<handle, builder, added, counters>>
  BY DEF FreeLogger, LInv
<1>2. /\ logger' \in [Loggers -> LoggerStates \cup {Empty, NoLogger}]
      /\ logger'[l].state = "none"
      /\ \A k \in Loggers : k # l => logger'[k] = logger[k]
  BY <1>1 DEF TypeOK, NoLogger
<1>3. /\ words' \in [Loggers -> Given]
      /\ lastError' \in [Backends \cup Loggers -> Errors]
  <2>1. NoWords \in Given /\ "OK" \in Errors
    BY DEF Errors, NoWords, Given
  <2> HIDE DEF Errors
  <2> QED BY <1>1, <2>1 DEF TypeOK
<1>4. ASSUME NEW c \in Backends, NEW x
      PROVE  x \in Owners(c)' <=> x \in Owners(c) /\ x # l
  <2>1. CASE x = l
    BY <1>1, <1>2, <2>1, Distinct DEF Owners
  <2>2. CASE x # l
    <3>1. x \in Loggers => logger'[x] = logger[x]
      BY <1>2, <2>2
    <3> QED BY <1>1, <2>2, <3>1 DEF Owners
  <2> QED BY <2>1, <2>2
<1>5. CASE Live(l)
  <2> DEFINE b == logger[l].inner
  <2>1. b \in Backends /\ l \in Owners(b) /\ Release(b)
    BY <1>1, <1>5, LiveLogger
  <2>2. ASSUME NEW c \in Backends
        PROVE  Owners(c)' = IF c = b THEN Owners(b) \ {l} ELSE Owners(c)
    <3>1. c # b => l \notin Owners(c)
      BY Members, Distinct
    <3> HIDE DEF b
    <3> QED BY <1>4, <3>1
  <2> HIDE DEF b
  <2>3. /\ Counted' /\ FilesBalance'
        /\ uses' \in [Backends -> Nat]
        /\ files' \in [Backends -> 0 .. MaxFiles]
    BY <1>1, <2>1, <2>2, Lose
  <2>4. TypeOK'
    BY <1>1, <1>2, <1>3, <2>3 DEF TypeOK, counters
  <2> QED BY <1>1, <2>3, <2>4 DEF LInv, Unused
<1>6. CASE ~ Live(l)
  <2>1. ~ Holder(l) /\ UNCHANGED <<uses, files>>
    BY <1>1, <1>6 DEF Holder, Live
  <2>2. \A c \in Backends : l \notin Owners(c)
    BY <2>1, Members, Distinct
  <2>3. ASSUME NEW c \in Backends PROVE Owners(c)' = Owners(c)
    BY <1>4, <2>2
  <2>4. TypeOK'
    BY <1>1, <1>2, <1>3, <2>1 DEF TypeOK, counters
  <2> QED BY <1>1, <2>1, <2>3, <2>4
          DEF LInv, Counted, FilesBalance, Unused
<1> QED
  BY <1>5, <1>6

-----------------------------------------------------------------------------
(* Log statements *)

LEMMA BeginLogInv ==
    ASSUME LInv, NEW t \in Threads, NEW l \in Loggers, BeginLog(t, l)
    PROVE  LInv'
<1> DEFINE b == logger[l].inner
<1>1. /\ TypeOK /\ builder[t] = NoBuilder /\ Live(l) /\ logs' = logs + 1
      /\ builder' = [builder EXCEPT ![t] = [inner |-> b]]
      /\ Share(b)
      /\ UNCHANGED <<handle, files, logger, lastError, added, words, made, sets>>
  BY DEF BeginLog, LInv
<1>2. b \in Backends /\ files[b] = added[b]
  BY <1>1, LiveLogger
<1> HIDE DEF b
<1>3. /\ builder' \in [Threads -> [inner : Backends] \cup {NoBuilder}]
      /\ builder'[t].inner = b
      /\ \A u \in Threads : u # t => builder'[u] = builder[u]
  BY <1>1, <1>2 DEF TypeOK
<1>4. \A c \in Backends : t \notin Owners(c)
  <2>1. builder[t].inner = "none"
    BY <1>1 DEF NoBuilder
  <2> QED BY <2>1, Members, Distinct
<1>5. ASSUME NEW c \in Backends
      PROVE  Owners(c)' = IF c = b THEN Owners(b) \cup {t} ELSE Owners(c)
  <2>1. ASSUME NEW x
        PROVE  x \in Owners(c)' <=> x \in Owners(c) \/ (c = b /\ x = t)
    <3>1. CASE x = t
      BY <1>1, <1>3, <1>4, <3>1, Distinct DEF Owners
    <3>2. CASE x # t
      <4>1. x \in Threads => builder'[x] = builder[x]
        BY <1>3, <3>2
      <4> QED BY <1>1, <3>2, <4>1 DEF Owners
    <3> QED BY <3>1, <3>2
  <2> QED BY <2>1
<1>6. Counted' /\ FilesBalance' /\ uses' \in [Backends -> Nat]
  BY <1>1, <1>2, <1>4, <1>5, Gain
<1>7. TypeOK'
  BY <1>1, <1>3, <1>6, SMTT(20) DEF TypeOK
<1> QED
  BY <1>1, <1>6, <1>7 DEF LInv, Unused

LEMMA EndLogInv ==
    ASSUME LInv, NEW t \in Threads, EndLog(t) PROVE LInv'
<1> DEFINE b == builder[t].inner
<1>1. /\ TypeOK /\ builder[t] # NoBuilder /\ Release(b)
      /\ builder' = [builder EXCEPT ![t] = NoBuilder]
      /\ UNCHANGED <<handle, logger, lastError, added, words, counters>>
  BY DEF EndLog, LInv
<1>2. b \in Backends
  BY <1>1 DEF TypeOK
<1>3. t \in Owners(b)
  BY <1>2, Members
<1>4. \A c \in Backends : c # b => t \notin Owners(c)
  BY Members, Distinct
<1> HIDE DEF b
<1>5. /\ builder' \in [Threads -> [inner : Backends] \cup {NoBuilder}]
      /\ builder'[t].inner = "none"
      /\ \A u \in Threads : u # t => builder'[u] = builder[u]
  BY <1>1 DEF TypeOK, NoBuilder
<1>6. ASSUME NEW c \in Backends
      PROVE  Owners(c)' = IF c = b THEN Owners(b) \ {t} ELSE Owners(c)
  <2>1. ASSUME NEW x
        PROVE  x \in Owners(c)' <=> x \in Owners(c) /\ x # t
    <3>1. CASE x = t
      BY <1>1, <1>5, <3>1, Distinct DEF Owners
    <3>2. CASE x # t
      <4>1. x \in Threads => builder'[x] = builder[x]
        BY <1>5, <3>2
      <4> QED BY <1>1, <3>2, <4>1 DEF Owners
    <3> QED BY <3>1, <3>2
  <2> QED BY <1>4, <2>1
<1>7. /\ Counted' /\ FilesBalance'
      /\ uses' \in [Backends -> Nat]
      /\ files' \in [Backends -> 0 .. MaxFiles]
  BY <1>1, <1>2, <1>3, <1>6, Lose
<1>8. TypeOK'
  BY <1>1, <1>5, <1>7 DEF TypeOK, counters
<1> QED
  BY <1>1, <1>7, <1>8 DEF LInv, Unused

-----------------------------------------------------------------------------
(* The theorems *)

LEMMA InitInv == Init => LInv
<1> SUFFICES ASSUME Init PROVE LInv
  OBVIOUS
<1>1. TypeOK
  <2>1. NoWords \in Given /\ "OK" \in Errors
    BY DEF Errors, NoWords, Given
  <2> QED BY <2>1, Distinct DEF Init, TypeOK
<1>2. \A b \in Backends : Owners(b) = {}
  <2>1. NoLogger.state = "none" /\ NoBuilder.inner = "none"
    BY DEF NoLogger, NoBuilder
  <2> QED BY <2>1, Distinct DEF Init, Owners
<1>3. Counted
  BY <1>2, FS_EmptySet DEF Init, Counted
<1>4. FilesBalance /\ Unused
  BY <1>2 DEF Init, FilesBalance, Unused
<1> QED
  BY <1>1, <1>3, <1>4 DEF LInv

LEMMA NextInv == LInv /\ [Next]_vars => LInv'
<1> SUFFICES ASSUME LInv, [Next]_vars PROVE LInv'
  OBVIOUS
<1>1. CASE UNCHANGED vars
  <2>1. UNCHANGED <<handle, uses, files, logger, builder, lastError, added,
                    words, made, logs, sets>>
    BY <1>1 DEF vars, counters
  <2>2. Counted' /\ FilesBalance' /\ Unused'
    BY <2>1, Keep DEF Holder
  <2> QED BY <2>1, <2>2 DEF LInv, TypeOK
<1>2. CASE \E b \in Backends :
              \/ NewBackend(b) \/ FreeBackend(b) \/ AddFileAppender(b)
              \/ \E e \in Exceptions : AddFails(b, e)
  BY <1>2, NewBackendInv, FreeBackendInv, AddFileAppenderInv, FailsInv
<1>3. CASE \E l \in Loggers, arg \in Arguments :
              \/ \E b \in Backends : NewLogger(b, l, arg)
              \/ \E p \in Loggers :
                    NewChild(p, l, arg) \/ Fresh(p, l, arg) \/ Child(p, l, arg)
              \/ SetPrefix(l, arg)
  BY <1>3, NewLoggerInv, NewChildInv, FreshInv, ChildInv, SetPrefixInv
<1>4. CASE \E x \in Backends \cup Loggers : NewFails(x)
  BY <1>4, FailsInv
<1>5. CASE \E p, l \in Loggers : Bare(p, l) \/ Copy(p, l) \/ Move(p, l)
  BY <1>5, BareInv, CopyInv, MoveInv
<1>6. CASE \E l \in Loggers : FreeLogger(l)
  BY <1>6, FreeLoggerInv
<1>7. CASE \E t \in Threads : EndLog(t) \/ \E l \in Loggers : BeginLog(t, l)
  BY <1>7, EndLogInv, BeginLogInv
<1> QED
  BY <1>1, <1>2, <1>3, <1>4, <1>5, <1>6, <1>7 DEF Next

(* The use_count() of every Backend is the number of the objects that own  *)
(* it, whatever is made, moved, copied and freed in whatever order.        *)
THEOREM OwnersAreCounted == Spec => []LInv
  BY InitInv, NextInv, PTL DEF Spec

(* The members of all objects have the values they may have.               *)
THEOREM TypeCorrect == Spec => []TypeOK
<1>1. LInv => TypeOK
  BY DEF LInv
<1> QED
  BY <1>1, OwnersAreCounted, PTL

(***************************************************************************)
(* A Backend lives exactly as long as something owns it: the               *)
(* LogHardBackend, a Logger or a log statement in progress, and for ever   *)
(* where an object is leaked because its mutex could not be initialized.   *)
(***************************************************************************)
THEOREM BackendsOutliveClients == Spec => []OwnersKeepAlive
<1>1. LInv => OwnersKeepAlive
  <2> SUFFICES ASSUME LInv, NEW b \in Backends
               PROVE  uses[b] > 0 <=> Owners(b) # {}
    BY DEF OwnersKeepAlive
  <2>1. IsFiniteSet(Owners(b)) /\ uses[b] = Cardinality(Owners(b))
    BY DEF LInv, Counted
  <2>2. uses[b] \in Nat
    BY DEF LInv, TypeOK
  <2> QED BY <2>1, <2>2, FS_EmptySet
<1> QED
  BY <1>1, OwnersAreCounted, PTL

(***************************************************************************)
(* The open descriptors are those of the FileAppenders added, as long as   *)
(* something owns the Backend (leaked objects included), and none after    *)
(* that.                                                                   *)
(***************************************************************************)
THEOREM NoDescriptorLeaks == Spec => []FilesBalance
<1>1. LInv => FilesBalance
  BY DEF LInv
<1> QED
  BY <1>1, OwnersAreCounted, PTL

-----------------------------------------------------------------------------
(* Prefixes *)

Unblank(p, k) == {j \in 1 .. k : p[j] # Blank}

LEMMA PositionIs ==
    ASSUME NEW p, NEW k \in Nat
    PROVE  /\ IsFiniteSet(Unblank(p, k))
           /\ Position(p, k) = Cardinality(Unblank(p, k))
           /\ Position(p, k) \in Nat
<1>1. IsFiniteSet(1 .. k)
  BY FS_Interval
<1>2. Unblank(p, k) \in SUBSET (1 .. k)
  BY DEF Unblank
<1>3. IsFiniteSet(Unblank(p, k))
  BY <1>1, <1>2, FS_Subset
<1>4. Cardinality(Unblank(p, k)) \in Nat
  BY <1>3, FS_CardinalityType
<1> QED
  BY <1>3, <1>4 DEF Position, Unblank

(* A word that is no blank is among those counted at its position. *)
LEMMA PositionBounds ==
    ASSUME NEW p, NEW n \in Nat, NEW k \in 1 .. n, p[k] # Blank
    PROVE  Position(p, k) \in 1 .. Position(p, n)
<1>1. k \in Nat /\ k <= n /\ k >= 1
  OBVIOUS
<1>2. Unblank(p, k) \in SUBSET Unblank(p, n)
  BY <1>1 DEF Unblank
<1>3. Position(p, k) <= Position(p, n)
  BY <1>1, <1>2, PositionIs, FS_Subset
<1>4. k \in Unblank(p, k)
  BY <1>1 DEF Unblank
<1>5. Position(p, k) # 0
  BY <1>1, <1>4, PositionIs, FS_EmptySet
<1> QED
  BY <1>1, <1>3, <1>5, PositionIs

(* What comes later does not change how a prefix begins. *)
LEMMA SamePositions ==
    ASSUME NEW p, NEW q, NEW k, \A j \in 1 .. k : p[j] # Blank <=> q[j] # Blank
    PROVE  Position(p, k) = Position(q, k)
<1>1. {j \in 1 .. k : p[j] # Blank} = {j \in 1 .. k : q[j] # Blank}
  OBVIOUS
<1> QED
  BY <1>1 DEF Position

(* A blank is not counted. *)
LEMMA BlankAfter ==
    ASSUME NEW p, NEW n \in Nat, p[n + 1] = Blank
    PROVE  Position(p, n + 1) = Position(p, n)
<1>1. ASSUME NEW j
      PROVE  j \in 1 .. n + 1 /\ p[j] # Blank <=> j \in 1 .. n /\ p[j] # Blank
  OBVIOUS
<1>2. {j \in 1 .. n + 1 : p[j] # Blank} = {j \in 1 .. n : p[j] # Blank}
  BY <1>1
<1> QED
  BY <1>2 DEF Position

(* Words are. *)
LEMMA WordsAfter ==
    ASSUME NEW p, NEW n \in Nat, NEW m \in Nat,
           \A j \in n + 1 .. n + m : p[j] # Blank
    PROVE  Position(p, n + m) = Position(p, n) + m
<1> DEFINE S == Unblank(p, n)
           T == n + 1 .. n + m
<1>1. IsFiniteSet(S) /\ Position(p, n) = Cardinality(S) /\ Position(p, n) \in Nat
  BY PositionIs
<1>2. IsFiniteSet(T) /\ Cardinality(T) = m
  BY FS_Interval
<1>3. S \cap T = {}
  BY DEF Unblank
<1>4. Unblank(p, n + m) = S \cup T
  <2>1. ASSUME NEW j
        PROVE  j \in Unblank(p, n + m) <=> j \in S \cup T
    BY DEF Unblank
  <2> QED BY <2>1
<1>5. Position(p, n + m) = Cardinality(S \cup T)
  BY <1>4, PositionIs
<1> HIDE DEF S, T
<1>6. Cardinality(S \cup T) = Cardinality(S) + Cardinality(T) - Cardinality(S \cap T)
  BY <1>1, <1>2, FS_Union
<1>7. Cardinality(S \cap T) = 0
  BY <1>3, FS_EmptySet
<1> QED
  BY <1>1, <1>2, <1>5, <1>6, <1>7

LEMMA ReadsNothing == ReadsAs(<<>>, <<>>)
<1>1. {j \in 1 .. 0 : <<>>[j] # Blank} = {}
  OBVIOUS
<1>2. Position(<<>>, 0) = 0
  BY <1>1, FS_EmptySet DEF Position
<1> QED
  BY <1>2 DEF ReadsAs

LEMMA ReadsMore ==
    ASSUME NEW p \in PrefixTexts, NEW w \in Seq(Names), NEW a \in Seq(Names),
           ReadsAs(p, w)
    PROVE  p \o a \in PrefixTexts /\ ReadsAs(p \o a, w \o a)
<1> DEFINE S == Names \cup {Blank}
<1>1. p \in Seq(S) /\ a \in Seq(S) /\ Blank \notin Names
  <2>1. \A i \in DOMAIN a : a[i] \in S
    OBVIOUS
  <2> QED BY <2>1, LoggersAssumption DEF PrefixTexts
<1> HIDE DEF S
<1>2. /\ p \o a \in Seq(S) /\ Len(p \o a) = Len(p) + Len(a)
      /\ \A i \in 1 .. Len(p) + Len(a) :
            (p \o a)[i] = IF i <= Len(p) THEN p[i] ELSE a[i - Len(p)]
  BY <1>1, ConcatProperties
<1>3. /\ w \o a \in Seq(Names) /\ Len(w \o a) = Len(w) + Len(a)
      /\ \A i \in 1 .. Len(w) + Len(a) :
            (w \o a)[i] = IF i <= Len(w) THEN w[i] ELSE a[i - Len(w)]
  BY ConcatProperties
<1> DEFINE q == p \o a
           v == w \o a
<1>4. Len(p) \in Nat /\ Len(a) \in Nat /\ Len(w) \in Nat
  BY <1>1
<1>5. /\ \A i \in 1 .. Len(p) : q[i] = p[i]
      /\ \A i \in 1 .. Len(a) : q[Len(p) + i] = a[i]
  BY <1>2, <1>4
<1>6. /\ \A i \in 1 .. Len(w) : v[i] = w[i]
      /\ \A i \in 1 .. Len(a) : v[Len(w) + i] = a[i]
  BY <1>3, <1>4
<1>7. q \in Seq(S) /\ Len(q) = Len(p) + Len(a) /\ Len(v) = Len(w) + Len(a)
      /\ DOMAIN q = 1 .. Len(p) + Len(a)
  BY <1>2, <1>3
<1> HIDE DEF q, v
<1>8. ASSUME NEW k \in 0 .. Len(p)
      PROVE  Position(q, k) = Position(p, k)
  <2>1. \A j \in 1 .. k : p[j] # Blank <=> q[j] # Blank
    BY <1>4, <1>5
  <2> QED BY <2>1, SamePositions
<1>9. Len(w) = Position(q, Len(p))
  <2>1. Len(p) \in 0 .. Len(p)
    BY <1>4
  <2> QED BY <1>8, <2>1 DEF ReadsAs
<1>10. ASSUME NEW i \in 0 .. Len(a)
       PROVE  Position(q, Len(p) + i) = Len(w) + i
  <2>1. ASSUME NEW j \in Len(p) + 1 .. Len(p) + i
        PROVE  q[j] # Blank
    <3>1. j - Len(p) \in 1 .. Len(a) /\ Len(p) + (j - Len(p)) = j
      BY <1>4
    <3>2. q[Len(p) + (j - Len(p))] = a[j - Len(p)] /\ a[j - Len(p)] \in Names
      BY <1>5, <3>1
    <3> QED BY <1>1, <3>1, <3>2
  <2> QED BY <1>4, <1>9, <2>1, WordsAfter
<1>11. Len(v) = Position(q, Len(q))
  <2>1. Len(a) \in 0 .. Len(a)
    BY <1>4
  <2> QED BY <1>7, <1>10, <2>1
<1>12. ASSUME NEW k \in 1 .. Len(p) + Len(a), q[k] # Blank
       PROVE  q[k] = v[Position(q, k)]
  <2>1. CASE k <= Len(p)
    <3>1. k \in 1 .. Len(p) /\ k \in 0 .. Len(p) /\ k \in DOMAIN p
      BY <1>1, <1>4, <2>1
    <3>2. q[k] = p[k] /\ Position(q, k) = Position(p, k)
      BY <1>5, <1>8, <3>1
    <3>3. Position(p, k) \in 1 .. Len(w) /\ p[k] = w[Position(p, k)]
      BY <1>4, <1>12, <3>1, <3>2, PositionBounds DEF ReadsAs
    <3> QED BY <1>6, <3>2, <3>3
  <2>2. CASE ~ (k <= Len(p))
    <3>1. k - Len(p) \in 1 .. Len(a) /\ k - Len(p) \in 0 .. Len(a) /\ Len(p) + (k - Len(p)) = k
      BY <1>4, <2>2
    <3>2. Position(q, k) = Len(w) + (k - Len(p))
      BY <1>10, <3>1
    <3>3. q[k] = a[k - Len(p)] /\ v[Len(w) + (k - Len(p))] = a[k - Len(p)]
      BY <1>5, <1>6, <3>1
    <3> QED BY <3>2, <3>3
  <2> QED BY <2>1, <2>2
<1>13. ReadsAs(q, v)
  BY <1>7, <1>11, <1>12 DEF ReadsAs
<1> QED
  BY <1>7, <1>13 DEF q, v, S, PrefixTexts

LEMMA ReadsBlank ==
    ASSUME NEW p \in PrefixTexts, NEW w \in Seq(Names), ReadsAs(p, w)
    PROVE  /\ p \o <<Blank>> \in PrefixTexts /\ p \o <<Blank>> # <<>>
           /\ ReadsAs(p \o <<Blank>>, w) /\ Last(p \o <<Blank>>) = Blank
<1> DEFINE S == Names \cup {Blank}
           q == p \o <<Blank>>
<1>1. p \in Seq(S) /\ <<Blank>> \in Seq(S) /\ Len(p) \in Nat /\ DOMAIN p = 1 .. Len(p)
  BY DEF PrefixTexts
<1> HIDE DEF S
<1>2. /\ q \in Seq(S) /\ Len(q) = Len(p) + 1
      /\ \A i \in 1 .. Len(p) : q[i] = p[i]
      /\ q[Len(p) + 1] = Blank
  BY <1>1, ConcatProperties
<1> HIDE DEF q
<1>3. DOMAIN q = 1 .. Len(p) + 1
  BY <1>2
<1>4. ASSUME NEW k \in 0 .. Len(p)
      PROVE  Position(q, k) = Position(p, k)
  <2>1. \A j \in 1 .. k : p[j] # Blank <=> q[j] # Blank
    BY <1>1, <1>2
  <2> QED BY <2>1, SamePositions
<1>5. Position(q, Len(q)) = Position(p, Len(p))
  <2>1. Position(q, Len(p) + 1) = Position(q, Len(p))
    BY <1>1, <1>2, BlankAfter
  <2>2. Len(p) \in 0 .. Len(p)
    BY <1>1
  <2> QED BY <1>2, <1>4, <2>1, <2>2
<1>6. ASSUME NEW k \in 1 .. Len(p) + 1, q[k] # Blank
      PROVE  q[k] = w[Position(q, k)]
  <2>1. k \in 1 .. Len(p) /\ k \in 0 .. Len(p)
    BY <1>1, <1>2, <1>6
  <2> QED BY <1>1, <1>2, <1>4, <1>6, <2>1 DEF ReadsAs
<1>7. ReadsAs(q, w)
  BY <1>3, <1>5, <1>6 DEF ReadsAs
<1>8. q # <<>> /\ Last(q) = Blank
  BY <1>1, <1>2 DEF Last
<1> QED
  BY <1>2, <1>7, <1>8 DEF q, S, PrefixTexts

LEMMA ReadsFront ==
    ASSUME NEW p \in PrefixTexts, NEW w \in Seq(Names), ReadsAs(p, w),
           p # <<>>, Last(p) = Blank
    PROVE  Front(p) \in PrefixTexts /\ ReadsAs(Front(p), w)
<1> DEFINE S == Names \cup {Blank}
           q == Front(p)
<1>1. p \in Seq(S) /\ Len(p) \in Nat /\ Len(p) # 0 /\ DOMAIN p = 1 .. Len(p)
  BY DEF PrefixTexts
<1> HIDE DEF S
<1>2. p[Len(p)] = Blank
  BY DEF Last
<1>3. /\ q \in Seq(S) /\ Len(q) = Len(p) - 1
      /\ \A i \in 1 .. Len(p) - 1 : q[i] = p[i]
  <2>1. /\ 1 \in 1 .. Len(p) + 1 /\ Len(p) - 1 \in 1 - 1 .. Len(p)
        /\ \A i \in 1 .. Len(p) - 1 : p[i] \in S
    BY <1>1
  <2> QED BY <1>1, <2>1, SubSeqProperties DEF Front
<1> HIDE DEF q
<1>4. DOMAIN q = 1 .. Len(p) - 1
  BY <1>3
<1>5. ASSUME NEW k \in 0 .. Len(p) - 1
      PROVE  Position(q, k) = Position(p, k)
  <2>1. \A j \in 1 .. k : p[j] # Blank <=> q[j] # Blank
    BY <1>1, <1>3
  <2> QED BY <2>1, SamePositions
<1>6. Position(q, Len(q)) = Position(p, Len(p))
  <2>1. Len(p) - 1 \in Nat /\ Len(p) - 1 + 1 = Len(p) /\ Len(p) - 1 \in 0 .. Len(p) - 1
    BY <1>1
  <2>2. Position(p, Len(p) - 1 + 1) = Position(p, Len(p) - 1)
    BY <1>2, <2>1, BlankAfter
  <2> QED BY <1>3, <1>5, <2>1, <2>2
<1>7. ASSUME NEW k \in 1 .. Len(p) - 1, q[k] # Blank
      PROVE  q[k] = w[Position(q, k)]
  <2>1. k \in 1 .. Len(p) /\ k \in 0 .. Len(p) - 1
    BY <1>1
  <2> QED BY <1>1, <1>3, <1>5, <1>7, <2>1 DEF ReadsAs
<1>8. ReadsAs(q, w)
  BY <1>4, <1>6, <1>7 DEF ReadsAs
<1> QED
  BY <1>3, <1>8 DEF q, S, PrefixTexts

(* There is no blank in a prefix but at its end. *)
Single(p) == \A k \in 1 .. Len(p) - 1 : p[k] # Blank

LEMMA SingleBlank ==
    ASSUME NEW p \in PrefixTexts, \A k \in 1 .. Len(p) : p[k] # Blank,
           NEW a \in Seq(Names)
    PROVE  Single(p \o a \o <<Blank>>)
<1> DEFINE S == Names \cup {Blank}
           q == p \o a
           r == q \o <<Blank>>
<1>1. /\ p \in Seq(S) /\ a \in Seq(S) /\ Blank \notin Names /\ <<Blank>> \in Seq(S)
      /\ Len(p) \in Nat /\ Len(a) \in Nat
  <2>1. \A i \in DOMAIN a : a[i] \in S
    OBVIOUS
  <2> QED BY <2>1, LoggersAssumption DEF PrefixTexts
<1>2. \A i \in 1 .. Len(a) : a[i] # Blank
  BY <1>1
<1> HIDE DEF S
<1>3. /\ q \in Seq(S) /\ Len(q) = Len(p) + Len(a)
      /\ \A i \in 1 .. Len(p) + Len(a) :
            q[i] = IF i <= Len(p) THEN p[i] ELSE a[i - Len(p)]
  BY <1>1, ConcatProperties
<1> HIDE DEF q
<1>4. /\ Len(r) = Len(q) + 1
      /\ \A i \in 1 .. Len(q) : r[i] = q[i]
  BY <1>1, <1>3, ConcatProperties
<1> HIDE DEF r
<1>5. ASSUME NEW k \in 1 .. Len(r) - 1 PROVE r[k] # Blank
  <2>1. k \in 1 .. Len(p) + Len(a) /\ r[k] = q[k]
    BY <1>1, <1>3, <1>4
  <2>2. CASE k <= Len(p)
    BY <1>1, <1>3, <2>1, <2>2
  <2>3. CASE ~ (k <= Len(p))
    <3>1. k - Len(p) \in 1 .. Len(a)
      BY <1>1, <2>1, <2>3
    <3> QED BY <1>2, <1>3, <2>1, <2>3, <3>1
  <2> QED BY <2>2, <2>3
<1> QED
  BY <1>5 DEF Single, q, r

LEMMA FrontIs ==
    ASSUME NEW S, NEW p \in Seq(S), p # <<>>
    PROVE  /\ Front(p) \in Seq(S) /\ Len(Front(p)) = Len(p) - 1
           /\ \A i \in 1 .. Len(p) - 1 : Front(p)[i] = p[i]
<1> DEFINE n == Len(p) - 1
<1>1. n \in Nat /\ \A i \in 1 .. n : p[i] \in S
  OBVIOUS
<1> HIDE DEF n
<1> DEFINE q == SubSeq(p, 1, n)
<1>2. /\ q \in Seq(S) /\ Len(q) = IF 1 <= n THEN n - 1 + 1 ELSE 0
      /\ \A i \in 1 .. n - 1 + 1 : q[i] = p[1 + i - 1]
  BY <1>1, SubSeqProperties
<1> HIDE DEF q
<1>3. q \in Seq(S) /\ Len(q) = n /\ \A i \in 1 .. n : q[i] = p[i]
  BY <1>1, <1>2
<1>4. Front(p) = q
  BY DEF Front, q, n
<1> QED
  BY <1>3, <1>4 DEF n

(* Nesting leaves the blank out that is at the end. *)
LEMMA NestedSingle ==
    ASSUME NEW p \in PrefixTexts, p = <<>> \/ Last(p) = Blank, Single(p),
           NEW a \in Seq(Names)
    PROVE  Single(Nested(p, a))
<1> DEFINE S == Names \cup {Blank}
<1>1. CASE p = <<>>
  <2>1. Nested(p, a) = p \o a \o <<Blank>>
    BY <1>1, Zenon DEF Nested
  <2>2. \A k \in 1 .. Len(p) : p[k] # Blank
    BY <1>1
  <2> QED BY <2>1, <2>2, SingleBlank
<1>2. CASE p # <<>> /\ Last(p) = Blank
  <2>1. p \in Seq(S) /\ Len(p) \in Nat /\ Len(p) # 0
    BY <1>2 DEF PrefixTexts
  <2> HIDE DEF S
  <2> DEFINE q == Front(p)
  <2>2. /\ q \in Seq(S) /\ Len(q) = Len(p) - 1
        /\ \A i \in 1 .. Len(p) - 1 : q[i] = p[i]
    BY <1>2, <2>1, FrontIs
  <2> HIDE DEF q
  <2>3. \A k \in 1 .. Len(q) : q[k] # Blank
    BY <1>2, <2>1, <2>2 DEF Single
  <2>4. Nested(p, a) = Front(p) \o a \o <<Blank>>
    BY <1>2 DEF Nested
  <2>5. Nested(p, a) = q \o a \o <<Blank>>
    BY <2>4 DEF q
  <2> QED BY <2>2, <2>3, <2>5, SingleBlank DEF S, PrefixTexts
<1> QED
  BY <1>1, <1>2

(* What a Logger goes back to when setPrefix is called: nothing once it has *)
(* been moved                                                              *)
GoesBackTo(w) == IF "moved" \in w.marks THEN <<>> ELSE w.inherited

(* What can be read of a Logger o whose clients have given it the words w: *)
(* the prefix of the Logger it is made from too, to which setPrefix goes   *)
(* back.                                                                   *)
Worded(o, w) ==
    /\ o.prefix = <<>> \/ Last(o.prefix) = Blank
    /\ "forgot" \notin w.marks =>
          ReadsAs(o.prefix, w.own) /\ ReadsAs(o.basePrefix, GoesBackTo(w))
    /\ "set" \notin w.marks => Single(o.prefix)

Nesting == \A l \in Loggers : Live(l) => Worded(logger[l], words[l])

LEMMA ReadsArgument ==
    ASSUME NEW p \in PrefixTexts, NEW w \in Seq(Names), NEW a \in Seq(Names), ReadsAs(p, w)
    PROVE  LET q == p \o a \o <<Blank>>
           IN  q # <<>> /\ Last(q) = Blank /\ ReadsAs(q, w \o a)
<1>1. p \o a \in PrefixTexts /\ ReadsAs(p \o a, w \o a)
  BY ReadsMore
<1>2. w \o a \in Seq(Names)
  BY ConcatProperties
<1> QED
  BY <1>1, <1>2, ReadsBlank

LEMMA ArgumentLast ==
    ASSUME NEW p \in PrefixTexts, NEW a \in Seq(Names)
    PROVE  Last(p \o a \o <<Blank>>) = Blank
<1> DEFINE S == Names \cup {Blank}
<1>1. p \in Seq(S) /\ a \in Seq(S) /\ <<Blank>> \in Seq(S)
  <2>1. \A i \in DOMAIN a : a[i] \in S
    OBVIOUS
  <2> QED BY <2>1 DEF PrefixTexts
<1> HIDE DEF S
<1> DEFINE q == p \o a
<1>2. q \in Seq(S)
  BY <1>1, ConcatProperties
<1> HIDE DEF q
<1>3. /\ q \o <<Blank>> \in Seq(S) /\ Len(q \o <<Blank>>) = Len(q) + 1
      /\ (q \o <<Blank>>)[Len(q) + 1] = Blank
  BY <1>1, <1>2, ConcatProperties
<1> QED
  BY <1>3 DEF Last, q

LEMMA NestedLast ==
    ASSUME NEW p \in PrefixTexts, NEW a \in Seq(Names)
    PROVE  Last(Nested(p, a)) = Blank
<1>1. p # <<>> => Front(p) \in PrefixTexts
  BY FrontIs DEF PrefixTexts
<1> QED
  BY <1>1, ArgumentLast, Zenon DEF Nested

LEMMA NestedReads ==
    ASSUME NEW p \in PrefixTexts, NEW w \in Seq(Names), NEW a \in Seq(Names), ReadsAs(p, w)
    PROVE  LET q == Nested(p, a)
           IN  q # <<>> /\ Last(q) = Blank /\ ReadsAs(q, w \o a)
<1>1. CASE p # <<>> /\ Last(p) = Blank
  <2>1. Front(p) \in PrefixTexts /\ ReadsAs(Front(p), w)
    BY <1>1, ReadsFront
  <2>2. Nested(p, a) = Front(p) \o a \o <<Blank>>
    BY <1>1 DEF Nested
  <2> QED BY <2>1, <2>2, ReadsArgument
<1>2. CASE ~ (p # <<>> /\ Last(p) = Blank)
  <2>1. Nested(p, a) = p \o a \o <<Blank>>
    BY <1>2, Zenon DEF Nested
  <2> QED BY <2>1, ReadsArgument
<1> QED
  BY <1>1, <1>2

(* A step that leaves the other Loggers alone *)
LEMMA NestingKept ==
    ASSUME Nesting,
           \A l \in Loggers : logger'[l].state = "live" =>
              \/ logger'[l] = logger[l] /\ words'[l] = words[l]
              \/ Worded(logger'[l], words'[l])
    PROVE  Nesting'
<1> SUFFICES ASSUME NEW l \in Loggers, logger'[l].state = "live"
             PROVE  Worded(logger'[l], words'[l])
  BY DEF Nesting, Live
<1>1. CASE logger'[l] = logger[l] /\ words'[l] = words[l]
  <2>1. Worded(logger[l], words[l])
    BY <1>1 DEF Nesting, Live
  <2> QED BY <1>1, <2>1
<1> QED
  BY <1>1

(* The prefix of a Logger that is made from no other *)
LEMMA FirstWorded ==
    ASSUME NEW arg \in Seq(Names), NEW o,
           o.prefix = arg \o <<Blank>>, o.basePrefix = <<>>
    PROVE  Worded(o, First(arg))
<1>1. <<>> \in Seq(Names) /\ <<>> \in PrefixTexts /\ <<>> \o arg = arg
  BY ConcatEmptySeq DEF PrefixTexts
<1>2. LET q == <<>> \o arg \o <<Blank>>
      IN  q # <<>> /\ Last(q) = Blank /\ ReadsAs(q, <<>> \o arg)
  BY <1>1, ReadsNothing, ReadsArgument
<1>3. \A k \in 1 .. Len(<<>>) : <<>>[k] # Blank
  OBVIOUS
<1>4. Single(<<>> \o arg \o <<Blank>>)
  BY <1>1, <1>3, SingleBlank
<1> DEFINE text == arg \o <<Blank>>
<1>5. Last(text) = Blank /\ ReadsAs(text, arg) /\ Single(text)
  BY <1>1, <1>2, <1>4
<1> HIDE DEF text
<1>6. o.prefix = text
  BY DEF text
<1>7. First(arg).own = arg /\ GoesBackTo(First(arg)) = <<>>
  BY DEF First, GoesBackTo
<1> QED
  BY <1>5, <1>6, <1>7, ReadsNothing DEF Worded

(* That of one made from p *)
LEMMA ChildWorded ==
    ASSUME LInv, Nesting, NEW p \in Loggers, Live(p), NEW arg \in Seq(Names), NEW c
    PROVE  Worded(ChildOf(p, arg, c), After(p, arg))
<1> DEFINE w == words[p]
           o == ChildOf(p, arg, c)
<1>1. /\ w \in Given /\ w.own \in Seq(Names) /\ logger[p].prefix \in PrefixTexts
      /\ Worded(logger[p], w)
  BY LiveLogger DEF LInv, TypeOK, Given, Nesting
<1>2. o.prefix = Nested(logger[p].prefix, arg) /\ o.basePrefix = logger[p].prefix
  BY DEF ChildOf
<1>3. /\ After(p, arg).own = w.own \o arg
      /\ GoesBackTo(After(p, arg)) = w.own
      /\ "forgot" \in After(p, arg).marks <=> "forgot" \in w.marks
      /\ "set" \in After(p, arg).marks <=> "set" \in w.marks
  BY DEF After, GoesBackTo
<1> HIDE DEF w, o
<1>4. Nested(logger[p].prefix, arg) = <<>> \/ Last(Nested(logger[p].prefix, arg)) = Blank
  BY <1>1, NestedLast
<1>5. ASSUME "forgot" \notin w.marks
      PROVE  /\ ReadsAs(Nested(logger[p].prefix, arg), w.own \o arg)
             /\ ReadsAs(logger[p].prefix, w.own)
  <2>1. ReadsAs(logger[p].prefix, w.own)
    BY <1>1, <1>5 DEF Worded
  <2> QED BY <1>1, <2>1, NestedReads
<1>6. ASSUME "set" \notin w.marks
      PROVE  Single(Nested(logger[p].prefix, arg))
  BY <1>1, <1>6, NestedSingle DEF Worded
<1>7. Worded(o, After(p, arg))
  BY <1>2, <1>3, <1>4, <1>5, <1>6 DEF Worded
<1> QED
  BY <1>7 DEF o

(* A Logger is made. *)
LEMMA MadeNesting ==
    ASSUME TypeOK, Nesting, NEW l \in Loggers, NEW object \in LoggerStates, NEW given,
           \/ logger' = [logger EXCEPT ![l] = object]
           \/ logger' = [logger EXCEPT ![l] = [object EXCEPT !.state = "leaked"]],
           words' = [words EXCEPT ![l] = given], Worded(object, given)
    PROVE  Nesting'
<1>1. l \in DOMAIN logger /\ l \in DOMAIN words
  BY DEF TypeOK
<1>2. ASSUME NEW k \in Loggers, k # l
      PROVE  logger'[k] = logger[k] /\ words'[k] = words[k]
  BY <1>2 DEF TypeOK
<1>3. words'[l] = given
  BY <1>1
<1>4. CASE logger' = [logger EXCEPT ![l] = object]
  <2>1. logger'[l] = object
    BY <1>1, <1>4
  <2>2. Worded(logger'[l], words'[l])
    BY <1>3, <2>1
  <2> QED BY <1>2, <2>2, NestingKept
<1>5. CASE logger' = [logger EXCEPT ![l] = [object EXCEPT !.state = "leaked"]]
  <2>1. logger'[l] = [object EXCEPT !.state = "leaked"]
    BY <1>1, <1>5
  <2>2. logger'[l].state # "live"
    BY <2>1 DEF LoggerStates
  <2> QED BY <1>2, <2>2, NestingKept
<1> QED
  BY <1>4, <1>5

LEMMA NestingStep == LInv /\ Nesting /\ [Next]_vars => Nesting'
<1> SUFFICES ASSUME LInv, Nesting, [Next]_vars
             PROVE  Nesting'
  OBVIOUS
<1>1. TypeOK
  BY DEF LInv
<1>2. ASSUME NEW l \in Loggers
      PROVE  /\ words[l] \in Given
             /\ words[l].inherited \in Seq(Names) /\ words[l].own \in Seq(Names)
  BY <1>1 DEF TypeOK, Given
<1>3. ASSUME NEW l \in Loggers, Live(l)
      PROVE  /\ logger[l].prefix \in PrefixTexts /\ logger[l].basePrefix \in PrefixTexts
             /\ logger[l] \in LoggerStates /\ Worded(logger[l], words[l])
  BY <1>3, LiveLogger DEF Nesting
<1>4. ASSUME UNCHANGED <<logger, words>>
      PROVE  Nesting'
  BY <1>4, NestingKept
<1>5. ASSUME NEW l \in Loggers, NEW arg \in Arguments,
             \/ \E b \in Backends : NewLogger(b, l, arg)
             \/ \E p \in Loggers : Fresh(p, l, arg)
      PROVE  Nesting'
  <2>1. arg \in Seq(Names) /\ arg \o <<Blank>> \in PrefixTexts /\ <<>> \in PrefixTexts
    BY Distinct, PrefixType DEF PrefixTexts
  <2>2. PICK object \in LoggerStates :
           /\ object.prefix = arg \o <<Blank>> /\ object.basePrefix = <<>>
           /\ \/ logger' = [logger EXCEPT ![l] = object]
              \/ logger' = [logger EXCEPT ![l] = [object EXCEPT !.state = "leaked"]]
           /\ words' = [words EXCEPT ![l] = First(arg)]
    <3>1. ASSUME NEW b \in Backends, NewLogger(b, l, arg)
          PROVE  [state |-> "live", c |-> TRUE, inner |-> b,
                  prefix |-> arg \o <<Blank>>, basePrefix |-> <<>>] \in LoggerStates
      BY <2>1 DEF LoggerStates
    <3>2. ASSUME NEW p \in Loggers, Fresh(p, l, arg)
          PROVE  [state |-> "live", c |-> FALSE, inner |-> logger[p].inner,
                  prefix |-> arg \o <<Blank>>, basePrefix |-> <<>>] \in LoggerStates
      <4>1. Live(p)
        BY <3>2 DEF Fresh, Construct
      <4>2. logger[p].inner \in Backends
        BY <4>1, LiveLogger
      <4> QED BY <2>1, <4>2 DEF LoggerStates
    <3>3. ASSUME NEW b \in Backends, NewLogger(b, l, arg)
          PROVE  \E object \in LoggerStates :
                    /\ object.prefix = arg \o <<Blank>> /\ object.basePrefix = <<>>
                    /\ \/ logger' = [logger EXCEPT ![l] = object]
                       \/ logger' = [logger EXCEPT ![l] = [object EXCEPT !.state = "leaked"]]
                    /\ words' = [words EXCEPT ![l] = First(arg)]
      <4> DEFINE o == [state |-> "live", c |-> TRUE, inner |-> b,
                       prefix |-> arg \o <<Blank>>, basePrefix |-> <<>>]
      <4>1. NewObject(b, l, o, First(arg))
        BY <3>3 DEF NewLogger
      <4>2. o \in LoggerStates /\ o.prefix = arg \o <<Blank>> /\ o.basePrefix = <<>>
        BY <3>1, <3>3
      <4> HIDE DEF o
      <4> QED BY <4>1, <4>2 DEF NewObject
    <3>4. ASSUME NEW p \in Loggers, Fresh(p, l, arg)
          PROVE  \E object \in LoggerStates :
                    /\ object.prefix = arg \o <<Blank>> /\ object.basePrefix = <<>>
                    /\ \/ logger' = [logger EXCEPT ![l] = object]
                       \/ logger' = [logger EXCEPT ![l] = [object EXCEPT !.state = "leaked"]]
                    /\ words' = [words EXCEPT ![l] = First(arg)]
      <4> DEFINE o == [state |-> "live", c |-> FALSE, inner |-> logger[p].inner,
                       prefix |-> arg \o <<Blank>>, basePrefix |-> <<>>]
      <4>1. Construct(p, l, o, First(arg))
        BY <3>4 DEF Fresh
      <4>2. o \in LoggerStates /\ o.prefix = arg \o <<Blank>> /\ o.basePrefix = <<>>
        BY <3>2, <3>4
      <4> HIDE DEF o
      <4> QED BY <4>1, <4>2 DEF Construct
    <3> QED BY <1>5, <3>3, <3>4
  <2>3. Worded(object, First(arg))
    BY <2>1, <2>2, FirstWorded
  <2> QED BY <1>1, <2>2, <2>3, MadeNesting
<1>6. ASSUME NEW p \in Loggers, NEW l \in Loggers, NEW arg \in Arguments,
             NewChild(p, l, arg) \/ Child(p, l, arg)
      PROVE  Nesting'
  <2>1. PICK c \in BOOLEAN :
           /\ \/ logger' = [logger EXCEPT ![l] = ChildOf(p, arg, c)]
              \/ logger' = [logger EXCEPT ![l] = [ChildOf(p, arg, c) EXCEPT !.state = "leaked"]]
           /\ words' = [words EXCEPT ![l] = After(p, arg)]
    BY <1>6 DEF NewChild, Child, NewObject, Construct
  <2>2. arg \in Seq(Names) /\ Live(p)
    BY <1>6, Distinct DEF NewChild, Child, Construct
  <2>3. ChildOf(p, arg, c) \in LoggerStates /\ Worded(ChildOf(p, arg, c), After(p, arg))
    BY <2>2, ChildType, ChildWorded
  <2> QED BY <1>1, <2>1, <2>3, MadeNesting
<1>7. ASSUME NEW l \in Loggers, NEW arg \in Arguments, SetPrefix(l, arg)
      PROVE  Nesting'
  <2> DEFINE object == [logger[l] EXCEPT !.prefix = logger[l].basePrefix \o arg \o <<Blank>>]
             given == Reset(l, arg)
             back == GoesBackTo(words[l])
  <2>1. arg \in Seq(Names) /\ Live(l)
    BY <1>7, Distinct DEF SetPrefix
  <2>2. /\ logger[l].basePrefix \in PrefixTexts /\ logger[l] \in LoggerStates
        /\ "forgot" \notin words[l].marks => ReadsAs(logger[l].basePrefix, back)
    BY <1>3, <2>1 DEF Worded
  <2>3. back \in Seq(Names)
    BY <1>2 DEF GoesBackTo
  <2>4. /\ given.own = words[l].inherited \o arg /\ GoesBackTo(given) = back
        /\ "set" \in given.marks
        /\ "forgot" \notin given.marks =>
              "forgot" \notin words[l].marks /\ back = words[l].inherited
    BY <1>2 DEF Reset, Given, GoesBackTo
  <2>5. /\ object.prefix = logger[l].basePrefix \o arg \o <<Blank>>
        /\ object.basePrefix = logger[l].basePrefix
    BY <2>2 DEF LoggerStates
  <2>6. logger' = [logger EXCEPT ![l] = object] /\ words' = [words EXCEPT ![l] = given]
    BY <1>7 DEF SetPrefix
  <2>7. Last(object.prefix) = Blank
    <3>1. (logger[l].basePrefix \o arg) \o <<Blank>> = object.prefix
      BY <2>5
    <3> QED BY <2>1, <2>2, <3>1, ArgumentLast
  <2>8. ASSUME "forgot" \notin given.marks
        PROVE  ReadsAs(object.prefix, given.own) /\ ReadsAs(object.basePrefix, GoesBackTo(given))
    <3>1. ReadsAs(logger[l].basePrefix, back) /\ back = words[l].inherited
      BY <2>2, <2>4, <2>8
    <3>2. ReadsAs(logger[l].basePrefix \o arg \o <<Blank>>, back \o arg)
      BY <2>1, <2>2, <2>3, <3>1, ReadsArgument
    <3> QED BY <2>4, <2>5, <3>1, <3>2
  <2> HIDE DEF object, given
  <2>9. Worded(object, given)
    BY <2>4, <2>7, <2>8 DEF Worded
  <2>10. logger'[l] = object /\ words'[l] = given
         /\ \A k \in Loggers \ {l} : logger'[k] = logger[k] /\ words'[k] = words[k]
    BY <1>1, <2>6 DEF TypeOK
  <2> QED BY <2>9, <2>10, NestingKept
<1>8. ASSUME NEW p \in Loggers, NEW l \in Loggers, Bare(p, l)
      PROVE  Nesting'
  <2> DEFINE object == [state |-> "live", c |-> FALSE, inner |-> logger[p].inner,
                        prefix |-> <<>>, basePrefix |-> <<>>]
             given == First(<<>>)
  <2>1. /\ Live(p) /\ logger' = [logger EXCEPT ![l] = object]
        /\ words' = [words EXCEPT ![l] = given]
    BY <1>8 DEF Bare, Construct
  <2>2. logger[p].inner \in Backends /\ <<>> \in PrefixTexts
    BY <2>1, LiveLogger DEF PrefixTexts
  <2>3. object \in LoggerStates /\ object.prefix = <<>> /\ object.basePrefix = <<>>
    BY <2>2 DEF LoggerStates
  <2>4. given.own = <<>> /\ GoesBackTo(given) = <<>>
    BY DEF First, GoesBackTo
  <2>5. Single(<<>>)
    BY DEF Single
  <2> HIDE DEF object, given
  <2>6. Worded(object, given)
    BY <2>3, <2>4, <2>5, ReadsNothing DEF Worded
  <2> QED BY <1>1, <2>1, <2>3, <2>6, MadeNesting
<1>9. ASSUME NEW p \in Loggers, NEW l \in Loggers, Copy(p, l)
      PROVE  Nesting'
  <2> DEFINE object == [logger[p] EXCEPT !.c = FALSE, !.basePrefix = logger[p].prefix]
             given == After(p, <<>>)
  <2>1. Live(p) /\ logger' = [logger EXCEPT ![l] = object]
        /\ words' = [words EXCEPT ![l] = given]
    BY <1>9 DEF Copy, Construct
  <2>2. logger[p] \in LoggerStates /\ Worded(logger[p], words[p])
    BY <1>3, <2>1
  <2>3. /\ object.prefix = logger[p].prefix /\ object.basePrefix = logger[p].prefix
        /\ object \in LoggerStates
    BY <2>2 DEF LoggerStates
  <2>4. /\ given.own = words[p].own /\ GoesBackTo(given) = words[p].own
        /\ "forgot" \in given.marks <=> "forgot" \in words[p].marks
        /\ "set" \in given.marks <=> "set" \in words[p].marks
    BY <1>2, ConcatEmptySeq DEF After, GoesBackTo
  <2> HIDE DEF object, given
  <2>5. Worded(object, given)
    BY <2>2, <2>3, <2>4 DEF Worded
  <2> QED BY <1>1, <2>1, <2>3, <2>5, MadeNesting
<1>10. ASSUME NEW p \in Loggers, NEW l \in Loggers, Move(p, l)
       PROVE  Nesting'
  <2> DEFINE object == [logger[p] EXCEPT !.basePrefix = <<>>]
             given == [words[p] EXCEPT !.marks = @ \cup {"moved"}]
  <2>1. Live(p) /\ logger[l] = NoLogger
        /\ logger' = [logger EXCEPT ![l] = object, ![p] = Empty]
        /\ words' = [words EXCEPT ![l] = given, ![p] = NoWords]
    BY <1>10 DEF Move
  <2>2. logger[p] \in LoggerStates /\ Worded(logger[p], words[p])
    BY <1>3, <2>1
  <2>3. object.prefix = logger[p].prefix /\ object.basePrefix = <<>>
    BY <2>2 DEF LoggerStates
  <2>4. /\ given.own = words[p].own /\ GoesBackTo(given) = <<>>
        /\ "forgot" \in given.marks <=> "forgot" \in words[p].marks
        /\ "set" \in given.marks <=> "set" \in words[p].marks
    BY <1>2 DEF Given, GoesBackTo
  <2>5. l # p /\ Empty.state # "live"
    BY <2>1 DEF Live, NoLogger, Empty
  <2> HIDE DEF object, given
  <2>6. Worded(object, given)
    BY <2>2, <2>3, <2>4, ReadsNothing DEF Worded
  <2>7. logger'[l] = object /\ words'[l] = given /\ logger'[p] = Empty
        /\ \A k \in Loggers \ {l, p} : logger'[k] = logger[k] /\ words'[k] = words[k]
    BY <1>1, <2>1, <2>5 DEF TypeOK
  <2> QED BY <2>5, <2>6, <2>7, NestingKept
<1>11. ASSUME NEW l \in Loggers, FreeLogger(l)
       PROVE  Nesting'
  <2>1. logger' = [logger EXCEPT ![l] = NoLogger] /\ words' = [words EXCEPT ![l] = NoWords]
    BY <1>11 DEF FreeLogger
  <2>2. NoLogger.state # "live"
    BY DEF NoLogger
  <2>3. logger'[l] = NoLogger
        /\ \A k \in Loggers \ {l} : logger'[k] = logger[k] /\ words'[k] = words[k]
    BY <1>1, <2>1 DEF TypeOK
  <2> QED BY <2>2, <2>3, NestingKept
<1>12. ASSUME NEW b \in Backends,
              \/ NewBackend(b) \/ FreeBackend(b) \/ AddFileAppender(b)
              \/ \E e \in Exceptions : AddFails(b, e)
       PROVE  Nesting'
  BY <1>4, <1>12 DEF NewBackend, FreeBackend, AddFileAppender, AddFails
<1>13. ASSUME NEW x \in Backends \cup Loggers, NewFails(x)
       PROVE  Nesting'
  BY <1>4, <1>13 DEF NewFails
<1>14. ASSUME NEW t \in Threads, EndLog(t) \/ \E l \in Loggers : BeginLog(t, l)
       PROVE  Nesting'
  BY <1>4, <1>14 DEF EndLog, BeginLog
<1>15. CASE UNCHANGED vars
  BY <1>4, <1>15 DEF vars
<1> QED
  BY <1>5, <1>6, <1>7, <1>8, <1>9, <1>10, <1>11, <1>12, <1>13, <1>14, <1>15
     DEF Next

(***************************************************************************)
(* Whatever Loggers are made from which, moved, copied and freed, and      *)
(* whatever setPrefix has set on the way: a prefix reads as what clients   *)
(* gave for the Loggers it is made from, the outermost first, each once,   *)
(* and for this one, unless setPrefix has been called on a Logger that had *)
(* been moved and had inherited a prefix, or on one that this is made      *)
(* from and to which that happened.  It is empty or ends in a blank, the   *)
(* only one where nothing has been set.                                    *)
(***************************************************************************)
THEOREM PrefixesNest == Spec => []PrefixNests
<1>1. Init => Nesting
  <2>1. NoLogger.state # "live"
    BY DEF NoLogger
  <2> QED BY <2>1 DEF Init, Nesting, Live
<1>2. Nesting => PrefixNests
  BY DEF Nesting, Worded, Single, PrefixNests
<1> QED
  BY <1>1, <1>2, NestingStep, OwnersAreCounted, PTL DEF Spec
=============================================================================
