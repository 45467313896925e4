--------------------------- MODULE EarlyAppender ---------------------------
(***************************************************************************)
(* LogHard::EarlyAppender: a buffer of messages that never allocates an    *)
(* entry while logging.  It owns a fixed number of strings, which are in   *)
(* m_freeMessages or in an entry, and one notice for when they run out.    *)
(*                                                                         *)
(* The model is of a build without assertions (NDEBUG): the assertions of  *)
(* doLog are stated as properties.  Calls are one at a time: the mutex of  *)
(* the one backend that has the appender (module Backend) sees to that.    *)
(***************************************************************************)
EXTENDS Naturals, Sequences, SequencesExt

CONSTANTS
    ReserveEntries,  \* constructor argument
    MaxMessageSize,  \* constructor argument
    Capacities,      \* what string::reserve(maxMessageSize) may provide
    Lengths,         \* lengths of the messages in use
    Priorities,      \* values of enum Priority in use
    ErrorPriority,   \* Priority::Error
    MaxCalls,        \* bound: doLog calls in a behaviour
    MaxClears        \* bound: clear() calls in a behaviour

ASSUME EarlyAppenderAssumption ==
    /\ ReserveEntries \in Nat
    /\ MaxMessageSize \in Nat /\ MaxMessageSize >= 5  \* the ctor's assertion
    /\ Capacities \subseteq Nat /\ Capacities # {}
    /\ \A c \in Capacities : c >= MaxMessageSize
    /\ Lengths \subseteq Nat
    /\ Priorities \subseteq Nat /\ ErrorPriority \in Priorities
    /\ MaxCalls \in Nat /\ MaxClears \in Nat

VARIABLES
    entries,     \* m_entries
    free,        \* m_freeMessages, the last of which is used next
    oomMessage,  \* m_oomMessage
    oom,         \* m_oom
    offered,     \* the messages doLog was called with since the last clear()
    lost,        \* strings lost: those popped by clear() with a message
    defined,     \* FALSE once the code has run into undefined behaviour
    calls,       \* number of doLog calls
    clears       \* number of clear() calls

vars == <<entries, free, oomMessage, oom, offered, lost, defined, calls,
          clears>>

(* A text is known by the call whose message it begins with (0: none of    *)
(* them), by its length and by whether it has been cut with "[...]".       *)
Texts == [of : Nat, len : Nat, cut : BOOLEAN]
Nothing == [of |-> 0, len |-> 0, cut |-> FALSE]
Notice == [of |-> 0, len |-> 40, cut |-> FALSE]

Strings == [text : Texts, cap : Nat]

Messages == [id : Nat, len : Nat, priority : Priorities]

(* id is the call that made the entry, notice tells the m_oomMessage entry *)
Entries == [id : Nat, priority : Priorities, string : Strings,
            notice : BOOLEAN]

(* The sizes are those the constructor has reserved in the two vectors. *)
TypeOK ==
    /\ entries \in Seq(Entries) /\ Len(entries) <= ReserveEntries + 1
    /\ free \in Seq(Strings) /\ Len(free) <= ReserveEntries
    /\ oomMessage \in Texts
    /\ oom \in BOOLEAN
    /\ offered \in Seq(Messages)
    /\ lost \in Nat
    /\ defined \in BOOLEAN
    /\ calls \in Nat
    /\ clears \in Nat

-----------------------------------------------------------------------------
(* doLog *)

(* Mutant: the fallback forgets the "[...]" *)
AssignedUnmarked(s, m) ==
    {[text |-> [of |-> m.id, len |-> IF m.len <= s.cap THEN m.len ELSE s.cap,
                cut |-> FALSE],
      cap |-> s.cap]}

(***************************************************************************)
(* What s.assign(message), and the loop that appends one character at a    *)
(* time after it has failed to allocate, can leave in s.  Where the loop   *)
(* fails too, s is full (c is its capacity then, which it may have raised  *)
(* before) and its last five characters become "[...]".  What s held       *)
(* before is in front of what the loop appends.                            *)
(***************************************************************************)
Assigned(s, m) ==
    LET whole == [of |-> m.id, len |-> m.len, cut |-> FALSE]
        start == IF s.text.len = 0 THEN m.id ELSE s.text.of
        total == s.text.len + m.len
    IN  IF m.len <= s.cap
        THEN {[text |-> whole, cap |-> s.cap]}
        ELSE {[text |-> whole, cap |-> m.len]}
             \cup {[text |-> [of |-> start, len |-> c, cut |-> TRUE], cap |-> c] :
                      c \in s.cap .. total - 1}
             \cup {[text |-> [of |-> start, len |-> total, cut |-> FALSE],
                    cap |-> total]}

Offer(m) ==
    /\ defined
    /\ calls < MaxCalls
    /\ m.id = calls + 1
    /\ calls' = calls + 1
    /\ offered' = Append(offered, m)
    /\ UNCHANGED <<lost, defined, clears>>

(* Mutant: the string is moved from, but not popped *)
StoreNoPop(m) ==
    /\ Offer(m)
    /\ free # <<>>
    /\ \E s \in Assigned(Last(free), m) :
          entries' = Append(entries, [id |-> m.id, priority |-> m.priority,
                                      string |-> s, notice |-> FALSE])
    /\ UNCHANGED <<free, oomMessage, oom>>

(* A string is left *)
Store(m) ==
    /\ Offer(m)
    /\ free # <<>>
    /\ \E s \in Assigned(Last(free), m) :
          entries' = Append(entries, [id |-> m.id, priority |-> m.priority,
                                      string |-> s, notice |-> FALSE])
    /\ free' = Front(free)
    /\ UNCHANGED <<oomMessage, oom>>

(* Mutant: m_oom is not set *)
OverflowAgain(m) ==
    /\ Offer(m)
    /\ free = <<>>
    /\ ~ oom
    /\ entries' = Append(entries,
                    [id |-> m.id, priority |-> ErrorPriority,
                     string |-> [text |-> oomMessage, cap |-> oomMessage.len],
                     notice |-> TRUE])
    /\ oomMessage' = Nothing
    /\ UNCHANGED <<free, oom>>

(* The first message for which no string is left *)
Overflow(m) ==
    /\ Offer(m)
    /\ free = <<>>
    /\ ~ oom
    /\ entries' = Append(entries,
                    [id |-> m.id, priority |-> ErrorPriority,
                     string |-> [text |-> oomMessage, cap |-> oomMessage.len],
                     notice |-> TRUE])
    /\ oomMessage' = Nothing
    /\ oom' = TRUE
    /\ UNCHANGED free

(* Mutant: the last entry is to tell of the last message skipped *)
DropTelling(m) ==
    /\ Offer(m)
    /\ free = <<>>
    /\ oom
    /\ entries' = [i \in DOMAIN entries |->
                      IF i = Len(entries)
                      THEN [entries[i] EXCEPT !.string.text.of = m.id]
                      ELSE entries[i]]
    /\ UNCHANGED <<free, oomMessage, oom>>

(* Later ones *)
Drop(m) ==
    /\ Offer(m)
    /\ free = <<>>
    /\ oom
    /\ UNCHANGED <<entries, free, oomMessage, oom>>

DoLog(m) == Store(m) \/ Overflow(m) \/ Drop(m)

-----------------------------------------------------------------------------
(* clear() *)

(* Mutants: clear() without pop_back(), without m_entries.clear(), and     *)
(* with m_oom reset but not the notice                                     *)
ClearAs(returned, left) ==
    /\ defined /\ entries # <<>>
    /\ clears < MaxClears
    /\ clears' = clears + 1
    /\ oomMessage' = IF oom THEN Last(entries).string.text ELSE oomMessage
    /\ free' = free \o returned
    /\ lost' = IF Last(entries).notice THEN lost ELSE lost + 1
    /\ entries' = left
    /\ offered' = <<>>
    /\ UNCHANGED <<defined, calls>>

Returned == [i \in 1 .. Len(entries) - 1 |-> entries[i].string]

ClearNoPop == ClearAs(Append(Returned, Last(entries).string), <<>>) /\ oom' = oom
ClearNoClear == ClearAs(Returned, Front(entries)) /\ oom' = oom
ClearNoticeLost ==
    /\ clears < MaxClears /\ entries # <<>> /\ defined
    /\ clears' = clears + 1
    /\ free' = free \o Returned
    /\ lost' = IF Last(entries).notice THEN lost ELSE lost + 1
    /\ entries' = <<>> /\ offered' = <<>> /\ oom' = FALSE
    /\ UNCHANGED <<oomMessage, defined, calls>>

(* The strings go back to m_freeMessages with the text they hold.  m_oom   *)
(* stays set.                                                              *)
Clear ==
    /\ defined
    /\ clears < MaxClears
    /\ clears' = clears + 1
    /\ entries # <<>>
    /\ oomMessage' = IF oom THEN Last(entries).string.text ELSE oomMessage
    /\ free' = free \o [i \in 1 .. Len(entries) - 1 |-> entries[i].string]
    /\ lost' = IF Last(entries).notice THEN lost ELSE lost + 1
    /\ entries' = <<>>
    /\ offered' = <<>>
    /\ UNCHANGED <<oom, defined, calls>>

(* back() and pop_back() of an empty vector *)
ClearEmpty ==
    /\ defined
    /\ clears < MaxClears
    /\ clears' = clears + 1
    /\ entries = <<>>
    /\ defined' = FALSE
    /\ UNCHANGED <<entries, free, oomMessage, oom, offered, lost, calls>>

-----------------------------------------------------------------------------

(* The constructor.  (Where reserveEntries + 1 overflows it throws, and    *)
(* there is no EarlyAppender.)                                             *)
Init ==
    /\ entries = <<>>
    /\ \E c \in Capacities :
          free = [i \in 1 .. ReserveEntries |-> [text |-> Nothing, cap |-> c]]
    /\ oomMessage = Notice
    /\ oom = FALSE
    /\ offered = <<>>
    /\ lost = 0
    /\ defined = TRUE
    /\ calls = 0
    /\ clears = 0

Next ==
    \/ \E len \in Lengths, p \in Priorities :
          DoLog([id |-> calls + 1, len |-> len, priority |-> p])
    \/ Clear
    \/ ClearEmpty

Spec == Init /\ [][Next]_vars

-----------------------------------------------------------------------------
(* Properties *)

(* Every string that is reused after clear() still has room.               *)
FreeHasRoom == \A i \in DOMAIN free : free[i].cap >= MaxMessageSize

(***************************************************************************)
(* What doLog asserts of the room it has (EarlyAppender.cpp:82, 89, 92):   *)
(* whenever it would add an entry, the reserved ReserveEntries + 1 are not *)
(* used up, so emplace_back never allocates in the noexcept doLog; and the *)
(* next string has room for maxMessageSize characters, also when reused.   *)
(***************************************************************************)
RoomForEntry ==
    /\ free # <<>> \/ ~ oom => Len(entries) < ReserveEntries + 1
    /\ FreeHasRoom

HasNotice == entries # <<>> /\ Last(entries).notice

Recorded == IF HasNotice THEN Len(entries) - 1 ELSE Len(entries)

(***************************************************************************)
(* The entries are the first messages logged since the last clear(), in    *)
(* order and without a hole, each at its own priority: after the first     *)
(* message that is skipped none is recorded until clear().                 *)
(***************************************************************************)
NoHole ==
    /\ Recorded <= Len(offered)
    /\ \A i \in 1 .. Recorded : /\ ~ entries[i].notice
                                /\ entries[i].id = offered[i].id
                                /\ entries[i].priority = offered[i].priority

(***************************************************************************)
(* A notice has its text intact and the priority Error.  Until the first   *)
(* clear() it is there if and only if a message has been skipped.          *)
(***************************************************************************)
NoticeTellsSkips ==
    /\ HasNotice => /\ Last(entries).priority = ErrorPriority
                    /\ Last(entries).string.text = Notice
    /\ clears = 0 => (HasNotice <=> Recorded < Len(offered))

(***************************************************************************)
(* Every string is free, in an entry of a message, or lost to a clear()    *)
(* that popped a message as if it were the notice: logging loses none.     *)
(***************************************************************************)
StringsConserved == Len(free) + Recorded + lost = ReserveEntries

(***************************************************************************)
(* Until the first clear(), an entry shows the beginning of the message it *)
(* was made for, and all of it unless it is marked as cut.                 *)
(***************************************************************************)
OwnText ==
    clears = 0 =>
       \A i \in 1 .. Recorded :
          LET text == entries[i].string.text
          IN  /\ text.of = entries[i].id
              /\ IF text.cut THEN text.len < offered[i].len
                             ELSE text.len = offered[i].len

(***************************************************************************)
(* The assertion "s.empty()" of doLog on the string it is about to use.    *)
(***************************************************************************)
NextStringEmpty == free # <<>> => Last(free).text.len = 0

(***************************************************************************)
(* The assertion "size > m_maxMessageSize" of doLog on a string in which   *)
(* the message did not fit.                                                *)
(***************************************************************************)
CutIsLonger ==
    \A i \in DOMAIN entries :
       entries[i].string.text.cut => entries[i].string.text.len > MaxMessageSize
=============================================================================
