--------------------------- MODULE MessageBuilder ---------------------------
(***************************************************************************)
(* Logger::MessageBuilder and the buffer, offset and time that all the     *)
(* builders of one thread share (tl_message, tl_offset, tl_time; other     *)
(* threads have their own).                                                *)
(*                                                                         *)
(* What is streamed to a builder is numbered: the k-th character meant for *)
(* the message of builder b, its Logger's prefix included, is <<b, k>>.    *)
(***************************************************************************)
EXTENDS Integers, Sequences

CONSTANTS
    MaxMessageSize,  \* MAX_MESSAGE_SIZE
    Builders,        \* the log statements of a behaviour
    Lengths,         \* lengths of the prefixes and values in use
    MaxPieces,       \* bound: values streamed in a behaviour
    MaxMoves         \* bound: moves of a builder in a behaviour

ASSUME MessageBuilderAssumption ==
    /\ MaxMessageSize \in Nat \ {0}
    /\ Lengths \subseteq Nat
    /\ MaxPieces \in Nat
    /\ MaxMoves \in Nat
    /\ Builders \cap {"none", "nul", "dot"} = {}

StackBufferSize == MaxMessageSize + 4   \* STACK_BUFFER_SIZE

NoBuilder == "none"
NUL == <<"nul", 0>>
Dot == <<"dot", 0>>

Cells == {NUL, Dot} \cup (Builders \X Nat)

VARIABLES
    message,   \* tl_message
    offset,    \* tl_offset
    time,      \* tl_time: the builder whose time it is
    status,    \* status[b]: "unused", "open" (has its m_backend) or "sent"
    shells,    \* moved-from objects (m_backend is null) not yet destroyed
    streamed,  \* streamed[b]: number of characters meant for b so far
    silent,    \* silent[b]: has b lost text where the code writes no mark?
    fresh,     \* builders constructed or streamed to since tl_offset was set
    logged,    \* the messages given to Backend::doLog
    pieces,    \* number of values streamed
    moves      \* number of moves

vars == <<message, offset, time, status, shells, streamed, silent, fresh,
          logged, pieces, moves>>

Entries == [builder : Builders, time : Builders, text : Seq(Cells),
            meant : Nat, silent : BOOLEAN, fresh : SUBSET Builders]

(***************************************************************************)
(* Includes the assertions of the destructor, operator<< and elide(): an   *)
(* offset past MAX_MESSAGE_SIZE is STACK_BUFFER_SIZE.                      *)
(***************************************************************************)
TypeOK ==
    /\ message \in [0 .. StackBufferSize - 1 -> Cells]
    /\ offset \in 0 .. MaxMessageSize \cup {StackBufferSize}
    /\ time \in Builders \cup {NoBuilder}
    /\ status \in [Builders -> {"unused", "open", "sent"}]
    /\ shells \in [Builders -> Nat]
    /\ streamed \in [Builders -> Nat]
    /\ silent \in [Builders -> BOOLEAN]
    /\ fresh \subseteq Builders
    /\ logged \in Seq(Entries)
    /\ pieces \in Nat
    /\ moves \in Nat

-----------------------------------------------------------------------------
(* Writing to the buffer *)

Least(m, n) == IF m <= n THEN m ELSE n

(* cells written to the buffer from index at on *)
Put(at, cells) ==
    [i \in DOMAIN message |->
        IF i \in at .. at + Len(cells) - 1 THEN cells[i - at + 1]
                                           ELSE message[i]]

(* The next n characters meant for b *)
Chars(b, n) == [k \in 1 .. n |-> <<b, streamed[b] + k>>]

Dots == <<Dot, Dot, Dot, NUL>>

(* Mutant: the room for the dots is taken for free space *)
FreeToEnd == StackBufferSize - offset

Free == MaxMessageSize - offset    \* freeSpace, spaceLeft

Elided == offset > MaxMessageSize  \* elide() has been called

(* Mutant: elide() only skips the dots *)
ElideShort(cells, at) ==
    /\ message' = [i \in DOMAIN message |->
                      IF i \in at .. at + 3 THEN Dots[i - at + 1]
                                            ELSE Put(offset, cells)[i]]
    /\ offset' = at + 3

(* elide() at index at, after cells have been written at the offset *)
Elide(cells, at) ==
    /\ message' = [i \in DOMAIN message |->
                      IF i \in at .. at + 3 THEN Dots[i - at + 1]
                                            ELSE Put(offset, cells)[i]]
    /\ offset' = StackBufferSize

Extend(cells, length) ==
    /\ message' = Put(offset, cells)
    /\ offset' = offset + length

-----------------------------------------------------------------------------
(* Construction, move and destruction *)

(* Mutant: without a prefix the offset is left as it is *)
ConstructNoReset(b, n) ==
    /\ status[b] = "unused"
    /\ status' = [status EXCEPT ![b] = "open"]
    /\ time' = b
    /\ offset' = IF n = 0 THEN offset ELSE Least(MaxMessageSize, n)
    /\ message' = IF n = 0 THEN message ELSE Put(0, Chars(b, offset'))
    /\ streamed' = [streamed EXCEPT ![b] = n]
    /\ silent' = [silent EXCEPT ![b] = n > MaxMessageSize]
    /\ fresh' = {b}
    /\ UNCHANGED <<shells, logged, pieces, moves>>

(* The constructor: n is the size of the Logger's prefix *)
Construct(b, n) ==
    /\ status[b] = "unused"
    /\ status' = [status EXCEPT ![b] = "open"]
    /\ time' = b
    /\ offset' = Least(MaxMessageSize, n)
    /\ message' = Put(0, Chars(b, offset'))
    /\ streamed' = [streamed EXCEPT ![b] = n]
    /\ silent' = [silent EXCEPT ![b] = n > MaxMessageSize]
    /\ fresh' = {b}
    /\ UNCHANGED <<shells, logged, pieces, moves>>

(* The defaulted move constructor empties the m_backend of its source. *)
Move(b) ==
    /\ status[b] = "open"
    /\ moves < MaxMoves
    /\ moves' = moves + 1
    /\ shells' = [shells EXCEPT ![b] = @ + 1]
    /\ UNCHANGED <<message, offset, time, status, streamed, silent, fresh,
                   logged, pieces>>

(* What the C string at tl_message is: the cells before the first NUL *)
CString(buffer) ==
    LET end == CHOOSE i \in DOMAIN buffer :
                  /\ buffer[i] = NUL
                  /\ \A j \in 0 .. i - 1 : buffer[j] # NUL
    IN  [k \in 1 .. end |-> buffer[k - 1]]

Entry(b, buffer) ==
    [builder |-> b, time |-> time, text |-> CString(buffer),
     meant |-> streamed[b], silent |-> silent[b], fresh |-> fresh]

(* ~MessageBuilder of the object that has the m_backend *)
Destroy(b) ==
    /\ status[b] = "open"
    /\ status' = [status EXCEPT ![b] = "sent"]
    /\ message' = IF offset < StackBufferSize
                  THEN [message EXCEPT ![offset] = NUL] ELSE message
    /\ logged' = Append(logged, Entry(b, message'))
    /\ UNCHANGED <<offset, time, shells, streamed, silent, fresh, pieces,
                   moves>>

(* Mutant: the move leaves the source its m_backend, so it logs as well *)
DestroyShellLogs(b) ==
    /\ shells[b] > 0
    /\ shells' = [shells EXCEPT ![b] = @ - 1]
    /\ logged' = Append(logged, Entry(b, [message EXCEPT ![MaxMessageSize] = NUL]))
    /\ UNCHANGED <<message, offset, time, status, streamed, silent, fresh,
                   pieces, moves>>

(* ~MessageBuilder of a moved-from object: "if (!m_backend) return" *)
DestroyShell(b) ==
    /\ shells[b] > 0
    /\ shells' = [shells EXCEPT ![b] = @ - 1]
    /\ UNCHANGED <<message, offset, time, status, streamed, silent, fresh,
                   logged, pieces, moves>>

-----------------------------------------------------------------------------
(* operator<<: n characters are streamed to the open builder b *)

Stream(b, n) ==
    /\ status[b] = "open"
    /\ pieces < MaxPieces
    /\ pieces' = pieces + 1
    /\ streamed' = [streamed EXCEPT ![b] = @ + n]
    /\ fresh' = fresh \cup {b}
    /\ UNCHANGED <<time, status, shells, logged, moves>>

(* Nothing follows the dots. *)
AppendDropped(b, n) ==
    /\ Stream(b, n)
    /\ Elided
    /\ UNCHANGED <<message, offset, silent>>

(* Characters one by one, until the buffer is full *)
Characters(b, n) ==
    /\ Stream(b, n)
    /\ ~ Elided
    /\ IF n <= Free THEN Extend(Chars(b, n), n)
                    ELSE Elide(Chars(b, Free), MaxMessageSize)
    /\ UNCHANGED silent

(* operator<<(char), and (bool) *)
AppendChar(b) == Characters(b, 1)

(* operator<<(char const * v) *)
AppendCString(b, n) == Characters(b, n)

(* Mutant: a string that does not fit is cut, and that is all *)
AppendStringCut(b, n) ==
    /\ Stream(b, n)
    /\ ~ Elided
    /\ Extend(Chars(b, Least(n, Free)), Least(n, Free))
    /\ UNCHANGED silent

(* operator<<(std::string): the dots overwrite what part of it did fit *)
AppendString(b, n) ==
    /\ Stream(b, n)
    /\ ~ Elided
    /\ IF n <= Free THEN Extend(Chars(b, n), n)
                    ELSE Elide(Chars(b, Free), offset)
    /\ UNCHANGED silent

(* What snprintf(&tl_message[tl_offset], spaceLeft, ...) of n characters   *)
(* writes: at most spaceLeft - 1 of them, and a NUL                        *)
Printed(b, n) == Append(Chars(b, Least(n, Free - 1)), NUL)

(***************************************************************************)
(* The LOGHARD_LHC_OP operators, when snprintf returns n.  Where the value *)
(* does not fit the dots go behind the NUL that snprintf has written, and  *)
(* where it is exactly as long as the free space its last character is     *)
(* lost: either way the message ends without dots.                         *)
(***************************************************************************)
AppendFormatted(b, n) ==
    /\ n > 0
    /\ Stream(b, n)
    /\ ~ Elided
    /\ \/ Free = 0 /\ Elide(<<>>, offset)
       \/ /\ 0 < Free /\ n <= Free
          /\ Extend(Printed(b, n), n)
       \/ /\ 0 < Free /\ Free < n
          /\ Elide(Printed(b, n), MaxMessageSize)
    /\ silent' = [silent EXCEPT ![b] = @ \/ (0 < Free /\ Free <= n)]

(* The same when snprintf fails *)
AppendUnformattable(b, n) ==
    /\ n > 0
    /\ Stream(b, n)
    /\ ~ Elided
    /\ Elide(<<>>, offset)
    /\ UNCHANGED silent

-----------------------------------------------------------------------------

Init ==
    /\ message = [i \in 0 .. StackBufferSize - 1 |-> NUL]
    /\ offset = 0
    /\ time = NoBuilder
    /\ status = [b \in Builders |-> "unused"]
    /\ shells = [b \in Builders |-> 0]
    /\ streamed = [b \in Builders |-> 0]
    /\ silent = [b \in Builders |-> FALSE]
    /\ fresh = {}
    /\ logged = <<>>
    /\ pieces = 0
    /\ moves = 0

Next ==
    \E b \in Builders :
       \/ Move(b)
       \/ Destroy(b)
       \/ DestroyShell(b)
       \/ AppendChar(b)
       \/ \E n \in Lengths :
             \/ Construct(b, n)
             \/ AppendCString(b, n)
             \/ AppendString(b, n)
             \/ AppendFormatted(b, n)
             \/ AppendUnformattable(b, n)
             \/ AppendDropped(b, n)

Spec == Init /\ [][Next]_vars

-----------------------------------------------------------------------------
(* Properties *)

(***************************************************************************)
(* The assertion of the destructor: whoever wrote what to the buffer, its  *)
(* last cell is a NUL, so the C string given to Backend::doLog ends inside *)
(* the buffer even where the destructor does not terminate it itself.      *)
(***************************************************************************)
Terminated == message[StackBufferSize - 1] = NUL

Marked(text) ==
    Len(text) >= 3 /\ \A k \in Len(text) - 2 .. Len(text) : text[k] = Dot

Kept(m) == IF Marked(m.text) THEN Len(m.text) - 3 ELSE Len(m.text)

(* Nobody else has used the buffer since m's builder was constructed. *)
Alone(m) == m.fresh = {m.builder}

(***************************************************************************)
(* The message of a statement in which no other builder of the thread has  *)
(* been made or streamed to is the text meant for it from its first        *)
(* character on, without a hole and with nobody else's text, at the time   *)
(* of its own statement, and dots at most after it: whatever earlier       *)
(* statements, and older builders still in use, have left in the buffer.   *)
(***************************************************************************)
PrefixDelivered ==
    \A i \in DOMAIN logged :
       LET m == logged[i]
       IN  Alone(m) => /\ m.time = m.builder
                       /\ Kept(m) <= m.meant
                       /\ \A k \in 1 .. Kept(m) : m.text[k] = <<m.builder, k>>

(***************************************************************************)
(* Such a message ends with dots if and only if some of its text is lost,  *)
(* where no prefix is longer than the buffer and no formatted value has    *)
(* met the end of the buffer: those cut a message without a trace.         *)
(***************************************************************************)
CutIsMarked ==
    \A i \in DOMAIN logged :
       Alone(logged[i]) /\ ~ logged[i].silent =>
          (Marked(logged[i].text) <=> Kept(logged[i]) < logged[i].meant)

(***************************************************************************)
(* However often a builder is moved, it logs once: not more than one       *)
(* message of it is logged, and none is lost when it is gone.              *)
(***************************************************************************)
LoggedOnce ==
    \A b \in Builders :
       /\ \A i, j \in DOMAIN logged :
             logged[i].builder = b /\ logged[j].builder = b => i = j
       /\ status[b] = "sent" <=> \E i \in DOMAIN logged : logged[i].builder = b

(***************************************************************************)
(* Builders in use at the same time do mix their text, but no message ever *)
(* shows text left in the buffer from before the latest construction.      *)
(***************************************************************************)
NothingStale ==
    \A i \in DOMAIN logged : \A k \in DOMAIN logged[i].text :
       LET c == logged[i].text[k]
       IN  c # Dot => \E b \in logged[i].fresh :
                         \E n \in 1 .. streamed[b] : c = <<b, n>>
=============================================================================
