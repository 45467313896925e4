------------------------------ MODULE FileSinks ------------------------------
(***************************************************************************)
(* The appenders that write to files: FileAppender, which opens a file of  *)
(* its own, CFileAppender, which borrows the descriptor of a FILE of the   *)
(* client and syncs every line, and StdAppender.  All write a line with    *)
(* one writev() whose result they ignore.                                  *)
(*                                                                         *)
(* An appender is used by one thread at a time (module Backend), different *)
(* appenders by different threads.  Files and descriptors are modelled as  *)
(* POSIX has them: a descriptor is a number that can be given out again, a *)
(* write in append mode goes to the end of the file in one step, any other *)
(* to the position of its descriptor, leaving a hole if the file has been  *)
(* truncated below it.  A line is two cells, so that it can be torn.       *)
(***************************************************************************)
EXTENDS Naturals, Sequences, FiniteSets, SequencesExt, FiniteSetsExt

CONSTANTS
    Appenders,
    Files,
    Fds,        \* bound: the numbers of the descriptors that can be opened
    Stdout,     \* the files STDOUT_FILENO and STDERR_FILENO are open on, in
    Stderr,     \*   append mode
    Priorities,
    MaxLines,   \* bounds: lines logged,
    MaxOpens,   \*   files opened,
    MaxShorts,  \*   writes that write less than they were given,
    MaxCrashes  \*   and crashes of the system, in a behaviour

ASSUME FileSinksAssumption ==
    /\ Fds \subseteq Nat /\ Fds \cap {1, 2} = {}
    /\ Stdout \in Files /\ Stderr \in Files
    /\ Priorities \subseteq 0 .. 5
    /\ {MaxLines, MaxOpens, MaxShorts, MaxCrashes} \subseteq Nat

VARIABLES
    content,    \* of each file, as a reader of it sees it
    disk,       \* of each file, as of its last fsync() that has succeeded
    fd,         \* the open descriptors
    streams,    \* those that belong to a FILE of the client
    appender,   \* the appenders
    lines,      \* where each line logged was meant to go
    durable,    \* lines written whole whose fsync() has succeeded, since
                \*   their file was truncated
    opens, shorts, crashes,  \* counters
    before,     \* number of lines logged before the last crash
    mixed,      \* files the client has opened at a position, and that were
                \*   open another time meanwhile
    dropped     \* the client has closed a FILE that an appender was using

osVars == <<content, disk, fd, streams>>
counters == <<opens, shorts, crashes, before>>
ghosts == <<lines, durable, mixed, dropped>>
vars == <<osVars, appender, counters, ghosts>>

Cells == (Nat \X {1, 2}) \cup {<<0, 0>>}
Hole == <<0, 0>>

Descriptors == [file : Files, append : BOOLEAN, at : Nat]
Closed == [file |-> "none"]

(* An appender, the descriptor it writes to, the file this was when the    *)
(* appender was made, and the line it is writing (0: none)                 *)
AppenderStates ==
    [kind : {"file", "cfile", "std"}, fd : Nat, home : Files,
     stage : {"idle", "write", "sync"}, line : Nat]
Gone == [kind |-> "none", stage |-> "idle"]

TypeOK ==
    /\ content \in [Files -> Seq(Cells)]
    /\ disk \in [Files -> Seq(Cells)]
    /\ fd \in [Fds \cup {1, 2} -> Descriptors \cup {Closed}]
    /\ streams \subseteq Fds
    /\ \A n \in streams : fd[n] # Closed
    /\ appender \in [Appenders -> AppenderStates \cup {Gone}]
    /\ lines \in Seq([home : Files, by : Appenders])
    /\ durable \subseteq DOMAIN lines
    /\ mixed \subseteq Files
    /\ dropped \in BOOLEAN
    /\ {opens, shorts, crashes, before} \subseteq Nat

-----------------------------------------------------------------------------
(* Opening and closing descriptors *)

Kind(a) == appender[a].kind

FreeFds == {n \in Fds : fd[n] = Closed}

OpenOn(f) == {n \in DOMAIN fd : fd[n] # Closed /\ fd[n].file = f}

(* open(): the lowest free number *)
Open(n, f, append, truncate) ==
    /\ opens < MaxOpens
    /\ FreeFds # {}
    /\ n = Min(FreeFds)
    /\ opens' = opens + 1
    /\ fd' = [fd EXCEPT ![n] = [file |-> f, append |-> append, at |-> 0]]
    /\ content' = [content EXCEPT ![f] = IF truncate THEN <<>> ELSE @]
    /\ durable' = IF truncate THEN {l \in durable : lines[l].home # f} ELSE durable
    /\ UNCHANGED <<disk, lines, dropped, shorts, crashes, before>>

(* The file f is opened, positioned or else in append mode. *)
Mixes(f, positioned) ==
    mixed' = IF /\ OpenOn(f) # {}
                /\ \/ positioned
                   \/ \E n \in OpenOn(f) \cap streams : ~ fd[n].append
             THEN mixed \cup {f} ELSE mixed

(* Mutant: without O_APPEND *)
ConstructFileAtStart(a, f, overwrite) ==
    /\ appender[a] = Gone
    /\ \E n \in Fds :
          /\ Open(n, f, FALSE, overwrite)
          /\ appender' = [appender EXCEPT ![a] =
                [kind |-> "file", fd |-> n, home |-> f, stage |-> "idle", line |-> 0]]
    /\ Mixes(f, FALSE)
    /\ UNCHANGED streams

(* FileAppender(path, openMode).  (When open() fails, the constructor      *)
(* throws and nothing has changed.)                                        *)
ConstructFile(a, f, overwrite) ==
    /\ appender[a] = Gone
    /\ \E n \in Fds :
          /\ Open(n, f, TRUE, overwrite)
          /\ appender' = [appender EXCEPT ![a] =
                [kind |-> "file", fd |-> n, home |-> f, stage |-> "idle", line |-> 0]]
    /\ Mixes(f, FALSE)
    /\ UNCHANGED streams

(* CFileAppender(file).  (When fileno() finds no descriptor, the           *)
(* constructor throws and nothing has changed.)                            *)
ConstructCFile(a) ==
    /\ appender[a] = Gone
    /\ \E f \in Files : \E n \in streams \cap OpenOn(f) :
          appender' = [appender EXCEPT ![a] =
             [kind |-> "cfile", fd |-> n, home |-> f, stage |-> "idle", line |-> 0]]
    /\ UNCHANGED <<osVars, counters, ghosts>>

ConstructStd(a) ==
    /\ appender[a] = Gone
    /\ appender' = [appender EXCEPT ![a] =
          [kind |-> "std", fd |-> 2, home |-> Stderr, stage |-> "idle", line |-> 0]]
    /\ UNCHANGED <<osVars, counters, ghosts>>

(* Mutant: CFileAppender closes the descriptor too *)
DestroyCloses(a) ==
    /\ appender[a] # Gone
    /\ appender[a].stage = "idle"
    /\ appender' = [appender EXCEPT ![a] = Gone]
    /\ fd' = IF Kind(a) # "std" THEN [fd EXCEPT ![appender[a].fd] = Closed] ELSE fd
    /\ UNCHANGED <<content, disk, streams, counters, ghosts>>

(* A destructor: only ~FileAppender closes its descriptor. *)
Destroy(a) ==
    /\ appender[a] # Gone
    /\ appender[a].stage = "idle"
    /\ appender' = [appender EXCEPT ![a] = Gone]
    /\ fd' = IF Kind(a) = "file" THEN [fd EXCEPT ![appender[a].fd] = Closed] ELSE fd
    /\ UNCHANGED <<content, disk, streams, counters, ghosts>>

(* The client's fopen(path, "a") or, truncating, "w" *)
ClientOpen(f, append) ==
    /\ \E n \in Fds : Open(n, f, append, ~ append) /\ streams' = streams \cup {n}
    /\ Mixes(f, ~ append)
    /\ UNCHANGED appender

(* The client's fclose() *)
ClientClose(n) ==
    /\ n \in streams
    /\ streams' = streams \ {n}
    /\ fd' = [fd EXCEPT ![n] = Closed]
    /\ dropped' = (dropped \/ \E a \in Appenders :
                                 Kind(a) = "cfile" /\ appender[a].fd = n)
    /\ UNCHANGED <<content, disk, appender, counters, lines, durable, mixed>>

-----------------------------------------------------------------------------
(* doLog *)

StdFd(p) == IF p <= 2 THEN 2 ELSE 1

(* doLog is called and has composed its line. *)
Log(a, p) ==
    /\ appender[a] # Gone
    /\ appender[a].stage = "idle"
    /\ Len(lines) < MaxLines
    /\ LET n == IF Kind(a) = "std" THEN StdFd(p) ELSE appender[a].fd
           home == IF Kind(a) = "std" THEN fd[n].file ELSE appender[a].home
       IN  /\ appender' = [appender EXCEPT ![a].stage = "write",
                                           ![a].line = Len(lines) + 1,
                                           ![a].fd = n]
           /\ lines' = Append(lines, [home |-> home, by |-> a])
    /\ UNCHANGED <<osVars, counters, durable, mixed, dropped>>

(* The cells of s after those of r have been written at position i *)
Overwritten(s, i, r) ==
    [k \in 1 .. Max({Len(s), i + Len(r)}) |->
        IF k \in i + 1 .. i + Len(r) THEN r[k - i]
        ELSE IF k <= Len(s) THEN s[k] ELSE Hole]

(* writev() of some cells to the descriptor n *)
WriteTo(n, cells) ==
    IF fd[n] = Closed \/ cells = <<>>
    THEN UNCHANGED <<content, fd>>  \* EBADF, or nothing is written
    ELSE LET f == fd[n].file
             i == IF fd[n].append THEN Len(content[f]) ELSE fd[n].at
         IN  /\ content' = [content EXCEPT ![f] = Overwritten(@, i, cells)]
             /\ fd' = [fd EXCEPT ![n].at = i + Len(cells)]

AfterWrite(a) == IF Kind(a) = "cfile" THEN "sync" ELSE "idle"

Line(a) == <<<<appender[a].line, 1>>, <<appender[a].line, 2>>>>

(* logToFile_ *)
Write(a) ==
    /\ appender[a].stage = "write"
    /\ WriteTo(appender[a].fd, Line(a))
    /\ appender' = [appender EXCEPT ![a].stage = AfterWrite(a)]
    /\ UNCHANGED <<disk, streams, counters, ghosts>>

(* logToFile_, when writev() writes only part of the line, or nothing *)
WriteShort(a) ==
    /\ appender[a].stage = "write"
    /\ shorts < MaxShorts
    /\ shorts' = shorts + 1
    /\ \E n \in 0 .. 1 : WriteTo(appender[a].fd, SubSeq(Line(a), 1, n))
    /\ appender' = [appender EXCEPT ![a].stage = AfterWrite(a)]
    /\ UNCHANGED <<disk, streams, opens, crashes, before, ghosts>>

(* A line that is in its file whole is durable once fsync() has succeeded. *)
Synced(a) ==
    /\ appender[a].stage = "sync"
    /\ fd[appender[a].fd] # Closed
    /\ durable' = durable \cup
          {l \in {appender[a].line} : Range(Line(a)) \subseteq Range(content[lines[l].home])}
    /\ appender' = [appender EXCEPT ![a].stage = "idle"]
    /\ UNCHANGED <<content, fd, streams, counters, lines, mixed, dropped>>

(* Mutant: logToFile in place of logToFileSync *)
SyncNot(a) == Synced(a) /\ UNCHANGED disk

(* The fsync() of logToFileSync *)
Sync(a) ==
    /\ Synced(a)
    /\ LET f == fd[appender[a].fd].file
       IN  disk' = [disk EXCEPT ![f] = content[f]]

(* An fsync() that fails, with EBADF where the descriptor is closed.       *)
(* Nobody looks at its result: doLog returns as if it had succeeded.       *)
SyncFails(a) ==
    /\ appender[a].stage = "sync"
    /\ appender' = [appender EXCEPT ![a].stage = "idle"]
    /\ UNCHANGED <<osVars, counters, ghosts>>

-----------------------------------------------------------------------------
(* Crash *)

(* What may be found in a file: what the last fsync() that succeeded left, *)
(* or some of what has been written since.                                 *)
Survivors(f) ==
    LET kept == IF IsPrefix(disk[f], content[f]) THEN Len(disk[f]) ELSE 0
    IN  {disk[f]} \cup {SubSeq(content[f], 1, n) : n \in kept .. Len(content[f])}

StdFds ==
    [n \in Fds \cup {1, 2} |->
        IF n \in Fds THEN Closed
        ELSE [file |-> IF n = 1 THEN Stdout ELSE Stderr, append |-> TRUE, at |-> 0]]

(* The system crashes; the program is started again. *)
Crash ==
    /\ crashes < MaxCrashes
    /\ crashes' = crashes + 1
    /\ content' \in [Files -> UNION {Survivors(f) : f \in Files}]
    /\ \A f \in Files : content'[f] \in Survivors(f)
    /\ disk' = content'
    /\ fd' = StdFds
    /\ streams' = {}
    /\ appender' = [a \in Appenders |-> Gone]
    /\ before' = Len(lines)
    /\ UNCHANGED <<lines, durable, mixed, dropped, opens, shorts>>

-----------------------------------------------------------------------------

Init ==
    /\ content = [f \in Files |-> <<>>]
    /\ disk = [f \in Files |-> <<>>]
    /\ fd = StdFds
    /\ streams = {}
    /\ appender = [a \in Appenders |-> Gone]
    /\ lines = <<>> /\ durable = {} /\ mixed = {} /\ dropped = FALSE
    /\ opens = 0 /\ shorts = 0 /\ crashes = 0 /\ before = 0

Next ==
    \/ \E a \in Appenders :
          \/ \E f \in Files, overwrite \in BOOLEAN : ConstructFile(a, f, overwrite)
          \/ ConstructCFile(a) \/ ConstructStd(a) \/ Destroy(a)
          \/ \E p \in Priorities : Log(a, p)
          \/ Write(a) \/ WriteShort(a) \/ Sync(a) \/ SyncFails(a)
    \/ \E f \in Files, append \in BOOLEAN : ClientOpen(f, append)
    \/ \E n \in Fds : ClientClose(n)
    \/ Crash

Spec == Init /\ [][Next]_vars

-----------------------------------------------------------------------------
(* Properties *)

Torn(f) ==
    {i \in DOMAIN content[f] :
        /\ content[f][i][1] > before
        /\ content[f][i][2] = 1
        /\ ~ (i < Len(content[f]) /\ content[f][i + 1] = <<content[f][i][1], 2>>)}

(***************************************************************************)
(* In a file that the client does not have open at a position while it is  *)
(* open another time: lines of different appenders are not mixed, no line  *)
(* is there twice or has lost its beginning, none is overwritten, and none *)
(* written since a crash is torn but by a short write.                     *)
(***************************************************************************)
WholeLines ==
    \A f \in Files \ mixed :
       /\ IsInjective(content[f])
       /\ \A i \in DOMAIN content[f] :
             /\ content[f][i] # Hole
             /\ content[f][i][2] = 2 =>
                   i > 1 /\ content[f][i - 1] = <<content[f][i][1], 1>>
       /\ Cardinality(Torn(f)) <= shorts

(***************************************************************************)
(* As long as the client keeps a FILE open while a CFileAppender uses it,  *)
(* every line goes to the file its appender was made for, however often    *)
(* descriptor numbers are given out again.                                 *)
(***************************************************************************)
OwnFile ==
    ~ dropped => \A f \in Files : \A i \in DOMAIN content[f] :
                    content[f][i] # Hole => lines[content[f][i][1]].home = f

(***************************************************************************)
(* A line that a CFileAppender has written whole, and whose fsync() has    *)
(* succeeded, stays in its file through crashes until that is truncated:   *)
(* as long as the client keeps the FILE open, and in a file that it does   *)
(* not have open at a position while that is open another time.  (Of a     *)
(* line whose fsync() has failed nothing is said: doLog returns from it    *)
(* all the same, and a crash may lose it.)                                 *)
(***************************************************************************)
Durable ==
    \A l \in durable : ~ dropped /\ lines[l].home \notin mixed =>
       {<<l, 1>>, <<l, 2>>} \subseteq Range(content[lines[l].home])
=============================================================================
