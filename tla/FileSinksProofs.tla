-------------------------- MODULE FileSinksProofs --------------------------
(***************************************************************************)
(* Proofs about FileSinks, for any number of appenders, files, descriptors *)
(* and lines and any short writes and crashes.                             *)
(*                                                                         *)
(* None of the properties is inductive.  Lines are in their own file since *)
(* a descriptor has one owner at a time: an appender that opened it or the *)
(* client, by a FILE.  Lines are whole since every descriptor of a file    *)
(* that is not mixed writes at its end (AtEnd) and a line is written once. *)
(* Lines are durable since the disk holds a beginning of the file, and     *)
(* what has been synced is in that.                                        *)
(***************************************************************************)
EXTENDS FileSinks, SequenceTheorems, FiniteSetTheorems, WellFoundedInduction, TLAPS

(* Who owns a descriptor *)

StandardFds ==
    /\ fd[1] # Closed /\ fd[1].append /\ fd[1].file = Stdout
    /\ fd[2] # Closed /\ fd[2].append /\ fd[2].file = Stderr

IsOpenOn(n, f) == fd[n] # Closed /\ fd[n].file = f

FileOwns(a) ==
    Kind(a) = "file" =>
       /\ appender[a].fd \in Fds \ streams
       /\ IsOpenOn(appender[a].fd, appender[a].home)

CFileBorrows(a) ==
    Kind(a) = "cfile" =>
       /\ appender[a].fd \in Fds
       /\ ~ dropped => /\ appender[a].fd \in streams
                       /\ IsOpenOn(appender[a].fd, appender[a].home)

StdWrites(a) == Kind(a) = "std" => appender[a].fd \in {1, 2}

OneOwner ==
    \A a, b \in Appenders : a # b /\ Kind(a) = "file" /\ Kind(b) = "file" =>
       appender[a].fd # appender[b].fd

Ownership ==
    /\ StandardFds /\ OneOwner
    /\ \A a \in Appenders : FileOwns(a) /\ CFileBorrows(a) /\ StdWrites(a)
    /\ \A n \in DOMAIN fd : fd[n] # Closed /\ ~ fd[n].append => n \in streams

(* What an appender is doing.  A line that is not yet written is nowhere. *)

Lacks(s, l) == \A i \in DOMAIN s : s[i][1] # l

InFlight(a) ==
    appender[a].stage # "idle" =>
       /\ appender[a].line \in DOMAIN lines
       /\ ~ dropped => IsOpenOn(appender[a].fd, lines[appender[a].line].home)

Unwritten(a) ==
    appender[a].stage = "write" =>
       \A f \in Files : /\ Lacks(content[f], appender[a].line)
                        /\ Lacks(disk[f], appender[a].line)

OneWriter ==
    \A a, b \in Appenders :
       a # b /\ appender[a].stage = "write" /\ appender[b].stage = "write" =>
          appender[a].line # appender[b].line

Progress ==
    /\ \A a \in Appenders : InFlight(a) /\ Unwritten(a)
    /\ OneWriter

(* What is in a file, and was when it was last synced *)

Known(s) == \A i \in DOMAIN s : s[i] = Hole \/ s[i][1] \in DOMAIN lines

AtHome(s, f) ==
    \A i \in DOMAIN s : s[i] # Hole => lines[s[i][1]].home = f

Whole(s) ==
    /\ IsInjective(s)
    /\ \A i \in DOMAIN s :
          /\ s[i] # Hole
          /\ s[i][2] = 2 => i > 1 /\ s[i - 1] = <<s[i][1], 1>>

Sane(s, f) ==
    /\ Known(s)
    /\ ~ dropped => AtHome(s, f)
    /\ f \notin mixed => Whole(s)

AtEnd(f) ==
    f \notin mixed =>
       \A n \in OpenOn(f) :
          fd[n].append \/ (OpenOn(f) = {n} /\ fd[n].at = Len(content[f]))

FewTorn(f) == f \notin mixed => Cardinality(Torn(f)) <= shorts

Contents ==
    \A f \in Files :
       Sane(content[f], f) /\ Sane(disk[f], f) /\ AtEnd(f) /\ FewTorn(f)

(* What has been synced *)
Holds(s, l) == <<l, 1>> \in Range(s) /\ <<l, 2>> \in Range(s)

OnDisk(l) ==
    ~ dropped /\ lines[l].home \notin mixed =>
       /\ IsPrefix(disk[lines[l].home], content[lines[l].home])
       /\ Holds(disk[lines[l].home], l)

AllOnDisk == \A l \in durable : OnDisk(l)

IInv == TypeOK /\ Ownership /\ Progress /\ Contents /\ AllOnDisk

-----------------------------------------------------------------------------
(* Sequences of cells *)

LEMMA Types ==
    ASSUME TypeOK
    PROVE  /\ content \in [Files -> Seq(Cells)] /\ disk \in [Files -> Seq(Cells)]
           /\ fd \in [Fds \cup {1, 2} -> Descriptors \cup {Closed}]
           /\ DOMAIN fd = Fds \cup {1, 2}
           /\ streams \subseteq Fds
           /\ appender \in [Appenders -> AppenderStates \cup {Gone}]
           /\ lines \in Seq([home : Files, by : Appenders])
           /\ Len(lines) \in Nat /\ DOMAIN lines = 1 .. Len(lines)
           /\ opens \in Nat /\ shorts \in Nat /\ crashes \in Nat /\ before \in Nat
  BY DEF TypeOK

LEMMA HomeIs ==
    ASSUME TypeOK, NEW l \in DOMAIN lines
    PROVE  lines[l].home \in Files
<1>1. l \in 1 .. Len(lines) /\ lines \in Seq([home : Files, by : Appenders])
  BY Types
<1>2. lines[l] \in [home : Files, by : Appenders]
  BY <1>1, ElementOfSeq, Zenon
<1> QED
  BY <1>2

LEMMA OfCells ==
    ASSUME NEW s \in Seq(Cells)
    PROVE  /\ Len(s) \in Nat /\ DOMAIN s = 1 .. Len(s)
           /\ \A i \in 1 .. Len(s) : s[i] \in Cells
  OBVIOUS

LEMMA PrefixIs ==
    ASSUME NEW s \in Seq(Cells), NEW t \in Seq(Cells)
    PROVE  IsPrefix(s, t) <=> /\ Len(s) <= Len(t)
                              /\ \A i \in 1 .. Len(s) : s[i] = t[i]
<1> SUFFICES ASSUME Len(s) <= Len(t)
             PROVE  SubSeq(s, 1, Len(s)) = SubSeq(t, 1, Len(s))
                    <=> \A i \in 1 .. Len(s) : s[i] = t[i]
  BY DEF IsPrefix
<1>1. /\ \A i \in 1 .. Len(s) : s[i] \in Cells
      /\ \A i \in 1 .. Len(s) : t[i] \in Cells
      /\ Len(s) \in Int /\ 1 \in Int
  BY OfCells
<1>2. /\ SubSeq(s, 1, Len(s)) \in Seq(Cells)
      /\ Len(SubSeq(s, 1, Len(s))) = Len(s)
      /\ \A i \in 1 .. Len(s) : SubSeq(s, 1, Len(s))[i] = s[i]
  BY <1>1, SubSeqProperties
<1>3. /\ SubSeq(t, 1, Len(s)) \in Seq(Cells)
      /\ Len(SubSeq(t, 1, Len(s))) = Len(s)
      /\ \A i \in 1 .. Len(s) : SubSeq(t, 1, Len(s))[i] = t[i]
  BY <1>1, SubSeqProperties
<1>4. ASSUME \A i \in 1 .. Len(s) : s[i] = t[i]
      PROVE  SubSeq(s, 1, Len(s)) = SubSeq(t, 1, Len(s))
  BY <1>2, <1>3, <1>4, SeqEqual
<1> QED
  BY <1>2, <1>3, <1>4

LEMMA Beginning ==
    ASSUME NEW s \in Seq(Cells), NEW n \in 0 .. Len(s)
    PROVE  /\ SubSeq(s, 1, n) \in Seq(Cells) /\ Len(SubSeq(s, 1, n)) = n
           /\ DOMAIN SubSeq(s, 1, n) = 1 .. n /\ 1 .. n \subseteq DOMAIN s
           /\ \A i \in 1 .. n : SubSeq(s, 1, n)[i] = s[i]
<1>1. \A i \in 1 .. n : s[i] \in Cells
  BY OfCells
<1>2. /\ SubSeq(s, 1, n) \in Seq(Cells) /\ Len(SubSeq(s, 1, n)) = n
      /\ \A i \in 1 .. n : SubSeq(s, 1, n)[i] = s[i]
  BY <1>1, SubSeqProperties
<1> QED
  BY <1>2, OfCells

(* What holds of a file holds of its beginning. *)
LEMMA SaneBeginning ==
    ASSUME NEW s \in Seq(Cells), NEW n \in 0 .. Len(s), NEW f, Sane(s, f)
    PROVE  Sane(SubSeq(s, 1, n), f)
<1> DEFINE r == SubSeq(s, 1, n)
<1>1. /\ DOMAIN r = 1 .. n /\ 1 .. n \subseteq DOMAIN s
      /\ \A i \in 1 .. n : r[i] = s[i]
  BY Beginning
<1>2. n \in Nat
  BY OfCells
<1> HIDE DEF r
<1>3. Known(r) /\ (~ dropped => AtHome(r, f))
  BY <1>1 DEF Sane, Known, AtHome
<1>4. ASSUME Whole(s) PROVE Whole(r)
  <2>1. IsInjective(r)
    BY <1>1, <1>4 DEF Whole, IsInjective
  <2>2. ASSUME NEW i \in 1 .. n
        PROVE  r[i] # Hole /\ (r[i][2] = 2 => i > 1 /\ r[i - 1] = <<r[i][1], 1>>)
    <3>1. i \in DOMAIN s /\ r[i] = s[i] /\ (i > 1 => r[i - 1] = s[i - 1])
      BY <1>1, <1>2
    <3> QED BY <1>4, <3>1 DEF Whole
  <2> QED BY <1>1, <2>1, <2>2 DEF Whole
<1> QED
  BY <1>3, <1>4 DEF Sane, r

LEMMA SaneEmpty == \A f : Sane(<<>>, f)
  BY DEF Sane, Known, AtHome, Whole, IsInjective

LEMMA OverwrittenIs ==
    ASSUME NEW s \in Seq(Cells), NEW r \in Seq(Cells), NEW i \in Nat
    PROVE  LET o == Overwritten(s, i, r)
               n == IF Len(s) >= i + Len(r) THEN Len(s) ELSE i + Len(r)
           IN  /\ o \in Seq(Cells) /\ Len(o) = n /\ DOMAIN o = 1 .. n
               /\ \A k \in DOMAIN o : o[k] = IF k \in i + 1 .. i + Len(r) THEN r[k - i]
                                          ELSE IF k <= Len(s) THEN s[k] ELSE Hole
<1> DEFINE n == IF Len(s) >= i + Len(r) THEN Len(s) ELSE i + Len(r)
           e(k) == IF k \in i + 1 .. i + Len(r) THEN r[k - i]
                   ELSE IF k <= Len(s) THEN s[k] ELSE Hole
<1>1. Len(s) \in Nat /\ Len(r) \in Nat /\ n \in Nat
  BY OfCells
<1>2. Max({Len(s), i + Len(r)}) = n
  BY <1>1 DEF Max
<1>3. Overwritten(s, i, r) = [k \in 1 .. n |-> e(k)]
  BY <1>2 DEF Overwritten
<1>4. ASSUME NEW k \in 1 .. n PROVE e(k) \in Cells
  <2>1. CASE k \in i + 1 .. i + Len(r)
    <3>1. k - i \in 1 .. Len(r)
      BY <1>1, <2>1
    <3> QED BY <2>1, <3>1, OfCells
  <2>2. CASE k \notin i + 1 .. i + Len(r) /\ k <= Len(s)
    <3>1. k \in 1 .. Len(s)
      BY <1>1, <2>2
    <3> QED BY <2>2, <3>1, OfCells
  <2>3. CASE k \notin i + 1 .. i + Len(r) /\ ~ (k <= Len(s))
    BY <2>3 DEF Cells, Hole
  <2> QED BY <2>1, <2>2, <2>3
<1> HIDE DEF n, e
<1>5. [k \in 1 .. n |-> e(k)] \in Seq(Cells)
  BY <1>1, <1>4
<1>6. Len([k \in 1 .. n |-> e(k)]) = n
  BY <1>1
<1> QED
  BY <1>3, <1>5, <1>6 DEF n, e

LEMMA TornFinite ==
    ASSUME NEW f, content[f] \in Seq(Cells)
    PROVE  IsFiniteSet(Torn(f)) /\ Cardinality(Torn(f)) \in Nat
<1>1. Torn(f) \subseteq 1 .. Len(content[f]) /\ Len(content[f]) \in Nat
  BY OfCells DEF Torn
<1>2. IsFiniteSet(1 .. Len(content[f]))
  BY <1>1, FS_Interval
<1> QED
  BY <1>1, <1>2, FS_Subset, FS_CardinalityType

-----------------------------------------------------------------------------
(* Types *)

(* There is a lowest free descriptor. *)
LEMMA LowestIsFree ==
    ASSUME FreeFds # {}
    PROVE  Min(FreeFds) \in FreeFds
<1>1. FreeFds \subseteq Nat
  BY FileSinksAssumption DEF FreeFds
<1>2. PICK n \in FreeFds : \A k \in FreeFds : ~ (<<k, n>> \in OpToRel(<, Nat))
  BY <1>1, NatLessThanWellFounded, WFMin
<1>3. ASSUME NEW k \in FreeFds PROVE n <= k
  <2>1. k \in Nat /\ n \in Nat
    BY <1>1
  <2>2. <<k, n>> \in Nat \X Nat /\ ~ (<<k, n>> \in OpToRel(<, Nat))
    BY <1>2, <2>1
  <2>3. ~ (k < n)
    BY <2>1, <2>2 DEF OpToRel
  <2> QED BY <2>1, <2>3
<1> QED
  BY <1>3 DEF Min

LEMMA Descriptor ==
    ASSUME NEW d \in Descriptors
    PROVE  d # Closed /\ d.file \in Files /\ d.append \in BOOLEAN /\ d.at \in Nat
<1>1. "at" \in DOMAIN d /\ "at" \notin DOMAIN Closed
  BY DEF Descriptors, Closed
<1> QED
  BY <1>1 DEF Descriptors

LEMMA OpenIs ==
    ASSUME TypeOK, NEW n \in Fds \cup {1, 2}, fd[n] # Closed
    PROVE  fd[n] \in Descriptors
  BY Types

LEMMA AppenderIs ==
    ASSUME TypeOK, NEW a \in Appenders
    PROVE  /\ appender[a] \in AppenderStates \/ appender[a] = Gone
           /\ appender[a] \in AppenderStates => appender[a] # Gone
           /\ appender[a] # Gone <=> Kind(a) \in {"file", "cfile", "std"}
           /\ appender[a].stage # "idle" => appender[a] # Gone
           /\ appender[a] = Gone => Kind(a) = "none"
  BY Types DEF AppenderStates, Gone, Kind

(* An appender moves on. *)
LEMMA StageSet ==
    ASSUME TypeOK, NEW a \in Appenders, appender[a] # Gone,
           NEW st \in {"idle", "write", "sync"},
           appender' = [appender EXCEPT ![a].stage = st]
    PROVE  /\ appender' \in [Appenders -> AppenderStates \cup {Gone}]
           /\ appender'[a] = [appender[a] EXCEPT !.stage = st]
           /\ appender'[a] \in AppenderStates
           /\ appender'[a].stage = st
           /\ \A b \in Appenders :
                 /\ b # a => appender'[b] = appender[b]
                 /\ appender'[b].kind = appender[b].kind
                 /\ appender'[b].kind # "none" =>
                       /\ appender'[b].fd = appender[b].fd
                       /\ appender'[b].home = appender[b].home
                       /\ appender'[b].line = appender[b].line
<1>1. appender[a] \in AppenderStates
  BY AppenderIs
<1>2. /\ [appender[a] EXCEPT !.stage = st] \in AppenderStates
      /\ [appender[a] EXCEPT !.stage = st].stage = st
      /\ [appender[a] EXCEPT !.stage = st].kind = appender[a].kind
      /\ [appender[a] EXCEPT !.stage = st].fd = appender[a].fd
      /\ [appender[a] EXCEPT !.stage = st].home = appender[a].home
      /\ [appender[a] EXCEPT !.stage = st].line = appender[a].line
  BY <1>1 DEF AppenderStates
<1>3. /\ appender'[a] = [appender[a] EXCEPT !.stage = st]
      /\ \A b \in Appenders : b # a => appender'[b] = appender[b]
      /\ DOMAIN appender' = Appenders
      /\ appender' = [b \in Appenders |->
                        IF b = a THEN [appender[a] EXCEPT !.stage = st] ELSE appender[b]]
  BY Types
<1>4. appender' \in [Appenders -> AppenderStates \cup {Gone}]
  BY <1>2, <1>3, Types
<1>5. ASSUME NEW b \in Appenders
      PROVE  /\ appender'[b].kind = appender[b].kind
             /\ appender'[b].kind # "none" =>
                   /\ appender'[b].fd = appender[b].fd
                   /\ appender'[b].home = appender[b].home
                   /\ appender'[b].line = appender[b].line
  BY <1>2, <1>3
<1> QED
  BY <1>2, <1>3, <1>4, <1>5

(* The appender a is replaced by s. *)
LEMMA AppenderSet ==
    ASSUME TypeOK, NEW a \in Appenders, NEW s \in AppenderStates \cup {Gone},
           appender' = [appender EXCEPT ![a] = s]
    PROVE  /\ appender' \in [Appenders -> AppenderStates \cup {Gone}]
           /\ appender'[a] = s
           /\ \A b \in Appenders \ {a} : appender'[b] = appender[b]
  BY Types

(* What open() does *)
Opened(n, f, append, truncate) ==
    /\ fd[n] = Closed /\ fd'[n] # Closed /\ fd'[n].file = f
    /\ fd'[n].append = append /\ fd'[n].at = 0
    /\ \A m \in Fds \cup {1, 2} : m # n => fd'[m] = fd[m]
    /\ fd' \in [Fds \cup {1, 2} -> Descriptors \cup {Closed}]
    /\ content' \in [Files -> Seq(Cells)]
    /\ content'[f] = IF truncate THEN <<>> ELSE content[f]
    /\ \A g \in Files : g # f => content'[g] = content[g]
    /\ durable' = IF truncate THEN {l \in durable : lines[l].home # f} ELSE durable
    /\ opens' \in Nat
    /\ UNCHANGED <<disk, lines, dropped, shorts, crashes, before>>

LEMMA Opens ==
    ASSUME TypeOK, NEW n \in Fds, NEW f \in Files, NEW append \in BOOLEAN,
           NEW truncate \in BOOLEAN, Open(n, f, append, truncate)
    PROVE  Opened(n, f, append, truncate)
<1> DEFINE d == [file |-> f, append |-> append, at |-> 0]
<1>1. d \in Descriptors
  BY DEF Descriptors
<1>2. d # Closed
  BY <1>1, Descriptor
<1>3. n \in FreeFds
  BY LowestIsFree DEF Open
<1>4. fd[n] = Closed
  BY <1>3 DEF FreeFds
<1>5. fd' = [fd EXCEPT ![n] = d]
  BY DEF Open
<1>6. d.file = f /\ d.append = append /\ d.at = 0
  OBVIOUS
<1> HIDE DEF d
<1>7. /\ fd'[n] = d /\ \A m \in Fds \cup {1, 2} : m # n => fd'[m] = fd[m]
      /\ fd' \in [Fds \cup {1, 2} -> Descriptors \cup {Closed}]
  BY <1>1, <1>5, Types
<1>8. content' = [content EXCEPT ![f] = IF truncate THEN <<>> ELSE content[f]]
  BY DEF Open
<1>9. <<>> \in Seq(Cells)
  OBVIOUS
<1>10. /\ content' \in [Files -> Seq(Cells)]
       /\ content'[f] = IF truncate THEN <<>> ELSE content[f]
       /\ \A g \in Files : g # f => content'[g] = content[g]
  BY <1>8, <1>9, Types
<1>11. /\ durable' = IF truncate THEN {l \in durable : lines[l].home # f} ELSE durable
       /\ opens' \in Nat
       /\ UNCHANGED <<disk, lines, dropped, shorts, crashes, before>>
  BY Types DEF Open
<1> QED
  BY <1>2, <1>4, <1>6, <1>7, <1>10, <1>11 DEF Opened

LEMMA Closes ==
    ASSUME TypeOK, NEW n \in Fds, fd' = [fd EXCEPT ![n] = Closed]
    PROVE  /\ fd'[n] = Closed
           /\ \A m \in Fds \cup {1, 2} : m # n => fd'[m] = fd[m]
           /\ fd' \in [Fds \cup {1, 2} -> Descriptors \cup {Closed}]
  BY Types

(* What writev() does to the file and to the descriptor *)
WritesAt(n, f, i, cells) ==
    /\ f \in Files /\ i \in Nat /\ fd[n] # Closed /\ fd[n].file = f /\ cells # <<>>
    /\ i = IF fd[n].append THEN Len(content[f]) ELSE fd[n].at
    /\ content'[f] = Overwritten(content[f], i, cells)
    /\ \A g \in Files : g # f => content'[g] = content[g]
    /\ fd'[n] # Closed /\ fd'[n].file = f
    /\ fd'[n].append = fd[n].append
    /\ fd'[n].at = i + Len(cells)
    /\ \A m \in Fds \cup {1, 2} : m # n => fd'[m] = fd[m]

LEMMA Writes ==
    ASSUME TypeOK, NEW n \in Fds \cup {1, 2}, NEW cells \in Seq(Cells),
           WriteTo(n, cells)
    PROVE  /\ content' \in [Files -> Seq(Cells)]
           /\ fd' \in [Fds \cup {1, 2} -> Descriptors \cup {Closed}]
           /\ \/ UNCHANGED <<content, fd>>
              \/ \E f \in Files, i \in Nat : WritesAt(n, f, i, cells)
<1>1. CASE fd[n] = Closed \/ cells = <<>>
  BY <1>1, Types DEF WriteTo
<1>2. CASE fd[n] # Closed /\ cells # <<>>
  <2> DEFINE f == fd[n].file
             i == IF fd[n].append THEN Len(content[f]) ELSE fd[n].at
             d == [fd[n] EXCEPT !.at = i + Len(cells)]
             o == Overwritten(content[f], i, cells)
  <2>1. fd[n] \in Descriptors
    BY <1>2, OpenIs
  <2>2. f \in Files /\ fd[n].append \in BOOLEAN /\ fd[n].at \in Nat
    BY <2>1, Descriptor
  <2>3. content[f] \in Seq(Cells)
    BY <2>2, Types
  <2>4. i \in Nat /\ i + Len(cells) \in Nat
    BY <2>2, <2>3, SMTT(30)
  <2>5. /\ d \in Descriptors /\ d.file = f /\ d.append = fd[n].append
        /\ d.at = i + Len(cells)
    BY <2>1, <2>4 DEF Descriptors
  <2>6. content' = [content EXCEPT ![f] = o] /\ fd' = [fd EXCEPT ![n] = d]
    BY <1>2 DEF WriteTo
  <2>7. o \in Seq(Cells)
    BY <2>3, <2>4, OverwrittenIs
  <2>8. i = IF fd[n].append THEN Len(content[f]) ELSE fd[n].at
    OBVIOUS
  <2>9. fd[n].file = f
    OBVIOUS
  <2>10. d # Closed
    BY <2>5, Descriptor
  <2>11. o = Overwritten(content[f], i, cells)
    OBVIOUS
  <2> HIDE DEF f, i, d, o
  <2>12. /\ content' \in [Files -> Seq(Cells)] /\ content'[f] = o
         /\ \A g \in Files : g # f => content'[g] = content[g]
    BY <2>2, <2>6, <2>7, Types
  <2>13. /\ fd' \in [Fds \cup {1, 2} -> Descriptors \cup {Closed}] /\ fd'[n] = d
         /\ \A m \in Fds \cup {1, 2} : m # n => fd'[m] = fd[m]
    BY <2>5, <2>6, Types
  <2>14. WritesAt(n, f, i, cells)
    BY <1>2, <2>2, <2>4, <2>5, <2>8, <2>9, <2>10, <2>11, <2>12, <2>13 DEF WritesAt
  <2> QED BY <2>2, <2>4, <2>12, <2>13, <2>14
<1> QED
  BY <1>1, <1>2

(* The line that an appender is writing *)
LEMMA LineIs ==
    ASSUME TypeOK, NEW a \in Appenders, appender[a] # Gone
    PROVE  /\ Line(a) \in Seq(Cells) /\ Len(Line(a)) = 2
           /\ Line(a)[1] = <<appender[a].line, 1>>
           /\ Line(a)[2] = <<appender[a].line, 2>>
<1>1. appender[a].line \in Nat
  BY AppenderIs DEF AppenderStates
<1>2. <<appender[a].line, 1>> \in Cells /\ <<appender[a].line, 2>> \in Cells
  BY <1>1 DEF Cells
<1> QED
  BY <1>2 DEF Line

(* An appender's descriptor is one that the system has. *)
LEMMA DescriptorKnown ==
    ASSUME TypeOK, Ownership, NEW a \in Appenders, appender[a] # Gone
    PROVE  appender[a].fd \in Fds \cup {1, 2}
  BY AppenderIs DEF Ownership, FileOwns, CFileBorrows, StdWrites

(* Write and WriteShort are the same but for how much they write. *)
WritesSome(a, m) ==
    /\ appender[a].stage = "write" /\ appender[a] # Gone
    /\ m \in 0 .. 2
    /\ WriteTo(appender[a].fd, SubSeq(Line(a), 1, m))
    /\ appender' = [appender EXCEPT ![a].stage = AfterWrite(a)]
    /\ AfterWrite(a) \in {"idle", "write", "sync"} \ {"write"}
    /\ shorts' = IF m = 2 THEN shorts ELSE shorts + 1
    /\ UNCHANGED <<disk, streams, opens, crashes, before, ghosts>>

LEMMA WriteIs ==
    ASSUME TypeOK, NEW a \in Appenders, Write(a) \/ WriteShort(a)
    PROVE  \E m \in 0 .. 2 : WritesSome(a, m)
<1>1. appender[a].stage = "write" /\ appender[a] # Gone
  BY AppenderIs DEF Write, WriteShort
<1>2. AfterWrite(a) \in {"idle", "write", "sync"} \ {"write"}
  BY DEF AfterWrite
<1>3. CASE Write(a)
  <2>1. SubSeq(Line(a), 1, 2) = Line(a)
    <3>1. Line(a) \in Seq(Cells) /\ Len(Line(a)) = 2
      BY <1>1, LineIs
    <3>2. SubSeq(Line(a), 1, 2) \in Seq(Cells) /\ Len(SubSeq(Line(a), 1, 2)) = 2
          /\ \A i \in 1 .. 2 : SubSeq(Line(a), 1, 2)[i] = Line(a)[i]
      BY <3>1, Beginning, SMTT(30)
    <3> QED BY <3>1, <3>2, SeqEqual
  <2>2. WriteTo(appender[a].fd, SubSeq(Line(a), 1, 2))
    BY <1>3, <2>1 DEF Write, WriteTo
  <2>3. WritesSome(a, 2)
    BY <1>1, <1>2, <1>3, <2>2 DEF Write, WritesSome, counters
  <2> QED BY <2>3
<1>4. CASE WriteShort(a)
  <2>1. PICK m \in 0 .. 1 : WriteTo(appender[a].fd, SubSeq(Line(a), 1, m))
    BY <1>4 DEF WriteShort
  <2>2. WritesSome(a, m)
    BY <1>1, <1>2, <1>4, <2>1 DEF WriteShort, WritesSome
  <2> QED BY <2>2
<1> QED
  BY <1>3, <1>4

LEMMA StdFdsTypes ==
    /\ StdFds \in [Fds \cup {1, 2} -> Descriptors \cup {Closed}]
    /\ StdFds[1] # Closed /\ StdFds[1].append /\ StdFds[1].file = Stdout
    /\ StdFds[2] # Closed /\ StdFds[2].append /\ StdFds[2].file = Stderr
    /\ \A n \in Fds : StdFds[n] = Closed
    /\ \A n \in DOMAIN StdFds : StdFds[n] # Closed => StdFds[n].append
<1> DEFINE d(f) == [file |-> f, append |-> TRUE, at |-> 0]
<1>1. \A f \in Files : d(f) \in Descriptors /\ d(f).append /\ d(f).file = f
  BY DEF Descriptors
<1>2. \A f \in Files : d(f) # Closed
  BY <1>1, Descriptor
<1>3. StdFds = [n \in Fds \cup {1, 2} |->
                  IF n \in Fds THEN Closed ELSE d(IF n = 1 THEN Stdout ELSE Stderr)]
  BY DEF StdFds
<1> HIDE DEF d
<1>4. 1 \notin Fds /\ 2 \notin Fds /\ Stdout \in Files /\ Stderr \in Files
  BY FileSinksAssumption
<1> QED
  BY <1>1, <1>2, <1>3, <1>4

LEMMA InitTypes == Init => TypeOK
<1> SUFFICES ASSUME Init PROVE TypeOK
  OBVIOUS
<1>1. \A s \in Seq(Cells) : [f \in Files |-> s] \in [Files -> Seq(Cells)]
  OBVIOUS
<1>2. content \in [Files -> Seq(Cells)] /\ disk \in [Files -> Seq(Cells)]
  BY <1>1 DEF Init
<1>3. appender \in [Appenders -> AppenderStates \cup {Gone}]
  BY DEF Init
<1>4. fd \in [Fds \cup {1, 2} -> Descriptors \cup {Closed}]
  BY StdFdsTypes DEF Init
<1>5. lines \in Seq([home : Files, by : Appenders])
  BY DEF Init
<1>6. streams \subseteq Fds /\ \A n \in streams : fd[n] # Closed
  BY DEF Init
<1>7. /\ durable \subseteq DOMAIN lines /\ mixed \subseteq Files
      /\ {opens, shorts, crashes, before} \subseteq Nat
  BY DEF Init
<1>8. dropped \in BOOLEAN
  BY Zenon DEF Init
<1> QED
  BY <1>2, <1>3, <1>4, <1>5, <1>6, <1>7, <1>8 DEF TypeOK

LEMMA OpenTypes ==
    ASSUME TypeOK, NEW n \in Fds, NEW f \in Files, NEW append \in BOOLEAN,
           NEW truncate \in BOOLEAN, Open(n, f, append, truncate),
           NEW positioned \in BOOLEAN, Mixes(f, positioned),
           streams' \in {streams, streams \cup {n}},
           appender' \in [Appenders -> AppenderStates \cup {Gone}]
    PROVE  TypeOK'
<1>0. Opened(n, f, append, truncate)
  BY Opens, Zenon
<1>1. /\ fd'[n] # Closed
      /\ \A m \in Fds \cup {1, 2} : m # n => fd'[m] = fd[m]
      /\ fd' \in [Fds \cup {1, 2} -> Descriptors \cup {Closed}]
      /\ content' \in [Files -> Seq(Cells)] /\ durable' \subseteq durable
      /\ opens' \in Nat
  BY <1>0 DEF Opened
<1>2. disk' = disk /\ lines' = lines /\ dropped' = dropped
      /\ shorts' = shorts /\ crashes' = crashes /\ before' = before
  BY <1>0 DEF Opened
<1>3. mixed' \subseteq Files
  BY DEF Mixes, TypeOK
<1>4. streams' \subseteq Fds /\ \A m \in streams' : fd'[m] # Closed
  BY <1>1 DEF TypeOK
<1> QED
  BY <1>1, <1>2, <1>3, <1>4 DEF TypeOK

LEMMA NextTypes ==
    ASSUME TypeOK, Ownership, Progress, [Next]_vars
    PROVE  TypeOK'
<1>1. ASSUME NEW a \in Appenders, NEW f \in Files, NEW overwrite \in BOOLEAN,
             ConstructFile(a, f, overwrite)
      PROVE  TypeOK'
  <2>1. PICK n \in Fds :
           /\ Open(n, f, TRUE, overwrite)
           /\ appender' = [appender EXCEPT ![a] =
                [kind |-> "file", fd |-> n, home |-> f, stage |-> "idle", line |-> 0]]
    BY <1>1 DEF ConstructFile
  <2>2. [kind |-> "file", fd |-> n, home |-> f, stage |-> "idle", line |-> 0]
           \in AppenderStates
    BY FileSinksAssumption DEF AppenderStates
  <2>3. appender' \in [Appenders -> AppenderStates \cup {Gone}]
    BY <2>1, <2>2, AppenderSet
  <2>4. Mixes(f, FALSE) /\ streams' = streams
    BY <1>1 DEF ConstructFile
  <2> QED BY <2>1, <2>3, <2>4, OpenTypes
<1>2. ASSUME NEW a \in Appenders, ConstructCFile(a)
      PROVE  TypeOK'
  <2>1. PICK f \in Files, n \in streams :
           appender' = [appender EXCEPT ![a] =
             [kind |-> "cfile", fd |-> n, home |-> f, stage |-> "idle", line |-> 0]]
    BY <1>2 DEF ConstructCFile
  <2>2. [kind |-> "cfile", fd |-> n, home |-> f, stage |-> "idle", line |-> 0]
           \in AppenderStates
    BY FileSinksAssumption DEF AppenderStates, TypeOK
  <2>3. appender' \in [Appenders -> AppenderStates \cup {Gone}]
    BY <2>1, <2>2, AppenderSet
  <2> QED BY <1>2, <2>3 DEF ConstructCFile, osVars, counters, ghosts, TypeOK
<1>3. ASSUME NEW a \in Appenders, ConstructStd(a)
      PROVE  TypeOK'
  <2>1. [kind |-> "std", fd |-> 2, home |-> Stderr, stage |-> "idle", line |-> 0]
           \in AppenderStates
    BY FileSinksAssumption DEF AppenderStates
  <2>2. appender' \in [Appenders -> AppenderStates \cup {Gone}]
    BY <1>3, <2>1, AppenderSet DEF ConstructStd
  <2> QED BY <1>3, <2>2 DEF ConstructStd, osVars, counters, ghosts, TypeOK
<1>4. ASSUME NEW a \in Appenders, Destroy(a)
      PROVE  TypeOK'
  <2>1. appender' \in [Appenders -> AppenderStates \cup {Gone}]
    BY <1>4, AppenderSet DEF Destroy
  <2>2. /\ fd' \in [Fds \cup {1, 2} -> Descriptors \cup {Closed}]
        /\ \A n \in streams : fd'[n] # Closed
    <3>1. CASE Kind(a) = "file"
      <4>1. appender[a].fd \in Fds \ streams
        BY <3>1 DEF Ownership, FileOwns
      <4>2. fd' = [fd EXCEPT ![appender[a].fd] = Closed]
        BY <1>4, <3>1 DEF Destroy
      <4> QED BY <4>1, <4>2, Closes DEF TypeOK
    <3>2. CASE Kind(a) # "file"
      BY <1>4, <3>2 DEF Destroy, TypeOK
    <3> QED BY <3>1, <3>2
  <2> QED BY <1>4, <2>1, <2>2 DEF Destroy, counters, ghosts, TypeOK
<1>5. ASSUME NEW a \in Appenders, NEW p \in Priorities, Log(a, p)
      PROVE  TypeOK'
  <2> DEFINE n == IF Kind(a) = "std" THEN StdFd(p) ELSE appender[a].fd
             home == IF Kind(a) = "std" THEN fd[n].file ELSE appender[a].home
             s == [appender[a] EXCEPT !.stage = "write", !.line = Len(lines) + 1, !.fd = n]
  <2>1. appender[a] \in AppenderStates
    BY <1>5, AppenderIs DEF Log
  <2>2. n \in Nat /\ home \in Files
    BY <2>1, FileSinksAssumption DEF AppenderStates, StdFd, Ownership, StandardFds
  <2>3. appender' = [appender EXCEPT ![a] = s]
    BY <1>5 DEF Log
  <2>4. lines' = Append(lines, [home |-> home, by |-> a])
    BY <1>5 DEF Log
  <2> HIDE DEF n, home
  <2>5. Len(lines) + 1 \in Nat
    BY Types
  <2>6. s \in AppenderStates
    BY <2>1, <2>2, <2>5 DEF AppenderStates
  <2>7. appender' \in [Appenders -> AppenderStates \cup {Gone}]
    BY <2>3, <2>6, AppenderSet
  <2>8. lines' \in Seq([home : Files, by : Appenders]) /\ Len(lines') = Len(lines) + 1
    BY <2>2, <2>4, Types
  <2>9. durable' \subseteq DOMAIN lines'
    <3>1. durable' = durable /\ durable \subseteq DOMAIN lines
      BY <1>5 DEF Log, TypeOK
    <3>2. Len(lines) \in Nat /\ DOMAIN lines = 1 .. Len(lines)
      BY Types
    <3>3. DOMAIN lines' = 1 .. Len(lines) + 1
      BY <2>8
    <3>4. DOMAIN lines \subseteq DOMAIN lines'
      BY <3>2, <3>3
    <3> QED BY <3>1, <3>4
  <2> QED BY <1>5, <2>7, <2>8, <2>9 DEF Log, osVars, counters, TypeOK
<1>6. ASSUME NEW a \in Appenders, Write(a) \/ WriteShort(a)
      PROVE  TypeOK'
  <2>1. PICK m \in 0 .. 2 : WritesSome(a, m)
    BY <1>6, WriteIs
  <2>2. appender[a] # Gone /\ AfterWrite(a) \in {"idle", "write", "sync"}
    BY <2>1 DEF WritesSome
  <2>3. appender' \in [Appenders -> AppenderStates \cup {Gone}]
    BY <2>1, <2>2, StageSet DEF WritesSome
  <2>4. appender[a].fd \in Fds \cup {1, 2}
    BY <2>2, DescriptorKnown
  <2>5. SubSeq(Line(a), 1, m) \in Seq(Cells)
    BY <2>2, LineIs, Beginning
  <2>6. /\ content' \in [Files -> Seq(Cells)]
        /\ fd' \in [Fds \cup {1, 2} -> Descriptors \cup {Closed}]
        /\ UNCHANGED fd \/ \E f \in Files, i \in Nat :
              WritesAt(appender[a].fd, f, i, SubSeq(Line(a), 1, m))
    BY <2>1, <2>4, <2>5, Writes DEF WritesSome
  <2>7. \A k \in streams : fd'[k] # Closed
    BY <2>6 DEF WritesAt, TypeOK
  <2>8. shorts' \in Nat
    BY <2>1, Types DEF WritesSome
  <2> QED BY <2>1, <2>3, <2>6, <2>7, <2>8 DEF WritesSome, ghosts, TypeOK
<1>7. ASSUME NEW a \in Appenders, Sync(a)
      PROVE  TypeOK'
  <2>1. appender[a].stage = "sync" /\ appender[a] # Gone
    BY <1>7, AppenderIs DEF Sync, Synced
  <2>2. appender' \in [Appenders -> AppenderStates \cup {Gone}]
    BY <1>7, <2>1, StageSet DEF Sync, Synced
  <2>3. appender[a].line \in DOMAIN lines
    BY <2>1 DEF Progress, InFlight
  <2>4. durable' \subseteq DOMAIN lines'
    BY <1>7, <2>3 DEF Sync, Synced, TypeOK
  <2>5. disk' \in [Files -> Seq(Cells)]
    <3> DEFINE f == fd[appender[a].fd].file
    <3>1. f \in Files
      BY <1>7, <2>1, DescriptorKnown, OpenIs, Descriptor DEF Sync, Synced
    <3>2. disk' = [disk EXCEPT ![f] = content[f]]
      BY <1>7 DEF Sync
    <3> QED BY <3>1, <3>2, Types
  <2> QED BY <1>7, <2>2, <2>4, <2>5 DEF Sync, Synced, counters, TypeOK
<1>12. ASSUME NEW a \in Appenders, SyncFails(a)
      PROVE  TypeOK'
  <2>1. appender[a] # Gone
    BY <1>12, AppenderIs DEF SyncFails
  <2>2. appender' \in [Appenders -> AppenderStates \cup {Gone}]
    BY <1>12, <2>1, StageSet DEF SyncFails
  <2> QED BY <1>12, <2>2 DEF SyncFails, osVars, counters, ghosts, TypeOK
<1>8. ASSUME NEW f \in Files, NEW append \in BOOLEAN, ClientOpen(f, append)
      PROVE  TypeOK'
  <2>1. PICK n \in Fds : Open(n, f, append, ~ append) /\ streams' = streams \cup {n}
    BY <1>8 DEF ClientOpen
  <2>2. Mixes(f, ~ append) /\ appender' \in [Appenders -> AppenderStates \cup {Gone}]
    BY <1>8, Types DEF ClientOpen
  <2>3. (~ append) \in BOOLEAN
    OBVIOUS
  <2> QED BY <2>1, <2>2, <2>3, OpenTypes
<1>9. ASSUME NEW n \in Fds, ClientClose(n)
      PROVE  TypeOK'
  <2>1. /\ fd' \in [Fds \cup {1, 2} -> Descriptors \cup {Closed}]
        /\ \A m \in streams \ {n} : fd'[m] # Closed
    BY <1>9, Closes DEF ClientClose, TypeOK
  <2>2. dropped' \in BOOLEAN
    BY <1>9 DEF ClientClose, TypeOK
  <2> QED BY <1>9, <2>1, <2>2 DEF ClientClose, counters, TypeOK
<1>10. CASE Crash
  <2>1. ASSUME NEW f \in Files PROVE content'[f] \in Seq(Cells)
    <3>1. content'[f] \in Survivors(f)
      BY <1>10 DEF Crash
    <3>2. Len(disk[f]) \in Nat /\ disk[f] \in Seq(Cells) /\ content[f] \in Seq(Cells)
      BY Types
    <3>3. content'[f] = disk[f] \/ \E n \in 0 .. Len(content[f]) :
             content'[f] = SubSeq(content[f], 1, n)
      BY <3>1, <3>2 DEF Survivors
    <3> QED BY <3>2, <3>3, Beginning
  <2>2. DOMAIN content' = Files /\ content' = [f \in Files |-> content'[f]]
    BY <1>10 DEF Crash
  <2>3. content' \in [Files -> Seq(Cells)]
    BY <2>1, <2>2
  <2>4. appender' \in [Appenders -> AppenderStates \cup {Gone}]
    BY <1>10 DEF Crash
  <2>5. crashes' \in Nat /\ before' \in Nat
    BY <1>10, Types DEF Crash
  <2>6. /\ disk' = content' /\ fd' = StdFds /\ streams' = {}
        /\ UNCHANGED <<lines, durable, mixed, dropped, opens, shorts>>
    BY <1>10 DEF Crash
  <2>7. fd' \in [Fds \cup {1, 2} -> Descriptors \cup {Closed}]
    BY <2>6, StdFdsTypes
  <2> QED BY <2>3, <2>4, <2>5, <2>6, <2>7 DEF TypeOK
<1>11. CASE UNCHANGED vars
  BY <1>11 DEF vars, osVars, counters, ghosts, TypeOK
<1> QED
  BY <1>1, <1>2, <1>3, <1>4, <1>5, <1>6, <1>7, <1>8, <1>9, <1>10, <1>11, <1>12 DEF Next

-----------------------------------------------------------------------------
(* Ownership *)

(* Descriptors are open on the files that they were open on. *)
SameFiles ==
    \A m \in Fds \cup {1, 2} :
       /\ fd'[m] = Closed <=> fd[m] = Closed
       /\ fd[m] # Closed => fd'[m].file = fd[m].file /\ fd'[m].append = fd[m].append

SameAppenders ==
    \A b \in Appenders :
       /\ appender'[b].kind = appender[b].kind
       /\ appender'[b].kind # "none" =>
             /\ appender'[b].fd = appender[b].fd
             /\ appender'[b].home = appender[b].home
             /\ appender'[b].line = appender[b].line

LEMMA SameOwners ==
    ASSUME TypeOK, TypeOK', Ownership, SameFiles, SameAppenders,
           UNCHANGED <<streams, dropped>>
    PROVE  Ownership'
<1>1. /\ DOMAIN fd = Fds \cup {1, 2} /\ DOMAIN fd' = Fds \cup {1, 2}
      /\ streams \subseteq Fds
  BY DEF TypeOK
<1>2. StandardFds'
  BY DEF Ownership, StandardFds, SameFiles
<1>3. ASSUME NEW a \in Appenders
      PROVE  FileOwns(a)' /\ CFileBorrows(a)' /\ StdWrites(a)'
  BY DEF Ownership, FileOwns, CFileBorrows, StdWrites, IsOpenOn, SameFiles,
         SameAppenders, Kind
<1>4. OneOwner'
  BY DEF Ownership, OneOwner, SameAppenders, Kind
<1>5. \A n \in DOMAIN fd' : fd'[n] # Closed /\ ~ fd'[n].append => n \in streams'
  BY <1>1 DEF Ownership, SameFiles
<1> QED
  BY <1>2, <1>3, <1>4, <1>5 DEF Ownership

LEMMA WriteSame ==
    ASSUME TypeOK, Ownership, NEW a \in Appenders, NEW m \in 0 .. 2,
           WritesSome(a, m)
    PROVE  SameFiles /\ SameAppenders
<1>1. appender[a] # Gone /\ AfterWrite(a) \in {"idle", "write", "sync"}
  BY DEF WritesSome
<1>2. SameAppenders
  BY <1>1, StageSet DEF SameAppenders, WritesSome
<1>3. appender[a].fd \in Fds \cup {1, 2}
  BY <1>1, DescriptorKnown
<1>4. SubSeq(Line(a), 1, m) \in Seq(Cells)
  BY <1>1, LineIs, Beginning
<1>5. \/ UNCHANGED fd
      \/ \E f \in Files, i \in Nat : WritesAt(appender[a].fd, f, i, SubSeq(Line(a), 1, m))
  BY <1>3, <1>4, Writes DEF WritesSome
<1>6. SameFiles
  BY <1>3, <1>5 DEF SameFiles, WritesAt
<1> QED
  BY <1>2, <1>6

(* A descriptor that is opened is nobody's. *)
LEMMA OpenOwnership ==
    ASSUME TypeOK, TypeOK', Ownership, NEW n \in Fds, NEW f \in Files,
           NEW append \in BOOLEAN, NEW truncate \in BOOLEAN,
           Opened(n, f, append, truncate),
           append \/ n \in streams',
           streams' \in {streams, streams \cup {n}}
    PROVE  /\ StandardFds'
           /\ \A m \in DOMAIN fd' : fd'[m] # Closed /\ ~ fd'[m].append => m \in streams'
           /\ \A b \in Appenders : appender'[b] = appender[b] =>
                 FileOwns(b)' /\ CFileBorrows(b)' /\ StdWrites(b)'
           /\ \A b \in Appenders : Kind(b) = "file" => appender[b].fd # n
<1>1. /\ DOMAIN fd = Fds \cup {1, 2} /\ DOMAIN fd' = Fds \cup {1, 2}
      /\ streams \subseteq Fds /\ n \notin streams
  BY DEF TypeOK, Opened
<1>2. /\ fd[n] = Closed /\ fd'[n].append = append /\ dropped' = dropped
      /\ \A m \in Fds \cup {1, 2} : m # n => fd'[m] = fd[m]
  BY DEF Opened
<1>3. n \notin {1, 2}
  BY FileSinksAssumption
<1>4. StandardFds'
  BY <1>2, <1>3 DEF Ownership, StandardFds
<1>5. \A m \in DOMAIN fd' : fd'[m] # Closed /\ ~ fd'[m].append => m \in streams'
  BY <1>1, <1>2 DEF Ownership
<1>6. \A b \in Appenders : Kind(b) = "file" => appender[b].fd # n
  BY <1>2 DEF Ownership, FileOwns, IsOpenOn
<1>7. ASSUME NEW b \in Appenders, appender'[b] = appender[b]
      PROVE  FileOwns(b)' /\ CFileBorrows(b)' /\ StdWrites(b)'
  <2>1. FileOwns(b)'
    BY <1>2, <1>6, <1>7 DEF Ownership, FileOwns, IsOpenOn, Kind
  <2>2. CFileBorrows(b)'
    BY <1>1, <1>2, <1>7 DEF Ownership, CFileBorrows, IsOpenOn, Kind
  <2>3. StdWrites(b)'
    BY <1>7 DEF Ownership, StdWrites, Kind
  <2> QED BY <2>1, <2>2, <2>3
<1> QED
  BY <1>4, <1>5, <1>6, <1>7

LEMMA InitOwnership == Init => Ownership
<1> SUFFICES ASSUME Init PROVE Ownership
  OBVIOUS
<1>1. \A a \in Appenders : Kind(a) = "none"
  BY DEF Init, Gone, Kind
<1> QED
  BY <1>1, StdFdsTypes DEF Init, Ownership, StandardFds, OneOwner, FileOwns,
     CFileBorrows, StdWrites

LEMMA NextOwnership ==
    ASSUME TypeOK, TypeOK', Ownership, [Next]_vars
    PROVE  Ownership'
<1>0. /\ DOMAIN fd = Fds \cup {1, 2} /\ DOMAIN fd' = Fds \cup {1, 2}
      /\ streams \subseteq Fds /\ 1 \notin Fds /\ 2 \notin Fds
      /\ \A n \in streams : fd[n] # Closed
  BY FileSinksAssumption DEF TypeOK
<1>1. ASSUME NEW a \in Appenders, NEW f \in Files, NEW overwrite \in BOOLEAN,
             ConstructFile(a, f, overwrite)
      PROVE  Ownership'
  <2> DEFINE s(n) == [kind |-> "file", fd |-> n, home |-> f, stage |-> "idle", line |-> 0]
  <2>1. PICK n \in Fds : /\ Open(n, f, TRUE, overwrite)
                         /\ appender' = [appender EXCEPT ![a] = s(n)]
    BY <1>1 DEF ConstructFile
  <2>2. Opened(n, f, TRUE, overwrite) /\ streams' = streams
    BY <1>1, <2>1, Opens, Zenon DEF ConstructFile
  <2>3. s(n) \in AppenderStates \cup {Gone}
    BY FileSinksAssumption DEF AppenderStates
  <2>4. appender'[a] = s(n) /\ \A b \in Appenders \ {a} : appender'[b] = appender[b]
    BY <2>1, <2>3, AppenderSet
  <2>5. s(n).kind = "file" /\ s(n).fd = n /\ s(n).home = f
    OBVIOUS
  <2> HIDE DEF s
  <2>6. /\ StandardFds'
        /\ \A m \in DOMAIN fd' : fd'[m] # Closed /\ ~ fd'[m].append => m \in streams'
        /\ \A b \in Appenders : appender'[b] = appender[b] =>
              FileOwns(b)' /\ CFileBorrows(b)' /\ StdWrites(b)'
        /\ \A b \in Appenders : Kind(b) = "file" => appender[b].fd # n
    BY <2>2, OpenOwnership
  <2>7. fd'[n] # Closed /\ fd'[n].file = f /\ n \notin streams
    BY <1>0, <2>2 DEF Opened
  <2>8. FileOwns(a)' /\ CFileBorrows(a)' /\ StdWrites(a)'
    BY <2>2, <2>4, <2>5, <2>7 DEF FileOwns, CFileBorrows, StdWrites, IsOpenOn, Kind
  <2>9. OneOwner'
    BY <2>4, <2>5, <2>6 DEF OneOwner, Ownership, Kind
  <2> QED BY <2>4, <2>6, <2>8, <2>9 DEF Ownership
<1>2. ASSUME NEW a \in Appenders, ConstructCFile(a)
      PROVE  Ownership'
  <2> DEFINE s(n, f) ==
        [kind |-> "cfile", fd |-> n, home |-> f, stage |-> "idle", line |-> 0]
  <2>0. PICK f \in Files : \E n \in streams \cap OpenOn(f) :
           appender' = [appender EXCEPT ![a] = s(n, f)]
    BY <1>2 DEF ConstructCFile
  <2>1. PICK n \in streams \cap OpenOn(f) : appender' = [appender EXCEPT ![a] = s(n, f)]
    BY <2>0
  <2>2. n \in Fds /\ fd[n] # Closed /\ fd[n].file = f
    BY <1>0 DEF OpenOn
  <2>3. s(n, f) \in AppenderStates \cup {Gone}
    BY <2>2, FileSinksAssumption DEF AppenderStates
  <2>4. appender'[a] = s(n, f) /\ \A b \in Appenders \ {a} : appender'[b] = appender[b]
    BY <2>1, <2>3, AppenderSet
  <2>5. s(n, f).kind = "cfile" /\ s(n, f).fd = n /\ s(n, f).home = f
    OBVIOUS
  <2> HIDE DEF s
  <2>6. fd' = fd /\ streams' = streams /\ dropped' = dropped
    BY <1>2 DEF ConstructCFile, osVars, ghosts
  <2>7. ASSUME NEW b \in Appenders
        PROVE  FileOwns(b)' /\ CFileBorrows(b)' /\ StdWrites(b)'
    BY <2>2, <2>4, <2>5, <2>6
       DEF Ownership, FileOwns, CFileBorrows, StdWrites, IsOpenOn, Kind
  <2>8. OneOwner'
    BY <2>4, <2>5 DEF OneOwner, Ownership, Kind
  <2>9. StandardFds'
    BY <2>6 DEF Ownership, StandardFds
  <2> QED BY <2>6, <2>7, <2>8, <2>9 DEF Ownership
<1>3. ASSUME NEW a \in Appenders, ConstructStd(a)
      PROVE  Ownership'
  <2> DEFINE s == [kind |-> "std", fd |-> 2, home |-> Stderr, stage |-> "idle", line |-> 0]
  <2>1. s \in AppenderStates \cup {Gone}
    BY FileSinksAssumption DEF AppenderStates
  <2>2. appender'[a] = s /\ \A b \in Appenders \ {a} : appender'[b] = appender[b]
    BY <1>3, <2>1, AppenderSet DEF ConstructStd
  <2>3. s.kind = "std" /\ s.fd = 2
    OBVIOUS
  <2> HIDE DEF s
  <2>4. fd' = fd /\ streams' = streams /\ dropped' = dropped
    BY <1>3 DEF ConstructStd, osVars, ghosts
  <2>5. ASSUME NEW b \in Appenders
        PROVE  FileOwns(b)' /\ CFileBorrows(b)' /\ StdWrites(b)'
    BY <2>2, <2>3, <2>4
       DEF Ownership, FileOwns, CFileBorrows, StdWrites, IsOpenOn, Kind
  <2>6. OneOwner'
    BY <2>2, <2>3 DEF OneOwner, Ownership, Kind
  <2>7. StandardFds'
    BY <2>4 DEF Ownership, StandardFds
  <2> QED BY <2>4, <2>5, <2>6, <2>7 DEF Ownership
<1>4. ASSUME NEW a \in Appenders, Destroy(a)
      PROVE  Ownership'
  <2>1. appender'[a] = Gone /\ \A b \in Appenders \ {a} : appender'[b] = appender[b]
    BY <1>4, AppenderSet DEF Destroy
  <2>2. streams' = streams /\ dropped' = dropped /\ Gone.kind = "none"
    BY <1>4 DEF Destroy, ghosts, Gone
  <2>3. OneOwner'
    BY <2>1, <2>2 DEF OneOwner, Ownership, Kind
  <2>4. CASE Kind(a) = "file"
    <3> DEFINE n == appender[a].fd
    <3>1. n \in Fds \ streams
      BY <2>4 DEF Ownership, FileOwns
    <3>2. /\ fd'[n] = Closed
          /\ \A m \in Fds \cup {1, 2} : m # n => fd'[m] = fd[m]
      BY <1>4, <2>4, <3>1, Closes DEF Destroy
    <3>3. \A b \in Appenders \ {a} : Kind(b) = "file" => appender[b].fd # n
      BY <2>4 DEF Ownership, OneOwner
    <3> HIDE DEF n
    <3>4. ASSUME NEW b \in Appenders \ {a}
          PROVE  FileOwns(b)' /\ CFileBorrows(b)' /\ StdWrites(b)'
      BY <1>0, <2>1, <2>2, <3>1, <3>2, <3>3
         DEF Ownership, FileOwns, CFileBorrows, StdWrites, IsOpenOn, Kind
    <3>5. FileOwns(a)' /\ CFileBorrows(a)' /\ StdWrites(a)'
      BY <2>1, <2>2 DEF FileOwns, CFileBorrows, StdWrites, Kind
    <3>6. StandardFds'
      BY <1>0, <3>1, <3>2 DEF Ownership, StandardFds
    <3>7. \A m \in DOMAIN fd' : fd'[m] # Closed /\ ~ fd'[m].append => m \in streams'
      BY <1>0, <2>2, <3>2 DEF Ownership
    <3> QED BY <2>3, <3>4, <3>5, <3>6, <3>7 DEF Ownership
  <2>5. CASE Kind(a) # "file"
    <3>1. fd' = fd
      BY <1>4, <2>5 DEF Destroy
    <3>2. ASSUME NEW b \in Appenders
          PROVE  FileOwns(b)' /\ CFileBorrows(b)' /\ StdWrites(b)'
      BY <2>1, <2>2, <3>1
         DEF Ownership, FileOwns, CFileBorrows, StdWrites, IsOpenOn, Kind
    <3>3. StandardFds'
      BY <3>1 DEF Ownership, StandardFds
    <3> QED BY <2>2, <2>3, <3>1, <3>2, <3>3 DEF Ownership
  <2> QED BY <2>4, <2>5
<1>5. ASSUME NEW a \in Appenders, NEW p \in Priorities, Log(a, p)
      PROVE  Ownership'
  <2>1. /\ appender'[a].kind = appender[a].kind
        /\ appender'[a].home = appender[a].home
        /\ appender'[a].fd = IF Kind(a) = "std" THEN StdFd(p) ELSE appender[a].fd
        /\ \A b \in Appenders \ {a} : appender'[b] = appender[b]
    BY <1>5, Types, AppenderIs DEF Log, AppenderStates
  <2>2. fd' = fd /\ streams' = streams /\ dropped' = dropped
    BY <1>5 DEF Log, osVars
  <2>3. StdFd(p) \in {1, 2}
    BY DEF StdFd
  <2>4. ASSUME NEW b \in Appenders
        PROVE  FileOwns(b)' /\ CFileBorrows(b)' /\ StdWrites(b)'
    BY <2>1, <2>2, <2>3
       DEF Ownership, FileOwns, CFileBorrows, StdWrites, IsOpenOn, Kind
  <2>5. OneOwner'
    BY <2>1 DEF OneOwner, Ownership, Kind
  <2>6. StandardFds'
    BY <2>2 DEF Ownership, StandardFds
  <2> QED BY <2>2, <2>4, <2>5, <2>6 DEF Ownership
<1>6. ASSUME NEW a \in Appenders, Write(a) \/ WriteShort(a)
      PROVE  Ownership'
  <2>1. PICK m \in 0 .. 2 : WritesSome(a, m)
    BY <1>6, WriteIs
  <2>2. streams' = streams /\ dropped' = dropped
    BY <2>1 DEF WritesSome, ghosts
  <2> QED BY <2>1, <2>2, WriteSame, SameOwners
<1>7. ASSUME NEW a \in Appenders, Sync(a)
      PROVE  Ownership'
  <2>1. appender[a] # Gone
    BY <1>7, AppenderIs DEF Sync, Synced
  <2>2. SameAppenders /\ SameFiles
    BY <1>7, <2>1, StageSet DEF Sync, Synced, SameAppenders, SameFiles
  <2> QED BY <1>7, <2>2, SameOwners DEF Sync, Synced
<1>12. ASSUME NEW a \in Appenders, SyncFails(a)
      PROVE  Ownership'
  <2>1. appender[a] # Gone
    BY <1>12, AppenderIs DEF SyncFails
  <2>2. SameAppenders /\ SameFiles
    BY <1>12, <2>1, StageSet DEF SyncFails, osVars, ghosts, SameAppenders, SameFiles
  <2> QED BY <1>12, <2>2, SameOwners DEF SyncFails, osVars, ghosts
<1>8. ASSUME NEW f \in Files, NEW append \in BOOLEAN, ClientOpen(f, append)
      PROVE  Ownership'
  <2>1. PICK n \in Fds : Open(n, f, append, ~ append) /\ streams' = streams \cup {n}
    BY <1>8 DEF ClientOpen
  <2>2. (~ append) \in BOOLEAN /\ appender' = appender
    BY <1>8 DEF ClientOpen
  <2>3. Opened(n, f, append, ~ append)
    BY <2>1, <2>2, Opens, Zenon
  <2>4. /\ StandardFds'
        /\ \A m \in DOMAIN fd' : fd'[m] # Closed /\ ~ fd'[m].append => m \in streams'
        /\ \A b \in Appenders : appender'[b] = appender[b] =>
              FileOwns(b)' /\ CFileBorrows(b)' /\ StdWrites(b)'
    BY <2>1, <2>2, <2>3, OpenOwnership, Zenon
  <2>5. OneOwner'
    BY <2>2 DEF Ownership, OneOwner, Kind
  <2> QED BY <2>2, <2>4, <2>5 DEF Ownership
<1>9. ASSUME NEW n \in Fds, ClientClose(n)
      PROVE  Ownership'
  <2>1. /\ fd'[n] = Closed /\ n \in streams /\ streams' = streams \ {n}
        /\ \A m \in Fds \cup {1, 2} : m # n => fd'[m] = fd[m]
    BY <1>9, Closes DEF ClientClose
  <2>2. /\ dropped' <=> (dropped \/ \E a \in Appenders :
                                       Kind(a) = "cfile" /\ appender[a].fd = n)
        /\ appender' = appender
    BY <1>9 DEF ClientClose
  <2>3. ASSUME NEW b \in Appenders
        PROVE  FileOwns(b)' /\ CFileBorrows(b)' /\ StdWrites(b)'
    BY <1>0, <2>1, <2>2 DEF Ownership, FileOwns, CFileBorrows, StdWrites, IsOpenOn, Kind
  <2>4. OneOwner'
    BY <2>2 DEF Ownership, OneOwner, Kind
  <2>5. StandardFds'
    BY <1>0, <2>1 DEF Ownership, StandardFds
  <2>6. \A m \in DOMAIN fd' : fd'[m] # Closed /\ ~ fd'[m].append => m \in streams'
    BY <1>0, <2>1 DEF Ownership
  <2> QED BY <2>3, <2>4, <2>5, <2>6 DEF Ownership
<1>10. CASE Crash
  <2>1. \A b \in Appenders : appender'[b].kind = "none"
    BY <1>10 DEF Crash, Gone
  <2>2. fd' = StdFds
    BY <1>10 DEF Crash
  <2>3. StandardFds' /\ \A m \in DOMAIN fd' : fd'[m] # Closed => fd'[m].append
    BY <2>2, StdFdsTypes DEF StandardFds
  <2>4. OneOwner' /\ \A b \in Appenders : FileOwns(b)' /\ CFileBorrows(b)' /\ StdWrites(b)'
    BY <2>1 DEF OneOwner, FileOwns, CFileBorrows, StdWrites, Kind
  <2> QED BY <2>3, <2>4 DEF Ownership
<1>11. CASE UNCHANGED vars
  BY <1>11 DEF vars, osVars, ghosts, Ownership, StandardFds, OneOwner, FileOwns,
     CFileBorrows, StdWrites, IsOpenOn, Kind
<1> QED
  BY <1>1, <1>2, <1>3, <1>4, <1>5, <1>6, <1>7, <1>8, <1>9, <1>10, <1>11, <1>12 DEF Next

-----------------------------------------------------------------------------
(* Progress *)

(* b goes on as before: its descriptor is still open on its file, and no   *)
(* file has got the line that it has not written yet.                      *)
Undisturbed(b) ==
    /\ appender'[b] = appender[b]
    /\ appender[b].stage # "idle" =>
          /\ ~ dropped' => ~ dropped
          /\ ~ dropped' /\ fd[appender[b].fd] # Closed =>
                /\ fd'[appender[b].fd] # Closed
                /\ fd'[appender[b].fd].file = fd[appender[b].fd].file
    /\ appender[b].stage = "write" =>
          \A f \in Files : LET l == appender[b].line
                           IN  /\ Lacks(content[f], l) => Lacks(content'[f], l)
                               /\ Lacks(content[f], l) /\ Lacks(disk[f], l) =>
                                     Lacks(disk'[f], l)

LEMMA ProgressKept ==
    ASSUME Progress, lines' = lines,
           \A b \in Appenders : appender'[b].stage = "idle" \/ Undisturbed(b)
    PROVE  Progress'
<1>1. ASSUME NEW b \in Appenders
      PROVE  InFlight(b)' /\ Unwritten(b)'
  <2>1. CASE appender'[b].stage = "idle"
    BY <2>1 DEF InFlight, Unwritten
  <2>2. CASE Undisturbed(b)
    BY <2>2 DEF Undisturbed, Progress, InFlight, Unwritten, IsOpenOn
  <2> QED BY <2>1, <2>2
<1>2. OneWriter'
  BY DEF OneWriter, Progress, Undisturbed
<1> QED
  BY <1>1, <1>2 DEF Progress

LEMMA LacksEmpty == \A l : Lacks(<<>>, l)
  BY DEF Lacks

(* Opening a file disturbs nobody: the descriptor was closed. *)
LEMMA OpenUndisturbed ==
    ASSUME TypeOK, Ownership, Progress, NEW n \in Fds, NEW f \in Files,
           NEW append \in BOOLEAN, NEW truncate \in BOOLEAN,
           Opened(n, f, append, truncate),
           NEW b \in Appenders, appender'[b] = appender[b]
    PROVE  Undisturbed(b)
<1>1. \A l, g : g \in Files /\ Lacks(content[g], l) => Lacks(content'[g], l)
  BY LacksEmpty DEF Opened
<1>2. /\ disk' = disk /\ dropped' = dropped
      /\ fd[n] = Closed /\ \A m \in Fds \cup {1, 2} : m # n => fd'[m] = fd[m]
  BY DEF Opened
<1>3. appender[b].stage # "idle" => appender[b].fd \in Fds \cup {1, 2}
  BY AppenderIs, DescriptorKnown
<1> QED
  BY <1>1, <1>2, <1>3 DEF Undisturbed

LEMMA NextProgress ==
    ASSUME TypeOK, TypeOK', Ownership, Progress, Contents, [Next]_vars
    PROVE  Progress'
<1>0. \A b \in Appenders : appender[b].stage # "idle" =>
         /\ appender[b].fd \in Fds \cup {1, 2}
         /\ Kind(b) \in {"file", "cfile", "std"}
  BY AppenderIs, DescriptorKnown
<1>1. ASSUME NEW a \in Appenders, NEW f \in Files, NEW overwrite \in BOOLEAN,
             ConstructFile(a, f, overwrite)
      PROVE  Progress'
  <2> DEFINE s(n) == [kind |-> "file", fd |-> n, home |-> f, stage |-> "idle", line |-> 0]
  <2>1. PICK n \in Fds : /\ Open(n, f, TRUE, overwrite)
                         /\ appender' = [appender EXCEPT ![a] = s(n)]
    BY <1>1 DEF ConstructFile
  <2>2. Opened(n, f, TRUE, overwrite)
    BY <2>1, Opens, Zenon
  <2>3. s(n) \in AppenderStates \cup {Gone} /\ s(n).stage = "idle"
    BY FileSinksAssumption DEF AppenderStates
  <2> HIDE DEF s
  <2>4. appender'[a].stage = "idle" /\ \A b \in Appenders \ {a} : appender'[b] = appender[b]
    BY <2>1, <2>3, AppenderSet
  <2>5. \A b \in Appenders \ {a} : Undisturbed(b)
    BY <2>2, <2>4, OpenUndisturbed
  <2>6. lines' = lines
    BY <2>2 DEF Opened
  <2> QED BY <2>4, <2>5, <2>6, ProgressKept
<1>2. ASSUME NEW a \in Appenders, ConstructCFile(a) \/ ConstructStd(a)
      PROVE  Progress'
  <2>1. \E s \in AppenderStates : s.stage = "idle" /\ appender' = [appender EXCEPT ![a] = s]
    <3>1. CASE ConstructStd(a)
      <4>1. [kind |-> "std", fd |-> 2, home |-> Stderr, stage |-> "idle", line |-> 0]
               \in AppenderStates
        BY FileSinksAssumption DEF AppenderStates
      <4> QED BY <3>1, <4>1 DEF ConstructStd
    <3>2. CASE ConstructCFile(a)
      <4>1. \A f \in Files, n \in streams :
               [kind |-> "cfile", fd |-> n, home |-> f, stage |-> "idle", line |-> 0]
                  \in AppenderStates
        BY FileSinksAssumption DEF AppenderStates, TypeOK
      <4> QED BY <3>2, <4>1 DEF ConstructCFile
    <3> QED BY <1>2, <3>1, <3>2
  <2>2. appender'[a].stage = "idle" /\ \A b \in Appenders \ {a} : appender'[b] = appender[b]
    BY <2>1, Types
  <2>3. UNCHANGED <<content, disk, fd, lines, dropped>>
    BY <1>2 DEF ConstructCFile, ConstructStd, osVars, ghosts
  <2>4. \A b \in Appenders \ {a} : Undisturbed(b)
    BY <2>2, <2>3 DEF Undisturbed
  <2> QED BY <2>2, <2>3, <2>4, ProgressKept
<1>3. ASSUME NEW a \in Appenders, Destroy(a)
      PROVE  Progress'
  <2>1. /\ appender'[a].stage = "idle"
        /\ \A b \in Appenders \ {a} : appender'[b] = appender[b]
    BY <1>3, AppenderSet DEF Destroy, Gone
  <2>2. UNCHANGED <<content, disk, lines, dropped, streams>>
    BY <1>3 DEF Destroy, ghosts
  <2>3. ASSUME NEW b \in Appenders \ {a}, appender[b].stage # "idle", ~ dropped
        PROVE  fd'[appender[b].fd] = fd[appender[b].fd]
    <3>1. CASE Kind(a) = "file"
      <4>1. appender[a].fd \in Fds \ streams
        BY <3>1 DEF Ownership, FileOwns
      <4>2. appender[b].fd # appender[a].fd
        BY <1>0, <2>3, <3>1, <4>1, FileSinksAssumption
           DEF Ownership, OneOwner, CFileBorrows, StdWrites
      <4> QED BY <1>0, <1>3, <2>3, <3>1, <4>1, <4>2, Closes DEF Destroy
    <3>2. CASE Kind(a) # "file"
      BY <1>3, <3>2 DEF Destroy
    <3> QED BY <3>1, <3>2
  <2>4. \A b \in Appenders \ {a} : Undisturbed(b)
    BY <2>1, <2>2, <2>3 DEF Undisturbed
  <2> QED BY <2>1, <2>2, <2>4, ProgressKept
<1>4. ASSUME NEW a \in Appenders, NEW p \in Priorities, Log(a, p)
      PROVE  Progress'
  <2> DEFINE n == IF Kind(a) = "std" THEN StdFd(p) ELSE appender[a].fd
             home == IF Kind(a) = "std" THEN fd[n].file ELSE appender[a].home
             l == Len(lines) + 1
  <2>1. /\ appender'[a].stage = "write" /\ appender'[a].line = l /\ appender'[a].fd = n
        /\ \A b \in Appenders \ {a} : appender'[b] = appender[b]
    BY <1>4, Types, AppenderIs DEF Log, AppenderStates
  <2>2. /\ lines' = Append(lines, [home |-> home, by |-> a])
        /\ UNCHANGED <<content, disk, fd, dropped>>
    BY <1>4 DEF Log, osVars
  <2>3. ~ dropped => IsOpenOn(n, home)
    <3>1. CASE Kind(a) = "std"
      BY <3>1 DEF StdFd, Ownership, StandardFds, IsOpenOn
    <3>2. CASE Kind(a) # "std"
      <4>1. Kind(a) \in {"file", "cfile"}
        BY <1>4, <3>2, AppenderIs DEF Log
      <4> QED BY <3>2, <4>1 DEF Ownership, FileOwns, CFileBorrows
    <3> QED BY <3>1, <3>2
  <2>10. home \in Files
    BY <1>4, AppenderIs, FileSinksAssumption
       DEF Log, AppenderStates, StdFd, Ownership, StandardFds
  <2> HIDE DEF n, home
  <2>4. /\ DOMAIN lines' = 1 .. l /\ lines'[l] = [home |-> home, by |-> a]
        /\ \A k \in DOMAIN lines : k \in DOMAIN lines' /\ lines'[k] = lines[k] /\ k # l
        /\ l \in 1 .. l
    <3>1. [home |-> home, by |-> a] \in [home : Files, by : Appenders]
      BY <2>10
    <3>2. lines \in Seq([home : Files, by : Appenders]) /\ Len(lines) \in Nat
      BY Types
    <3> HIDE DEF l
    <3> QED BY <2>2, <3>1, <3>2, AppendProperties DEF l
  <2>5. \A f \in Files : Lacks(content[f], l) /\ Lacks(disk[f], l)
    <3>1. l \notin DOMAIN lines /\ l # 0
      BY Types
    <3> QED BY <3>1 DEF Lacks, Contents, Sane, Known, Hole
  <2>6. InFlight(a)' /\ Unwritten(a)'
    BY <2>1, <2>2, <2>3, <2>4, <2>5 DEF InFlight, Unwritten, IsOpenOn
  <2>7. ASSUME NEW b \in Appenders \ {a}
        PROVE  InFlight(b)' /\ Unwritten(b)'
    BY <2>1, <2>2, <2>4 DEF Progress, InFlight, Unwritten, IsOpenOn
  <2>8. \A b \in Appenders \ {a} : appender[b].stage = "write" => appender[b].line # l
    BY <2>4 DEF Progress, InFlight
  <2>9. OneWriter'
    BY <2>1, <2>8 DEF Progress, OneWriter
  <2> QED BY <2>6, <2>7, <2>9 DEF Progress
<1>5. ASSUME NEW a \in Appenders, Write(a) \/ WriteShort(a)
      PROVE  Progress'
  <2>1. PICK m \in 0 .. 2 : WritesSome(a, m)
    BY <1>5, WriteIs
  <2>2. SameFiles /\ SameAppenders /\ UNCHANGED <<disk, lines, dropped>>
    BY <2>1, WriteSame DEF WritesSome, ghosts
  <2>3. /\ appender[a] # Gone /\ AfterWrite(a) \in {"idle", "sync"}
        /\ appender[a].stage = "write" /\ appender[a].line \in Nat
    BY <2>1, AppenderIs DEF WritesSome, AppenderStates
  <2>4. /\ appender'[a].stage # "write"
        /\ \A b \in Appenders \ {a} : appender'[b] = appender[b]
    BY <2>1, <2>3, StageSet DEF WritesSome
  <2>5. ASSUME NEW b \in Appenders \ {a}, appender[b].stage = "write", NEW f \in Files
        PROVE  Lacks(content'[f], appender[b].line)
    <3> DEFINE l == appender[b].line
               c == SubSeq(Line(a), 1, m)
    <3>1. l # appender[a].line /\ Lacks(content[f], l)
      BY <2>3, <2>5 DEF Progress, OneWriter, Unwritten
    <3>2. l \in DOMAIN lines /\ l # 0
      BY <2>5, Types DEF Progress, InFlight
    <3>3. /\ c \in Seq(Cells) /\ Len(c) = m
          /\ \A k \in 1 .. Len(c) : c[k][1] = appender[a].line
      BY <2>3, LineIs, Beginning
    <3>4. appender[a].fd \in Fds \cup {1, 2} /\ WriteTo(appender[a].fd, c)
      BY <2>1, <2>3, DescriptorKnown DEF WritesSome
    <3> HIDE DEF l, c
    <3>5. CASE content'[f] = content[f]
      BY <3>1, <3>5 DEF l
    <3>6. CASE content'[f] # content[f]
      <4>0. PICK g \in Files, i \in Nat : WritesAt(appender[a].fd, g, i, c)
        BY <3>3, <3>4, <3>6, Writes
      <4>1. WritesAt(appender[a].fd, f, i, c)
        BY <3>6, <4>0 DEF WritesAt
      <4>2. content'[f] = Overwritten(content[f], i, c) /\ content[f] \in Seq(Cells)
        BY <4>1, Types DEF WritesAt
      <4>3. ASSUME NEW k \in DOMAIN content'[f]
            PROVE  content'[f][k][1] # l
        <5> DEFINE s == content[f]
                   o == Overwritten(s, i, c)
        <5>0. /\ s \in Seq(Cells) /\ c \in Seq(Cells) /\ k \in DOMAIN o
              /\ content'[f] = o /\ Lacks(s, l)
          BY <3>1, <3>3, <4>2 DEF l
        <5> HIDE DEF s
        <5>1. o[k] = IF k \in i + 1 .. i + Len(c) THEN c[k - i]
                     ELSE IF k <= Len(s) THEN s[k] ELSE Hole
          BY <5>0, OverwrittenIs
        <5>2. k \in Nat /\ k >= 1 /\ Len(c) \in Nat /\ Len(s) \in Nat
          BY <5>0, OverwrittenIs, OfCells
        <5> HIDE DEF o
        <5>3. CASE k \in i + 1 .. i + Len(c)
          <6>1. k - i \in 1 .. Len(c)
            BY <5>2, <5>3
          <6>2. o[k] = c[k - i] /\ c[k - i][1] = appender[a].line
            BY <3>3, <5>1, <5>3, <6>1
          <6> QED BY <3>1, <5>0, <6>2 DEF l
        <5>4. CASE k \notin i + 1 .. i + Len(c) /\ k <= Len(s)
          <6>1. k \in DOMAIN s
            BY <5>0, <5>2, <5>4
          <6> QED BY <5>0, <5>1, <5>4, <6>1 DEF Lacks
        <5>5. CASE k \notin i + 1 .. i + Len(c) /\ ~ (k <= Len(s))
          BY <3>2, <5>0, <5>1, <5>5 DEF Hole
        <5> QED BY <5>3, <5>4, <5>5
      <4> QED BY <4>3 DEF Lacks, l
    <3> QED BY <3>5, <3>6
  <2>6. ASSUME NEW b \in Appenders \ {a}
        PROVE  Undisturbed(b)
    BY <1>0, <2>2, <2>4, <2>5 DEF Undisturbed, SameFiles
  <2>7. InFlight(a)' /\ Unwritten(a)'
    <3>1. /\ appender'[a].fd = appender[a].fd /\ appender'[a].line = appender[a].line
      BY <2>2, <2>3, AppenderIs DEF SameAppenders, Kind
    <3>2. Unwritten(a)'
      BY <2>4 DEF Unwritten
    <3>3. InFlight(a)'
      BY <1>0, <2>2, <2>3, <3>1 DEF Progress, InFlight, IsOpenOn, SameFiles
    <3> QED BY <3>2, <3>3
  <2>8. ASSUME NEW b \in Appenders \ {a}
        PROVE  InFlight(b)' /\ Unwritten(b)'
    BY <2>2, <2>6 DEF Undisturbed, Progress, InFlight, Unwritten, IsOpenOn
  <2>9. OneWriter'
    BY <2>4 DEF Progress, OneWriter
  <2> QED BY <2>7, <2>8, <2>9 DEF Progress
<1>6. ASSUME NEW a \in Appenders, Sync(a)
      PROVE  Progress'
  <2>1. appender[a].stage = "sync" /\ appender[a] # Gone
    BY <1>6, AppenderIs DEF Sync, Synced
  <2>2. /\ appender'[a].stage = "idle"
        /\ \A b \in Appenders \ {a} : appender'[b] = appender[b]
    BY <1>6, <2>1, StageSet DEF Sync, Synced
  <2>3. UNCHANGED <<content, fd, lines, dropped>>
    BY <1>6 DEF Sync, Synced
  <2>4. \A f \in Files : disk'[f] \in {disk[f], content[f]}
    BY <1>6, Types DEF Sync
  <2>5. \A b \in Appenders \ {a} : Undisturbed(b)
    BY <2>2, <2>3, <2>4 DEF Undisturbed
  <2> QED BY <2>2, <2>3, <2>5, ProgressKept
<1>11. ASSUME NEW a \in Appenders, SyncFails(a)
      PROVE  Progress'
  <2>1. appender[a] # Gone
    BY <1>11, AppenderIs DEF SyncFails
  <2>2. /\ appender'[a].stage = "idle"
        /\ \A b \in Appenders \ {a} : appender'[b] = appender[b]
    BY <1>11, <2>1, StageSet DEF SyncFails
  <2>3. UNCHANGED <<content, disk, fd, lines, dropped>>
    BY <1>11 DEF SyncFails, osVars, ghosts
  <2>4. \A b \in Appenders \ {a} : Undisturbed(b)
    BY <2>2, <2>3 DEF Undisturbed
  <2> QED BY <2>2, <2>3, <2>4, ProgressKept
<1>7. ASSUME NEW f \in Files, NEW append \in BOOLEAN, ClientOpen(f, append)
      PROVE  Progress'
  <2>1. PICK n \in Fds : Open(n, f, append, ~ append)
    BY <1>7 DEF ClientOpen
  <2>2. (~ append) \in BOOLEAN /\ appender' = appender
    BY <1>7 DEF ClientOpen
  <2>3. Opened(n, f, append, ~ append)
    BY <2>1, <2>2, Opens, Zenon
  <2>4. \A b \in Appenders : Undisturbed(b)
    BY <2>2, <2>3, OpenUndisturbed, Zenon
  <2>5. lines' = lines
    BY <2>3 DEF Opened
  <2> QED BY <2>4, <2>5, ProgressKept
<1>8. ASSUME NEW n \in Fds, ClientClose(n)
      PROVE  Progress'
  <2>1. /\ n \in streams /\ n \in Fds /\ n \notin {1, 2}
        /\ \A m \in Fds \cup {1, 2} : m # n => fd'[m] = fd[m]
    BY <1>8, Closes, FileSinksAssumption DEF ClientClose
  <2>2. /\ dropped' <=> (dropped \/ \E a \in Appenders :
                                       Kind(a) = "cfile" /\ appender[a].fd = n)
        /\ UNCHANGED <<appender, content, disk, lines>>
    BY <1>8 DEF ClientClose
  <2>3. ASSUME NEW b \in Appenders, appender[b].stage # "idle", ~ dropped'
        PROVE  fd'[appender[b].fd] = fd[appender[b].fd] /\ ~ dropped
    BY <1>0, <2>1, <2>2, <2>3 DEF Ownership, FileOwns, StdWrites
  <2>4. \A b \in Appenders : Undisturbed(b)
    BY <2>2, <2>3 DEF Undisturbed
  <2> QED BY <2>2, <2>4, ProgressKept
<1>9. CASE Crash
  <2>1. lines' = lines /\ \A b \in Appenders : appender'[b].stage = "idle"
    BY <1>9 DEF Crash, Gone
  <2> QED BY <2>1, ProgressKept
<1>10. CASE UNCHANGED vars
  <2>1. lines' = lines /\ \A b \in Appenders : Undisturbed(b)
    BY <1>10 DEF vars, osVars, ghosts, Undisturbed
  <2> QED BY <2>1, ProgressKept
<1> QED
  BY <1>1, <1>2, <1>3, <1>4, <1>5, <1>6, <1>7, <1>8, <1>9, <1>10, <1>11 DEF Next

-----------------------------------------------------------------------------
(* Contents *)

LEMMA SameTorn ==
    ASSUME NEW f, content'[f] = content[f], before' = before
    PROVE  Torn(f)' = Torn(f)
  BY DEF Torn

LEMMA LongerHolds ==
    ASSUME NEW s \in Seq(Cells), NEW t \in Seq(Cells), NEW l, Holds(s, l),
           Len(s) <= Len(t), \A i \in 1 .. Len(s) : t[i] = s[i]
    PROVE  Holds(t, l)
<1>1. \A i \in DOMAIN s : i \in DOMAIN t /\ t[i] = s[i]
  BY OfCells
<1>2. Range(s) \subseteq Range(t)
  BY <1>1 DEF Range
<1> QED
  BY <1>2 DEF Holds

LEMMA PrefixHolds ==
    ASSUME NEW s \in Seq(Cells), NEW t \in Seq(Cells), NEW l, Holds(s, l), IsPrefix(s, t)
    PROVE  Holds(t, l)
  BY PrefixIs, LongerHolds

LEMMA PrefixOfItself == \A s \in Seq(Cells) : IsPrefix(s, s)
  BY PrefixIs, OfCells

(* Nothing in the files changes. *)
LEMMA ContentsKept ==
    ASSUME TypeOK, Contents, AllOnDisk, \A f \in Files : AtEnd(f)',
           UNCHANGED <<content, disk, lines, durable, mixed, before>>,
           shorts' \in {shorts, shorts + 1}, ~ dropped' => ~ dropped
    PROVE  Contents' /\ AllOnDisk'
<1>1. ASSUME NEW f \in Files
      PROVE  Sane(content[f], f)' /\ Sane(disk[f], f)' /\ FewTorn(f)'
  <2>1. Sane(content[f], f) /\ Sane(disk[f], f) /\ FewTorn(f)
    BY DEF Contents
  <2>2. Sane(content[f], f)' /\ Sane(disk[f], f)'
    BY <2>1 DEF Sane, Known, AtHome, Whole, IsInjective
  <2>3. FewTorn(f)'
    <3>1. Torn(f)' = Torn(f)
      BY SameTorn
    <3>2. shorts \in Nat /\ Cardinality(Torn(f)) \in Nat
      BY Types, TornFinite
    <3> QED BY <2>1, <3>1, <3>2 DEF FewTorn
  <2> QED BY <2>2, <2>3
<1>2. AllOnDisk'
  BY DEF AllOnDisk, OnDisk, Holds
<1> QED
  BY <1>1, <1>2 DEF Contents

LEMMA AtEndKept ==
    ASSUME TypeOK, TypeOK', NEW f \in Files, AtEnd(f),
           UNCHANGED <<content, mixed>>,
           \A m \in Fds \cup {1, 2} : fd'[m] \in {fd[m], Closed}
    PROVE  AtEnd(f)'
<1>1. OpenOn(f)' \subseteq OpenOn(f) /\ \A n \in OpenOn(f)' : fd'[n] = fd[n]
  BY DEF OpenOn, TypeOK
<1> QED
  BY <1>1 DEF AtEnd

LEMMA InitContents == Init => Contents /\ AllOnDisk
<1> SUFFICES ASSUME Init PROVE Contents /\ AllOnDisk
  OBVIOUS
<1>1. AllOnDisk
  BY DEF Init, AllOnDisk
<1>2. ASSUME NEW f \in Files
      PROVE  Sane(content[f], f) /\ Sane(disk[f], f) /\ AtEnd(f) /\ FewTorn(f)
  <2>1. content[f] = <<>> /\ disk[f] = <<>>
    BY DEF Init
  <2>2. Sane(content[f], f) /\ Sane(disk[f], f)
    BY <2>1, SaneEmpty
  <2>3. AtEnd(f)
    BY StdFdsTypes DEF Init, AtEnd, OpenOn
  <2>4. Torn(f) = {} /\ shorts = 0
    BY <2>1 DEF Torn, Init
  <2>5. FewTorn(f)
    BY <2>4, FS_EmptySet DEF FewTorn
  <2> QED BY <2>2, <2>3, <2>5
<1> QED
  BY <1>1, <1>2 DEF Contents

LEMMA OpenContents ==
    ASSUME TypeOK, TypeOK', Ownership, Contents, AllOnDisk,
           NEW n \in Fds, NEW f \in Files, NEW append \in BOOLEAN,
           NEW truncate \in BOOLEAN, NEW positioned \in BOOLEAN,
           Opened(n, f, append, truncate), Mixes(f, positioned),
           append \/ (positioned /\ truncate)
    PROVE  Contents' /\ AllOnDisk'
<1>1. /\ mixed \subseteq mixed'
      /\ f \notin mixed' =>
            \/ OpenOn(f) = {}
            \/ ~ positioned /\ \A m \in OpenOn(f) \cap streams : fd[m].append
  BY DEF Mixes
<1>2. /\ DOMAIN fd = Fds \cup {1, 2} /\ DOMAIN fd' = Fds \cup {1, 2} /\ shorts \in Nat
  BY Types DEF TypeOK
<1>3. /\ fd[n] = Closed /\ fd'[n] # Closed /\ fd'[n].file = f
      /\ fd'[n].append = append /\ fd'[n].at = 0
      /\ \A m \in Fds \cup {1, 2} : m # n => fd'[m] = fd[m]
      /\ content'[f] = IF truncate THEN <<>> ELSE content[f]
      /\ \A g \in Files : g # f => content'[g] = content[g]
      /\ UNCHANGED <<disk, lines, dropped, shorts, before>>
  BY DEF Opened
<1>4. ASSUME NEW g \in Files
      PROVE  Sane(content[g], g)' /\ Sane(disk[g], g)'
  <2>1. Sane(content'[g], g) /\ Sane(disk[g], g)
    BY <1>3, SaneEmpty DEF Contents
  <2> QED BY <1>1, <1>3, <2>1 DEF Sane, Known, AtHome, Whole, IsInjective
<1>5. ASSUME NEW g \in Files, g \notin mixed'
      PROVE  AtEnd(g)'
  <2>1. g \notin mixed /\ AtEnd(g)
    BY <1>1, <1>5 DEF Contents
  <2>2. CASE g # f
    <3>1. OpenOn(g)' = OpenOn(g) /\ \A m \in OpenOn(g) : fd'[m] = fd[m]
      BY <1>2, <1>3, <2>2 DEF OpenOn
    <3> QED BY <1>3, <2>1, <2>2, <3>1 DEF AtEnd
  <2>3. CASE g = f /\ OpenOn(f) = {}
    <3>1. OpenOn(f)' = {n}
      BY <1>2, <1>3, <2>3 DEF OpenOn
    <3>2. append \/ (fd'[n].at = 0 /\ content'[f] = <<>>)
      BY <1>3
    <3> QED BY <1>3, <2>3, <3>1, <3>2 DEF AtEnd
  <2>4. CASE g = f /\ OpenOn(f) # {}
    <3>1. ~ positioned /\ \A m \in OpenOn(f) \cap streams : fd[m].append
      BY <1>1, <1>5, <2>4
    <3>2. \A m \in OpenOn(f) : fd[m].append
      BY <3>1 DEF Ownership, OpenOn
    <3>3. \A m \in OpenOn(f)' : fd'[m].append
      BY <1>2, <1>3, <3>1, <3>2 DEF OpenOn
    <3> QED BY <2>4, <3>3 DEF AtEnd
  <2> QED BY <2>2, <2>3, <2>4
<1>6. ASSUME NEW g \in Files
      PROVE  FewTorn(g)'
  <2>1. FewTorn(g)
    BY DEF Contents
  <2>2. CASE g = f /\ truncate
    <3>1. content'[f] = <<>>
      BY <1>3, <2>2
    <3>2. Torn(f)' = {}
      BY <3>1 DEF Torn
    <3> QED BY <1>2, <1>3, <2>2, <3>2, FS_EmptySet DEF FewTorn
  <2>3. CASE ~ (g = f /\ truncate)
    <3>1. content'[g] = content[g]
      BY <1>3, <2>3
    <3> QED BY <1>1, <1>3, <2>1, <3>1, SameTorn DEF FewTorn
  <2> QED BY <2>2, <2>3
<1>7. ASSUME NEW l \in durable'
      PROVE  OnDisk(l)'
  <2>1. l \in durable /\ content'[lines[l].home] = content[lines[l].home]
    <3>1. l \in durable /\ (truncate => lines[l].home # f)
      <4>1. durable' = IF truncate THEN {k \in durable : lines[k].home # f} ELSE durable
        BY DEF Opened
      <4> QED BY <1>7, <4>1
    <3>2. lines[l].home \in Files
      BY <3>1, HomeIs DEF TypeOK
    <3> QED BY <1>3, <3>1, <3>2
  <2> QED BY <1>1, <1>3, <2>1 DEF AllOnDisk, OnDisk, Holds
<1> QED
  BY <1>4, <1>5, <1>6, <1>7 DEF Contents, AllOnDisk, AtEnd

(* c has been written at the end of s. *)
Longer(o, s, c) ==
    /\ o \in Seq(Cells) /\ Len(o) = Len(s) + Len(c)
    /\ \A k \in DOMAIN s : k \in DOMAIN o /\ o[k] = s[k]
    /\ \A j \in 1 .. Len(c) : o[Len(s) + j] = c[j]
    /\ \A k \in DOMAIN o : k \in DOMAIN s \/ k - Len(s) \in 1 .. Len(c)

LEMMA AppendedIs ==
    ASSUME NEW s \in Seq(Cells), NEW c \in Seq(Cells)
    PROVE  Longer(Overwritten(s, Len(s), c), s, c)
<1> DEFINE o == Overwritten(s, Len(s), c)
<1>1. Len(s) \in Nat /\ Len(c) \in Nat /\ DOMAIN s = 1 .. Len(s)
  BY OfCells
<1>2. (IF Len(s) >= Len(s) + Len(c) THEN Len(s) ELSE Len(s) + Len(c)) = Len(s) + Len(c)
  BY <1>1
<1>3. /\ o \in Seq(Cells) /\ Len(o) = Len(s) + Len(c)
      /\ DOMAIN o = 1 .. Len(s) + Len(c)
      /\ \A k \in DOMAIN o :
            o[k] = IF k \in Len(s) + 1 .. Len(s) + Len(c) THEN c[k - Len(s)]
                   ELSE IF k <= Len(s) THEN s[k] ELSE Hole
  BY <1>1, <1>2, OverwrittenIs
<1> HIDE DEF o
<1>4. \A k \in DOMAIN s : k \in DOMAIN o /\ o[k] = s[k]
  BY <1>1, <1>3
<1>5. ASSUME NEW j \in 1 .. Len(c) PROVE o[Len(s) + j] = c[j]
  <2>1. /\ Len(s) + j \in DOMAIN o /\ Len(s) + j \in Len(s) + 1 .. Len(s) + Len(c)
        /\ (Len(s) + j) - Len(s) = j
    BY <1>1, <1>3
  <2> QED BY <1>3, <2>1
<1>6. \A k \in DOMAIN o : k \in DOMAIN s \/ k - Len(s) \in 1 .. Len(c)
  BY <1>1, <1>3
<1> QED
  BY <1>3, <1>4, <1>5, <1>6 DEF Longer, o

(* A line, or its first cell *)
IsLine(c, l) ==
    /\ c \in Seq(Cells) /\ Len(c) \in {1, 2}
    /\ \A j \in 1 .. Len(c) : c[j] = <<l, j>>

(* The cells of s and after them those of a line *)
LEMMA LongerCells ==
    ASSUME NEW s \in Seq(Cells), NEW c, NEW o, NEW l \in Nat \ {0},
           IsLine(c, l), Longer(o, s, c)
    PROVE  /\ Len(s) \in Nat
           /\ DOMAIN s = 1 .. Len(s)
           /\ DOMAIN o = 1 .. Len(s) + Len(c)
           /\ \A k \in 1 .. Len(s) : o[k] = s[k]
           /\ o[Len(s) + 1] = <<l, 1>>
           /\ Len(c) = 2 => o[Len(s) + 2] = <<l, 2>>
           /\ \A k \in DOMAIN o : k \in 1 .. Len(s) \/ k = Len(s) + 1
                                  \/ (Len(c) = 2 /\ k = Len(s) + 2)
<1>1. Len(s) \in Nat /\ DOMAIN s = 1 .. Len(s)
  BY OfCells
<1>2. DOMAIN o = 1 .. Len(s) + Len(c)
  BY OfCells DEF Longer
<1>3. o[Len(s) + 1] = <<l, 1>> /\ (Len(c) = 2 => o[Len(s) + 2] = <<l, 2>>)
  <2>1. 1 \in 1 .. Len(c) /\ (Len(c) = 2 => 2 \in 1 .. Len(c))
    BY DEF IsLine
  <2> QED BY <2>1 DEF Longer, IsLine
<1>4. \A k \in 1 .. Len(s) : o[k] = s[k]
  BY <1>1 DEF Longer
<1>5. Len(c) \in {1, 2}
  BY DEF IsLine
<1>6. ASSUME NEW k \in DOMAIN o
      PROVE  k \in 1 .. Len(s) \/ k = Len(s) + 1 \/ (Len(c) = 2 /\ k = Len(s) + 2)
  <2> DEFINE n == Len(s)
             m == Len(c)
  <2>1. n \in Nat /\ m \in {1, 2} /\ k \in 1 .. n + m
    BY <1>1, <1>2, <1>5
  <2> HIDE DEF n, m
  <2>2. k \in 1 .. n \/ k = n + 1 \/ (m = 2 /\ k = n + 2)
    BY <2>1
  <2> QED BY <2>2 DEF n, m
<1> QED
  BY <1>1, <1>2, <1>3, <1>4, <1>6

LEMMA WholeLonger ==
    ASSUME NEW s \in Seq(Cells), NEW c, NEW o, NEW l \in Nat \ {0},
           IsLine(c, l), Longer(o, s, c), Whole(s), Lacks(s, l)
    PROVE  Whole(o)
<1> DEFINE n == Len(s)
<1>1. /\ n \in Nat /\ DOMAIN s = 1 .. n /\ DOMAIN o = 1 .. n + Len(c)
      /\ \A k \in 1 .. n : o[k] = s[k]
      /\ o[n + 1] = <<l, 1>> /\ (Len(c) = 2 => o[n + 2] = <<l, 2>>)
      /\ \A k \in DOMAIN o : k \in 1 .. n \/ k = n + 1 \/ (Len(c) = 2 /\ k = n + 2)
  BY LongerCells
<1> HIDE DEF n
<1>2. ASSUME NEW k \in DOMAIN o
      PROVE  o[k] # Hole /\ (o[k][2] = 2 => k > 1 /\ o[k - 1] = <<o[k][1], 1>>)
  <2>1. CASE k \in 1 .. n
    <3>1. o[k] = s[k] /\ (k > 1 => k - 1 \in 1 .. n /\ o[k - 1] = s[k - 1])
      BY <1>1, <2>1
    <3>2. s[k] # Hole /\ (s[k][2] = 2 => k > 1 /\ s[k - 1] = <<s[k][1], 1>>)
      BY <1>1, <2>1 DEF Whole
    <3> QED BY <3>1, <3>2
  <2>2. CASE k = n + 1
    BY <1>1, <2>2 DEF Hole
  <2>3. CASE Len(c) = 2 /\ k = n + 2
    <3>1. k > 1 /\ k - 1 = n + 1
      BY <1>1, <2>3
    <3> QED BY <1>1, <2>3, <3>1 DEF Hole
  <2> QED BY <1>1, <2>1, <2>2, <2>3
<1>3. ASSUME NEW k \in DOMAIN o, NEW j \in DOMAIN o, o[k] = o[j]
      PROVE  k = j
  <2>1. \A i \in 1 .. n : o[i] = s[i] /\ s[i][1] # l
    BY <1>1 DEF Lacks
  <2>2. CASE k \in 1 .. n /\ j \in 1 .. n
    BY <1>1, <1>3, <2>2 DEF Whole, IsInjective
  <2>3. CASE k \in 1 .. n /\ j \notin 1 .. n
    <3>1. o[j][1] = l
      BY <1>1, <2>3
    <3> QED BY <1>3, <2>1, <2>3, <3>1
  <2>4. CASE k \notin 1 .. n /\ j \in 1 .. n
    <3>1. o[k][1] = l
      BY <1>1, <2>4
    <3> QED BY <1>3, <2>1, <2>4, <3>1
  <2>5. CASE k \notin 1 .. n /\ j \notin 1 .. n
    <3>1. /\ (k = n + 1 /\ o[k] = <<l, 1>>) \/ (k = n + 2 /\ o[k] = <<l, 2>>)
          /\ (j = n + 1 /\ o[j] = <<l, 1>>) \/ (j = n + 2 /\ o[j] = <<l, 2>>)
      BY <1>1, <2>5
    <3>2. <<l, 1>> # <<l, 2>>
      OBVIOUS
    <3> QED BY <1>3, <3>1, <3>2
  <2> QED BY <2>2, <2>3, <2>4, <2>5
<1> QED
  BY <1>2, <1>3 DEF Whole, IsInjective

(* Only a short write tears a line. *)
LEMMA TornLonger ==
    ASSUME NEW f, content[f] \in Seq(Cells), NEW c, NEW l \in Nat \ {0},
           IsLine(c, l), Longer(content'[f], content[f], c), before' = before
    PROVE  /\ Torn(f)' \subseteq Torn(f) \cup {Len(content[f]) + 1}
           /\ Len(c) = 2 => Torn(f)' \subseteq Torn(f)
<1> DEFINE s == content[f]
           o == content'[f]
           n == Len(s)
<1>6. s \in Seq(Cells) /\ Longer(o, s, c)
  OBVIOUS
<1>7. /\ Torn(f)' = {i \in DOMAIN o : /\ o[i][1] > before /\ o[i][2] = 1
                                     /\ ~ (i < Len(o) /\ o[i + 1] = <<o[i][1], 2>>)}
      /\ Torn(f) = {i \in DOMAIN s : /\ s[i][1] > before /\ s[i][2] = 1
                                    /\ ~ (i < n /\ s[i + 1] = <<s[i][1], 2>>)}
  BY DEF Torn
<1> HIDE DEF s, o
<1>1. /\ n \in Nat /\ DOMAIN s = 1 .. n /\ DOMAIN o = 1 .. n + Len(c)
      /\ \A k \in 1 .. n : o[k] = s[k]
      /\ o[n + 1] = <<l, 1>> /\ (Len(c) = 2 => o[n + 2] = <<l, 2>>)
      /\ \A k \in DOMAIN o : k \in 1 .. n \/ k = n + 1 \/ (Len(c) = 2 /\ k = n + 2)
  BY <1>6, LongerCells
<1>2. Len(o) = n + Len(c) /\ Len(c) \in {1, 2}
  BY <1>6 DEF Longer, IsLine
<1>3. ASSUME NEW i \in Torn(f)'
      PROVE  /\ i \in DOMAIN o /\ o[i][1] > before /\ o[i][2] = 1
             /\ ~ (i < Len(o) /\ o[i + 1] = <<o[i][1], 2>>)
  BY <1>7
<1>4. ASSUME NEW i \in 1 .. n, s[i][1] > before, s[i][2] = 1,
             ~ (i < n /\ s[i + 1] = <<s[i][1], 2>>)
      PROVE  i \in Torn(f)
  BY <1>1, <1>4, <1>7
<1> HIDE DEF n
<1>5. ASSUME NEW i \in Torn(f)'
      PROVE  i \in Torn(f) \/ (i = n + 1 /\ Len(c) # 2)
  <2>1. CASE i \in 1 .. n
    <3>1. o[i] = s[i] /\ (i < n => i + 1 \in 1 .. n /\ i < Len(o) /\ o[i + 1] = s[i + 1])
      BY <1>1, <1>2, <2>1
    <3> QED BY <1>3, <1>4, <2>1, <3>1
  <2>2. CASE i = n + 1 /\ Len(c) = 2
    <3>1. i < Len(o) /\ i + 1 = n + 2
      BY <1>1, <1>2, <2>2
    <3> QED BY <1>1, <1>3, <2>2, <3>1
  <2>3. CASE i = n + 2 /\ Len(c) = 2
    BY <1>1, <1>3, <2>3
  <2> QED BY <1>1, <1>2, <1>3, <2>1, <2>2, <2>3
<1> QED
  BY <1>5 DEF n, s

(* What is in a file after any write is old, a hole or of the line. *)
LEMMA OverwrittenSane ==
    ASSUME NEW s \in Seq(Cells), NEW i \in Nat, NEW f,
           NEW c, NEW l \in DOMAIN lines, IsLine(c, l),
           Known(s), ~ dropped => AtHome(s, f) /\ lines[l].home = f
    PROVE  LET o == Overwritten(s, i, c)
           IN  Known(o) /\ (~ dropped => AtHome(o, f))
<1> DEFINE o == Overwritten(s, i, c)
<1>1. c \in Seq(Cells) /\ Len(c) \in Nat /\ Len(s) \in Nat /\ DOMAIN s = 1 .. Len(s)
  BY OfCells DEF IsLine
<1>2. /\ \A k \in DOMAIN o : k \in Nat /\ k >= 1
      /\ \A k \in DOMAIN o : o[k] = IF k \in i + 1 .. i + Len(c) THEN c[k - i]
                                    ELSE IF k <= Len(s) THEN s[k] ELSE Hole
  BY <1>1, OverwrittenIs
<1> HIDE DEF o
<1>3. ASSUME NEW k \in DOMAIN o
      PROVE  o[k] = Hole \/ o[k][1] = l \/ \E j \in DOMAIN s : o[k] = s[j]
  <2>1. CASE k \in i + 1 .. i + Len(c)
    <3>1. k - i \in 1 .. Len(c)
      BY <1>1, <1>2, <2>1
    <3>2. o[k] = c[k - i] /\ c[k - i] = <<l, k - i>>
      BY <1>2, <2>1, <3>1 DEF IsLine
    <3> QED BY <3>2
  <2>2. CASE k \notin i + 1 .. i + Len(c) /\ k <= Len(s)
    <3>1. k \in DOMAIN s
      BY <1>1, <1>2, <2>2
    <3> QED BY <1>2, <2>2, <3>1
  <2>3. CASE k \notin i + 1 .. i + Len(c) /\ ~ (k <= Len(s))
    BY <1>2, <2>3
  <2> QED BY <2>1, <2>2, <2>3
<1>4. Known(o)
  BY <1>3 DEF Known
<1>5. ~ dropped => AtHome(o, f)
  BY <1>3 DEF AtHome
<1> QED
  BY <1>4, <1>5 DEF o

LEMMA WriteContents ==
    ASSUME TypeOK, TypeOK', Ownership, Progress, Contents, AllOnDisk,
           NEW a \in Appenders, NEW m \in 0 .. 2, WritesSome(a, m)
    PROVE  Contents' /\ AllOnDisk'
<1> DEFINE n == appender[a].fd
           l == appender[a].line
           c == SubSeq(Line(a), 1, m)
<1>1. /\ appender[a] # Gone /\ appender[a].stage = "write"
      /\ UNCHANGED <<disk, lines, durable, mixed, dropped, before>>
      /\ shorts' = IF m = 2 THEN shorts ELSE shorts + 1
  BY DEF WritesSome, ghosts
<1>2. /\ l \in DOMAIN lines /\ l \in Nat \ {0}
      /\ ~ dropped => IsOpenOn(n, lines[l].home)
      /\ \A f \in Files : Lacks(content[f], l)
  <2>1. /\ l \in DOMAIN lines
        /\ ~ dropped => IsOpenOn(n, lines[l].home)
        /\ \A f \in Files : Lacks(content[f], l)
    BY <1>1 DEF Progress, InFlight, Unwritten
  <2> HIDE DEF l, n
  <2>2. l \in Nat \ {0}
    BY <2>1, Types
  <2> QED BY <2>1, <2>2
<1>3. n \in Fds \cup {1, 2} /\ WriteTo(n, c)
  BY <1>1, DescriptorKnown DEF WritesSome
<1>4. c \in Seq(Cells) /\ Len(c) = m /\ \A j \in 1 .. m : c[j] = <<l, j>>
  <2>1. /\ Line(a) \in Seq(Cells) /\ Len(Line(a)) = 2
        /\ Line(a)[1] = <<l, 1>> /\ Line(a)[2] = <<l, 2>>
    BY <1>1, LineIs
  <2>2. \A j \in 1 .. m : j \in {1, 2} /\ c[j] = Line(a)[j]
    BY <2>1, Beginning
  <2> QED BY <2>1, <2>2, Beginning
<1>5. DOMAIN fd = Fds \cup {1, 2} /\ DOMAIN fd' = Fds \cup {1, 2} /\ SameFiles
  BY WriteSame DEF TypeOK
<1>6. \A g \in Files : OpenOn(g)' = OpenOn(g)
  BY <1>5 DEF SameFiles, OpenOn
<1>7. /\ content \in [Files -> Seq(Cells)] /\ content' \in [Files -> Seq(Cells)]
      /\ shorts \in Nat
  BY Types DEF TypeOK
<1> HIDE DEF n, l, c
<1>8. CASE UNCHANGED <<content, fd>>
  <2>1. shorts' \in {shorts, shorts + 1}
    BY <1>1
  <2>2. \A f \in Files : AtEnd(f)'
    BY <1>1, <1>8, AtEndKept DEF Contents
  <2> QED BY <1>1, <1>8, <2>1, <2>2, ContentsKept
<1>9. CASE \E f \in Files, i \in Nat : WritesAt(n, f, i, c)
  <2>1. PICK f \in Files, i \in Nat : WritesAt(n, f, i, c)
    BY <1>9
  <2> DEFINE s == content[f]
             o == content'[f]
  <2>2. /\ c # <<>> /\ o = Overwritten(s, i, c)
        /\ i = IF fd[n].append THEN Len(s) ELSE fd[n].at
        /\ fd[n] # Closed /\ fd[n].file = f
        /\ fd'[n].append = fd[n].append /\ fd'[n].at = i + Len(c)
        /\ \A k \in Fds \cup {1, 2} : k # n => fd'[k] = fd[k]
        /\ \A g \in Files : g # f => content'[g] = content[g]
    BY <2>1 DEF WritesAt
  <2>3. IsLine(c, l)
    <3>1. m # 0
      BY <1>4, <2>2, EmptySeq
    <3> QED BY <1>4, <3>1 DEF IsLine
  <2>4. s \in Seq(Cells) /\ o \in Seq(Cells) /\ Lacks(s, l)
    BY <1>2, <1>7
  <2>5. Sane(s, f) /\ AtEnd(f) /\ FewTorn(f)
    BY DEF Contents
  <2>6. ~ dropped => lines[l].home = f
    BY <1>2, <2>2 DEF IsOpenOn
  <2>7. f \notin mixed => Longer(o, s, c)
    <3>1. ASSUME f \notin mixed PROVE i = Len(s)
      <4>1. n \in OpenOn(f)
        BY <1>3, <1>5, <2>2 DEF OpenOn
      <4> QED BY <2>2, <2>5, <3>1, <4>1 DEF AtEnd
    <3> QED BY <1>4, <2>2, <2>4, <3>1, AppendedIs
  <2> HIDE DEF s, o
  <2>8. Sane(o, f)
    <3>1. Known(o) /\ (~ dropped => AtHome(o, f))
      BY <1>2, <2>2, <2>3, <2>4, <2>5, <2>6, OverwrittenSane DEF Sane
    <3>2. f \notin mixed => Whole(o)
      BY <1>2, <2>3, <2>4, <2>5, <2>7, WholeLonger DEF Sane
    <3> QED BY <3>1, <3>2 DEF Sane
  <2>9. ASSUME NEW g \in Files
        PROVE  Sane(content[g], g)' /\ Sane(disk[g], g)'
    <3>1. Sane(content'[g], g) /\ Sane(disk[g], g)
      BY <2>2, <2>8 DEF Contents, o
    <3> QED BY <1>1, <3>1 DEF Sane, Known, AtHome, Whole, IsInjective
  <2>10. ASSUME NEW g \in Files, g \notin mixed
         PROVE  AtEnd(g)'
    <3>1. AtEnd(g) /\ OpenOn(g)' = OpenOn(g)
      BY <1>6 DEF Contents
    <3>2. CASE g # f
      <4>1. \A k \in OpenOn(g) : fd'[k] = fd[k]
        BY <1>5, <2>2, <3>2 DEF OpenOn
      <4> QED BY <1>1, <2>2, <2>10, <3>1, <3>2, <4>1 DEF AtEnd
    <3>3. CASE g = f /\ OpenOn(f) # {n}
      <4>1. \A k \in OpenOn(f) : fd[k].append
        <5>1. n \in OpenOn(f)
          BY <1>3, <1>5, <2>2 DEF OpenOn
        <5> QED BY <2>10, <3>1, <3>3, <5>1 DEF AtEnd
      <4>2. \A k \in OpenOn(f) : fd'[k].append
        BY <1>5, <4>1 DEF SameFiles, OpenOn
      <4> QED BY <3>1, <3>3, <4>2 DEF AtEnd
    <3>4. CASE g = f /\ OpenOn(f) = {n}
      <4>1. fd'[n].at = Len(content'[f]) \/ fd'[n].append
        <5>1. Len(o) = Len(s) + Len(c)
          BY <2>7, <2>10, <3>4 DEF Longer
        <5>2. i = Len(s) \/ fd[n].append
          BY <2>5, <2>2, <2>10, <3>4 DEF AtEnd, s
        <5> QED BY <2>2, <5>1, <5>2 DEF o
      <4> QED BY <3>1, <3>4, <4>1 DEF AtEnd
    <3> QED BY <3>2, <3>3, <3>4
  <2>11. ASSUME NEW g \in Files, g \notin mixed
         PROVE  Cardinality(Torn(g)') <= shorts'
    <3>1. /\ IsFiniteSet(Torn(g)) /\ Cardinality(Torn(g)) \in Nat
          /\ Cardinality(Torn(g)) <= shorts
      BY <1>7, <2>11, TornFinite DEF Contents, FewTorn
    <3>2. CASE g # f
      <4>1. Torn(g)' = Torn(g)
        BY <1>1, <2>2, <3>2, SameTorn
      <4> QED BY <1>1, <1>7, <3>1, <4>1
    <3>3. CASE g = f
      <4>1. /\ Torn(f)' \subseteq Torn(f) \cup {Len(content[f]) + 1}
            /\ Len(c) = 2 => Torn(f)' \subseteq Torn(f)
        BY <1>1, <1>2, <2>3, <2>4, <2>7, <2>11, <3>3, TornLonger DEF s, o
      <4>2. CASE m = 2
        <5>1. Cardinality(Torn(f)') <= Cardinality(Torn(f)) /\ Cardinality(Torn(f)') \in Nat
          BY <1>4, <3>1, <3>3, <4>1, <4>2, FS_Subset, FS_CardinalityType
        <5> QED BY <1>1, <1>7, <3>1, <3>3, <4>2, <5>1
      <4>3. CASE m # 2
        <5> DEFINE T == Torn(f) \cup {Len(content[f]) + 1}
        <5>0. IsFiniteSet(Torn(f)) /\ Cardinality(Torn(f)) \in Nat
          BY <3>1, <3>3
        <5>1. /\ IsFiniteSet(T) /\ Cardinality(T) <= Cardinality(Torn(f)) + 1
              /\ Cardinality(T) \in Nat
          <6> DEFINE S == Torn(f)
                     x == Len(content[f]) + 1
          <6> HIDE DEF S, x
          <6>1. /\ IsFiniteSet(S \cup {x})
                /\ Cardinality(S \cup {x}) =
                      IF x \in S THEN Cardinality(S) ELSE Cardinality(S) + 1
            BY <5>0, FS_AddElement DEF S
          <6> QED BY <5>0, <6>1 DEF S, x
        <5>2. Torn(f)' \subseteq T
          BY <4>1
        <5> HIDE DEF T
        <5>3. Cardinality(Torn(f)') <= Cardinality(T) /\ Cardinality(Torn(f)') \in Nat
          BY <5>1, <5>2, FS_Subset, FS_CardinalityType
        <5> QED BY <1>1, <1>7, <3>1, <3>3, <4>3, <5>1, <5>3
      <4> QED BY <4>2, <4>3
    <3> QED BY <3>2, <3>3
  <2>12. ASSUME NEW k \in durable
         PROVE  OnDisk(k)'
    <3> DEFINE h == lines[k].home
    <3>1. OnDisk(k) /\ h \in Files
      BY HomeIs DEF AllOnDisk, TypeOK
    <3>2. ASSUME h \notin mixed, IsPrefix(disk[h], content[h])
          PROVE  IsPrefix(disk[h], content'[h])
      <4>1. disk[h] \in Seq(Cells) /\ content[h] \in Seq(Cells) /\ content'[h] \in Seq(Cells)
        BY <1>7, <3>1, Types
      <4>2. CASE h # f
        BY <2>2, <3>1, <3>2, <4>2
      <4>3. CASE h = f
        <5>1. /\ Len(s) <= Len(o) /\ Len(s) \in Nat /\ Len(o) \in Nat
              /\ \A j \in 1 .. Len(s) : o[j] = s[j]
          BY <1>4, <2>4, <2>7, <3>2, <4>3, OfCells DEF Longer
        <5>2. /\ Len(disk[h]) <= Len(s) /\ Len(disk[h]) \in Nat
              /\ \A j \in 1 .. Len(disk[h]) : disk[h][j] = s[j]
          BY <3>2, <4>1, <4>3, PrefixIs, OfCells DEF s
        <5>3. Len(disk[h]) <= Len(o) /\ \A j \in 1 .. Len(disk[h]) : disk[h][j] = o[j]
          BY <5>1, <5>2
        <5> QED BY <4>1, <4>3, <5>3, PrefixIs DEF o
      <4> QED BY <4>2, <4>3
    <3>3. lines' = lines /\ dropped' = dropped /\ mixed' = mixed /\ disk' = disk
      BY <1>1
    <3> QED BY <3>1, <3>2, <3>3 DEF OnDisk, Holds
  <2> QED
    BY <1>1, <2>9, <2>10, <2>11, <2>12 DEF Contents, FewTorn, AllOnDisk, AtEnd
<1> QED
  BY <1>3, <1>4, <1>8, <1>9, Writes

LEMMA LogContents ==
    ASSUME TypeOK, TypeOK', Contents, AllOnDisk,
           NEW a \in Appenders, NEW p \in Priorities, Log(a, p)
    PROVE  Contents' /\ AllOnDisk'
<1>1. UNCHANGED <<content, disk, fd, durable, mixed, dropped, before, shorts>>
  BY DEF Log, osVars, counters
<1>2. \A l \in DOMAIN lines : l \in DOMAIN lines' /\ lines'[l] = lines[l]
  <2>1. \E x : lines' = Append(lines, x)
    BY DEF Log
  <2>2. /\ Len(lines) \in Nat /\ DOMAIN lines = 1 .. Len(lines)
        /\ lines \in Seq([home : Files, by : Appenders])
        /\ lines' \in Seq([home : Files, by : Appenders])
    BY Types DEF TypeOK
  <2>3. PICK x : lines' = Append(lines, x)
    BY <2>1
  <2>4. /\ Len(lines') = Len(lines) + 1
        /\ \A l \in 1 .. Len(lines) : lines'[l] = lines[l]
    BY <2>2, <2>3
  <2>5. DOMAIN lines' = 1 .. Len(lines) + 1
    BY <2>2, <2>4
  <2> QED BY <2>2, <2>4, <2>5
<1>3. ASSUME NEW f \in Files
      PROVE  Sane(content[f], f)' /\ Sane(disk[f], f)' /\ AtEnd(f)' /\ FewTorn(f)'
  <2>1. Sane(content[f], f) /\ Sane(disk[f], f) /\ AtEnd(f) /\ FewTorn(f)
    BY DEF Contents
  <2>2. Sane(content[f], f)' /\ Sane(disk[f], f)'
    <3>1. Known(content[f])' /\ Known(disk[f])'
      BY <1>1, <1>2, <2>1 DEF Sane, Known
    <3>2. ~ dropped' => AtHome(content[f], f)' /\ AtHome(disk[f], f)'
      BY <1>1, <1>2, <2>1 DEF Sane, Known, AtHome
    <3>3. f \notin mixed' => Whole(content[f])' /\ Whole(disk[f])'
      BY <1>1, <2>1 DEF Sane, Whole, IsInjective
    <3> QED BY <3>1, <3>2, <3>3 DEF Sane
  <2>3. AtEnd(f)'
    BY <1>1, <2>1 DEF AtEnd, OpenOn
  <2>4. FewTorn(f)'
    BY <1>1, <2>1, SameTorn DEF FewTorn
  <2> QED BY <2>2, <2>3, <2>4
<1>4. AllOnDisk'
  BY <1>1, <1>2 DEF AllOnDisk, OnDisk, Holds, TypeOK
<1> QED
  BY <1>3, <1>4 DEF Contents

LEMMA SyncContents ==
    ASSUME TypeOK, TypeOK', Ownership, Progress, Contents, AllOnDisk,
           NEW a \in Appenders, Sync(a)
    PROVE  Contents' /\ AllOnDisk'
<1> DEFINE n == appender[a].fd
           l == appender[a].line
           g == fd[n].file
<1>1. /\ UNCHANGED <<content, fd, lines, mixed, dropped, before, shorts>>
      /\ appender[a].stage = "sync" /\ appender[a] # Gone
      /\ disk' = [disk EXCEPT ![g] = content[g]]
      /\ durable' = durable \cup
            {k \in {l} : Range(Line(a)) \subseteq Range(content[lines[k].home])}
  BY AppenderIs DEF Sync, Synced, counters
<1>2. l \in DOMAIN lines /\ (~ dropped => IsOpenOn(n, lines[l].home))
  BY <1>1 DEF Progress, InFlight
<1>3. <<l, 1>> \in Range(Line(a)) /\ <<l, 2>> \in Range(Line(a))
  <2>1. 1 \in DOMAIN Line(a) /\ 2 \in DOMAIN Line(a)
    BY <1>1, LineIs, OfCells
  <2> QED BY <1>1, <2>1, LineIs DEF Range
<1>4. \A f \in Files : disk'[f] \in {disk[f], content[f]}
  BY <1>1, Types
<1>5. ~ dropped => disk'[lines[l].home] = content[lines[l].home]
  <2>1. lines[l].home \in Files
    BY <1>2, HomeIs
  <2> QED BY <1>1, <1>2, <2>1, Types DEF IsOpenOn
<1> HIDE DEF n, l, g
<1>6. ASSUME NEW f \in Files
      PROVE  Sane(content[f], f)' /\ Sane(disk[f], f)' /\ AtEnd(f)' /\ FewTorn(f)'
  <2>1. Sane(content[f], f) /\ Sane(disk'[f], f) /\ AtEnd(f) /\ FewTorn(f)
    BY <1>4 DEF Contents
  <2>2. Sane(content[f], f)' /\ Sane(disk[f], f)'
    BY <1>1, <2>1 DEF Sane, Known, AtHome, Whole, IsInjective
  <2>3. AtEnd(f)'
    BY <1>1, <2>1 DEF AtEnd, OpenOn
  <2>4. FewTorn(f)'
    BY <1>1, <2>1, SameTorn DEF FewTorn
  <2> QED BY <2>2, <2>3, <2>4
<1>7. ASSUME NEW k \in durable', ~ dropped, lines[k].home \notin mixed
      PROVE  LET h == lines[k].home IN IsPrefix(disk'[h], content[h]) /\ Holds(disk'[h], k)
  <2> DEFINE h == lines[k].home
  <2>1. k \in DOMAIN lines
    BY <1>1, <1>2 DEF TypeOK
  <2>2. h \in Files
    BY <2>1, HomeIs
  <2>3. content[h] \in Seq(Cells) /\ disk[h] \in Seq(Cells)
    BY <2>2, Types
  <2>4. CASE k \in durable
    <3>1. IsPrefix(disk[h], content[h]) /\ Holds(disk[h], k)
      BY <1>7, <2>4 DEF AllOnDisk, OnDisk
    <3>2. IsPrefix(content[h], content[h]) /\ Holds(content[h], k)
      BY <2>3, <3>1, PrefixOfItself, PrefixHolds
    <3> QED BY <1>4, <2>2, <3>1, <3>2
  <2>5. CASE k \notin durable
    <3>1. k = l /\ Range(Line(a)) \subseteq Range(content[h])
      BY <1>1, <2>5
    <3>2. Holds(content[h], k) /\ IsPrefix(content[h], content[h])
      BY <1>3, <2>3, <3>1, PrefixOfItself DEF Holds
    <3>3. disk'[h] = content[h]
      BY <1>5, <1>7, <3>1
    <3> QED BY <3>2, <3>3
  <2> QED BY <2>4, <2>5
<1>8. AllOnDisk'
  BY <1>1, <1>7 DEF AllOnDisk, OnDisk, Holds
<1> QED
  BY <1>6, <1>8 DEF Contents

LEMMA CrashContents ==
    ASSUME TypeOK, TypeOK', Contents, AllOnDisk, Crash
    PROVE  Contents' /\ AllOnDisk'
<1>1. /\ disk' = content' /\ before' = Len(lines) /\ fd' = StdFds
      /\ UNCHANGED <<lines, durable, mixed, dropped, shorts>>
      /\ \A f \in Files : content'[f] \in Survivors(f)
  BY DEF Crash
<1>2. Len(lines) \in Nat /\ DOMAIN lines = 1 .. Len(lines) /\ shorts \in Nat
  BY Types
<1>3. ASSUME NEW f \in Files
      PROVE  /\ content[f] \in Seq(Cells) /\ disk[f] \in Seq(Cells)
             /\ content'[f] = disk[f] \/
                \E n \in 0 .. Len(content[f]) :
                   /\ content'[f] = SubSeq(content[f], 1, n)
                   /\ IsPrefix(disk[f], content[f]) => Len(disk[f]) <= n
  <2>1. /\ content[f] \in Seq(Cells) /\ disk[f] \in Seq(Cells)
        /\ Len(content[f]) \in Nat /\ Len(disk[f]) \in Nat
    BY Types
  <2>2. content'[f] \in Survivors(f)
    BY <1>1
  <2>3. CASE IsPrefix(disk[f], content[f])
    BY <2>1, <2>2, <2>3 DEF Survivors
  <2>4. CASE ~ IsPrefix(disk[f], content[f])
    BY <2>1, <2>2, <2>4 DEF Survivors
  <2> QED BY <2>1, <2>3, <2>4
<1>4. ASSUME NEW f \in Files
      PROVE  Sane(content'[f], f)
  <2>1. Sane(content[f], f) /\ Sane(disk[f], f)
    BY DEF Contents
  <2> QED BY <1>3, <2>1, SaneBeginning
<1>5. ASSUME NEW f \in Files
      PROVE  Sane(content[f], f)' /\ Sane(disk[f], f)'
  BY <1>1, <1>4 DEF Sane, Known, AtHome, Whole, IsInjective
<1>6. ASSUME NEW f \in Files
      PROVE  AtEnd(f)'
  <2>1. \A n \in OpenOn(f)' : fd'[n].append
    BY <1>1, StdFdsTypes DEF OpenOn
  <2> QED BY <2>1 DEF AtEnd
<1>7. ASSUME NEW f \in Files
      PROVE  FewTorn(f)'
  <2>1. \A i \in DOMAIN content'[f] : content'[f][i][1] \in 0 .. Len(lines)
    BY <1>2, <1>4 DEF Sane, Known, Hole
  <2>2. \A i \in DOMAIN content'[f] : ~ (content'[f][i][1] > before')
    BY <1>1, <1>2, <2>1
  <2>3. Torn(f)' = {}
    BY <2>2 DEF Torn
  <2> QED BY <1>1, <1>2, <2>3, FS_EmptySet DEF FewTorn
<1>8. ASSUME NEW k \in durable, ~ dropped, lines[k].home \notin mixed
      PROVE  LET h == lines[k].home
             IN  IsPrefix(content'[h], content'[h]) /\ Holds(content'[h], k)
  <2> DEFINE h == lines[k].home
  <2>1. h \in Files
    BY HomeIs DEF TypeOK
  <2>2. content'[h] \in Seq(Cells)
    BY <2>1 DEF TypeOK
  <2>3. IsPrefix(disk[h], content[h]) /\ Holds(disk[h], k)
    BY <1>8 DEF AllOnDisk, OnDisk
  <2>4. CASE content'[h] = disk[h]
    BY <2>2, <2>3, <2>4, PrefixOfItself
  <2>5. CASE content'[h] # disk[h]
    <3>1. PICK n \in 0 .. Len(content[h]) : /\ content'[h] = SubSeq(content[h], 1, n)
                                            /\ Len(disk[h]) <= n
      BY <1>3, <2>1, <2>3, <2>5
    <3> DEFINE s == disk[h]
               t == content'[h]
    <3>2. s \in Seq(Cells) /\ content[h] \in Seq(Cells) /\ n \in Nat /\ Len(s) \in Nat
      BY <1>3, <2>1
    <3>3. Len(t) = n /\ \A i \in 1 .. n : t[i] = content[h][i]
      BY <3>1, <3>2, Beginning
    <3>4. \A i \in 1 .. Len(s) : s[i] = content[h][i]
      BY <2>3, <3>2, PrefixIs
    <3> HIDE DEF s, t
    <3>5. Len(s) <= Len(t) /\ \A i \in 1 .. Len(s) : t[i] = s[i]
      BY <3>1, <3>2, <3>3, <3>4 DEF s
    <3>6. Holds(t, k)
      BY <2>2, <2>3, <3>2, <3>5, LongerHolds DEF s, t
    <3> QED BY <2>2, <3>6, PrefixOfItself DEF t
  <2> QED BY <2>4, <2>5
<1>9. AllOnDisk'
  BY <1>1, <1>8 DEF AllOnDisk, OnDisk, Holds
<1> QED
  BY <1>5, <1>6, <1>7, <1>9 DEF Contents

LEMMA NextContents ==
    ASSUME IInv, TypeOK', [Next]_vars
    PROVE  Contents' /\ AllOnDisk'
<1> USE DEF IInv
<1>1. ASSUME NEW a \in Appenders, NEW f \in Files, NEW overwrite \in BOOLEAN,
             ConstructFile(a, f, overwrite)
      PROVE  Contents' /\ AllOnDisk'
  <2>1. PICK n \in Fds : Open(n, f, TRUE, overwrite)
    BY <1>1 DEF ConstructFile
  <2>2. Opened(n, f, TRUE, overwrite)
    BY <2>1, Opens, Zenon
  <2>3. Mixes(f, FALSE)
    BY <1>1 DEF ConstructFile
  <2> QED BY <2>2, <2>3, OpenContents
<1>2. ASSUME NEW a \in Appenders, ConstructCFile(a) \/ ConstructStd(a) \/ Destroy(a)
      PROVE  Contents' /\ AllOnDisk'
  <2>1. UNCHANGED <<content, disk, lines, durable, mixed, before, shorts, dropped>>
    BY <1>2 DEF ConstructCFile, ConstructStd, Destroy, osVars, counters, ghosts
  <2>2. \A m \in Fds \cup {1, 2} : fd'[m] \in {fd[m], Closed}
    <3>1. CASE fd' = fd
      BY <3>1
    <3>2. CASE fd' # fd
      <4>1. Destroy(a) /\ Kind(a) = "file"
        BY <1>2, <3>2 DEF ConstructCFile, ConstructStd, Destroy, osVars
      <4>2. appender[a].fd \in Fds /\ fd' = [fd EXCEPT ![appender[a].fd] = Closed]
        BY <4>1 DEF Destroy, Ownership, FileOwns
      <4> QED BY <4>2, Closes
    <3> QED BY <3>1, <3>2
  <2>3. \A f \in Files : AtEnd(f)'
    BY <2>1, <2>2, AtEndKept DEF Contents
  <2> QED BY <2>1, <2>3, ContentsKept
<1>3. ASSUME NEW a \in Appenders, NEW p \in Priorities, Log(a, p)
      PROVE  Contents' /\ AllOnDisk'
  BY <1>3, LogContents
<1>4. ASSUME NEW a \in Appenders, Write(a) \/ WriteShort(a)
      PROVE  Contents' /\ AllOnDisk'
  BY <1>4, WriteIs, WriteContents
<1>5. ASSUME NEW a \in Appenders, Sync(a)
      PROVE  Contents' /\ AllOnDisk'
  BY <1>5, SyncContents
<1>10. ASSUME NEW a \in Appenders, SyncFails(a)
      PROVE  Contents' /\ AllOnDisk'
  <2>1. UNCHANGED <<content, disk, fd, lines, durable, mixed, before, shorts, dropped>>
    BY <1>10 DEF SyncFails, osVars, counters, ghosts
  <2>2. \A f \in Files : AtEnd(f)'
    BY <2>1 DEF Contents, AtEnd, OpenOn
  <2> QED BY <2>1, <2>2, ContentsKept
<1>6. ASSUME NEW f \in Files, NEW append \in BOOLEAN, ClientOpen(f, append)
      PROVE  Contents' /\ AllOnDisk'
  <2> DEFINE truncate == ~ append
  <2>1. PICK n \in Fds : Open(n, f, append, truncate)
    BY <1>6 DEF ClientOpen
  <2>2. Mixes(f, truncate)
    BY <1>6 DEF ClientOpen
  <2>3. truncate \in BOOLEAN /\ (append \/ (truncate /\ truncate))
    OBVIOUS
  <2> HIDE DEF truncate
  <2>4. Opened(n, f, append, truncate)
    BY <2>1, <2>3, Opens, Zenon
  <2> QED BY <2>2, <2>3, <2>4, OpenContents, Zenon
<1>7. ASSUME NEW n \in Fds, ClientClose(n)
      PROVE  Contents' /\ AllOnDisk'
  <2>1. /\ UNCHANGED <<content, disk, lines, durable, mixed, before, shorts>>
        /\ ~ dropped' => ~ dropped
    BY <1>7 DEF ClientClose, counters
  <2>2. \A m \in Fds \cup {1, 2} : fd'[m] \in {fd[m], Closed}
    BY <1>7, Closes DEF ClientClose
  <2>3. \A f \in Files : AtEnd(f)'
    BY <2>1, <2>2, AtEndKept DEF Contents
  <2> QED BY <2>1, <2>3, ContentsKept
<1>8. CASE Crash
  BY <1>8, CrashContents
<1>9. CASE UNCHANGED vars
  <2>1. UNCHANGED <<content, disk, fd, lines, durable, mixed, before, shorts, dropped>>
    BY <1>9 DEF vars, osVars, counters, ghosts
  <2>2. \A f \in Files : AtEnd(f)'
    BY <2>1 DEF Contents, AtEnd, OpenOn
  <2> QED BY <2>1, <2>2, ContentsKept
<1> QED
  BY <1>1, <1>2, <1>3, <1>4, <1>5, <1>6, <1>7, <1>8, <1>9, <1>10 DEF Next

-----------------------------------------------------------------------------
(* Theorems *)

THEOREM Initially == Init => IInv
<1> SUFFICES ASSUME Init PROVE IInv
  OBVIOUS
<1>1. Progress
  BY DEF Init, Gone, Progress, InFlight, Unwritten, OneWriter
<1> QED
  BY <1>1, InitTypes, InitOwnership, InitContents DEF IInv

THEOREM Inductive == IInv /\ [Next]_vars => IInv'
<1> SUFFICES ASSUME IInv, [Next]_vars PROVE IInv'
  OBVIOUS
<1>1. TypeOK'
  BY NextTypes DEF IInv
<1>2. Ownership'
  BY <1>1, NextOwnership DEF IInv
<1>3. Progress'
  BY <1>1, NextProgress DEF IInv
<1>4. Contents' /\ AllOnDisk'
  BY <1>1, NextContents
<1> QED
  BY <1>1, <1>2, <1>3, <1>4 DEF IInv

(* Descriptors have one owner each, appenders write the line they were     *)
(* given, every descriptor of a file that is not mixed writes at its end,  *)
(* and what has been synced is on the disk.                                *)
THEOREM Invariance == Spec => []IInv
  BY Initially, Inductive, PTL DEF Spec

(* Files hold cells, descriptors are closed or open on a file, and those   *)
(* of the client's FILEs are open, whatever appenders have been destroyed. *)
THEOREM TypeCorrect == Spec => []TypeOK
<1>1. IInv => TypeOK
  BY DEF IInv
<1> QED
  BY <1>1, Invariance, PTL

(* While the client keeps the FILE of every CFileAppender open, every line *)
(* is in the file that its appender was made for, however often open()     *)
(* gives out the number of a descriptor that has been closed.              *)
THEOREM LinesReachTheirFile == Spec => []OwnFile
<1>1. IInv => OwnFile
  BY DEF IInv, Contents, Sane, AtHome, OwnFile
<1> QED
  BY <1>1, Invariance, PTL

(* In a file that is not mixed no line is cut short by another, overwritten *)
(* or there twice, whichever appenders of whichever kinds write to it at    *)
(* the same time; lines are torn by short writes only, one line by each,    *)
(* or by a crash of the system.                                             *)
THEOREM LinesAreWhole == Spec => []WholeLines
<1>1. IInv => WholeLines
  BY DEF IInv, Contents, Sane, Whole, FewTorn, WholeLines
<1> QED
  BY <1>1, Invariance, PTL

(* A line that was written whole and whose fsync() has succeeded is still  *)
(* in its file after any number of crashes, unless the client has closed   *)
(* the FILE of an appender or mixed the file.                              *)
THEOREM SyncedIsDurable == Spec => []Durable
<1>1. ASSUME IInv PROVE Durable
  <2>1. ASSUME NEW l \in durable, ~ dropped, lines[l].home \notin mixed
        PROVE  Holds(content[lines[l].home], l)
    <3>1. lines[l].home \in Files
      BY <1>1, HomeIs DEF IInv, TypeOK
    <3>2. /\ content[lines[l].home] \in Seq(Cells) /\ disk[lines[l].home] \in Seq(Cells)
      BY <1>1, <3>1, Types DEF IInv
    <3>3. /\ IsPrefix(disk[lines[l].home], content[lines[l].home])
          /\ Holds(disk[lines[l].home], l)
      BY <1>1, <2>1 DEF IInv, AllOnDisk, OnDisk
    <3> QED BY <3>2, <3>3, PrefixHolds
  <2> QED BY <2>1 DEF Durable, Holds
<1> QED
  BY <1>1, Invariance, PTL
=============================================================================
