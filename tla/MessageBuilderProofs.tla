------------------------ MODULE MessageBuilderProofs ------------------------
(***************************************************************************)
(* Proofs about MessageBuilder, for any buffer size, any values streamed   *)
(* and any number of builders, used one inside another or not.             *)
(*                                                                         *)
(* TypeOK is inductive together with Terminated only: that the text of a   *)
(* logged message is a sequence at all needs a NUL to end it.              *)
(***************************************************************************)
EXTENDS MessageBuilder, SequenceTheorems, WellFoundedInduction, TLAPS

Buffers == [0 .. StackBufferSize - 1 -> Cells]

(* The constructor sets tl_time before anything is logged. *)
HasTime == \A b \in Builders : status[b] = "open" => time \in Builders

IInv == TypeOK /\ Terminated /\ LoggedOnce /\ HasTime

-----------------------------------------------------------------------------
(* Cells and C strings *)

LEMMA Sizes ==
    /\ MaxMessageSize \in Nat /\ MaxMessageSize >= 1
    /\ StackBufferSize = MaxMessageSize + 4
    /\ Lengths \subseteq Nat
  BY MessageBuilderAssumption DEF StackBufferSize

LEMMA CharsType ==
    ASSUME NEW b \in Builders, NEW n \in Nat, streamed[b] \in Nat
    PROVE  /\ Chars(b, n) \in Seq(Cells)
           /\ Len(Chars(b, n)) = n
<1>1. \A k \in 1 .. n : <<b, streamed[b] + k>> \in Cells
  BY DEF Cells
<1> QED
  BY <1>1 DEF Chars

LEMMA LeastElement ==
    ASSUME NEW S \in SUBSET Nat, S # {}
    PROVE  \E i \in S : \A j \in S : i <= j
<1> DEFINE R == {p \in Nat \X Nat : p[1] < p[2]}
<1>1. IsWellFoundedOn(R, Nat)
  BY NatLessThanWellFounded DEF OpToRel
<1> HIDE DEF R
<1>2. PICK i \in S : \A j \in S : ~ (<<j, i>> \in R)
  BY <1>1, WFMin
<1>3. \A j, k \in S : <<j, k>> \in R <=> j < k
  BY DEF R
<1>4. \A j \in S : ~ (j < i)
  BY <1>2, <1>3
<1>5. \A j \in S : i <= j
  BY <1>4
<1> QED
  BY <1>5

(* A buffer that holds a NUL is a C string: its end is the first NUL. *)
LEMMA CStringType ==
    ASSUME NEW buffer \in Buffers, NEW z \in 0 .. StackBufferSize - 1,
           buffer[z] = NUL
    PROVE  CString(buffer) \in Seq(Cells) /\ Len(CString(buffer)) <= z
<1> DEFINE End(i) == /\ buffer[i] = NUL
                     /\ \A j \in 0 .. i - 1 : buffer[j] # NUL
           Z == {i \in 0 .. StackBufferSize - 1 : buffer[i] = NUL}
           e == CHOOSE i \in DOMAIN buffer : End(i)
<1>1. DOMAIN buffer = 0 .. StackBufferSize - 1 /\ StackBufferSize \in Nat
  BY Sizes DEF Buffers
<1>2. PICK i \in Z : \A j \in Z : i <= j
  <2>1. Z \in SUBSET Nat /\ z \in Z
    BY <1>1
  <2> QED BY <2>1, LeastElement
<1>3. \E k \in DOMAIN buffer : End(k)
  <2>1. \A j \in 0 .. i - 1 : j \in 0 .. StackBufferSize - 1 /\ j < i
    BY <1>1, <1>2
  <2> QED BY <1>1, <1>2, <2>1
<1>4. e \in DOMAIN buffer /\ End(e)
  BY <1>3
<1> HIDE DEF e
<1>5. e \in Nat /\ e <= z
  <2>1. e \in Nat /\ z \in Nat /\ ~ (z \in 0 .. e - 1)
    BY <1>1, <1>4
  <2> QED BY <2>1
<1>6. \A k \in 1 .. e : buffer[k - 1] \in Cells
  <2>1. \A k \in 1 .. e : k - 1 \in 0 .. StackBufferSize - 1
    BY <1>1, <1>4, <1>5
  <2> QED BY <2>1 DEF Buffers
<1>7. /\ [k \in 1 .. e |-> buffer[k - 1]] \in Seq(Cells)
      /\ Len([k \in 1 .. e |-> buffer[k - 1]]) = e
  BY <1>5, <1>6
<1>8. CString(buffer) = [k \in 1 .. e |-> buffer[k - 1]]
  BY DEF CString, e
<1> QED
  BY <1>5, <1>7, <1>8

-----------------------------------------------------------------------------
(* Writes to the buffer: all keep its last cell a NUL.                     *)

BufferOK ==
    /\ message \in Buffers
    /\ offset \in 0 .. MaxMessageSize \cup {StackBufferSize}
    /\ Terminated

LEMMA PutType ==
    ASSUME BufferOK, NEW at \in Nat, NEW cells \in Seq(Cells)
    PROVE  /\ Put(at, cells) \in Buffers
           /\ at + Len(cells) <= MaxMessageSize + 3
                 => Put(at, cells)[StackBufferSize - 1] = NUL
<1>1. /\ DOMAIN message = 0 .. StackBufferSize - 1
      /\ StackBufferSize - 1 \in DOMAIN message
      /\ message[StackBufferSize - 1] = NUL
  BY Sizes DEF BufferOK, Buffers, Terminated
<1>2. \A i \in DOMAIN message : i \in at .. at + Len(cells) - 1
                                 => cells[i - at + 1] \in Cells
  BY <1>1, Sizes
<1>3. Put(at, cells) \in Buffers
  BY <1>1, <1>2 DEF Put, BufferOK, Buffers
<1>4. ASSUME at + Len(cells) <= MaxMessageSize + 3
      PROVE  Put(at, cells)[StackBufferSize - 1] = NUL
  <2>1. StackBufferSize - 1 \notin at .. at + Len(cells) - 1
    BY <1>4, Sizes
  <2> QED BY <1>1, <2>1 DEF Put
<1> QED
  BY <1>3, <1>4

LEMMA ExtendOK ==
    ASSUME BufferOK, ~ Elided, NEW cells \in Seq(Cells), NEW n \in Nat,
           n <= Free, Len(cells) <= Free + 1, Extend(cells, n)
    PROVE  BufferOK'
<1>1. /\ offset \in Nat /\ offset <= MaxMessageSize
      /\ Free = MaxMessageSize - offset
  BY Sizes DEF BufferOK, Elided, Free
<1>2. offset' = offset + n /\ message' = Put(offset, cells)
  BY DEF Extend
<1>3. offset' \in 0 .. MaxMessageSize
  BY <1>1, <1>2, Sizes
<1>4. offset + Len(cells) <= MaxMessageSize + 3 /\ Len(cells) \in Nat
  BY <1>1, Sizes
<1>5. message' \in Buffers /\ message'[StackBufferSize - 1] = NUL
  BY <1>1, <1>2, <1>4, PutType
<1> QED
  BY <1>3, <1>5 DEF BufferOK, Terminated

LEMMA ElideOK ==
    ASSUME BufferOK, ~ Elided, NEW cells \in Seq(Cells),
           NEW at \in 0 .. MaxMessageSize,
           Len(cells) <= Free, Elide(cells, at)
    PROVE  BufferOK'
<1>1. /\ offset \in Nat /\ offset <= MaxMessageSize
      /\ Free = MaxMessageSize - offset
      /\ DOMAIN message = 0 .. StackBufferSize - 1
  BY Sizes DEF BufferOK, Elided, Free, Buffers
<1> DEFINE put == Put(offset, cells)
           last == StackBufferSize - 1
<1>2. /\ offset' = StackBufferSize
      /\ message' = [i \in 0 .. last |->
                        IF i \in at .. at + 3 THEN Dots[i - at + 1] ELSE put[i]]
  BY <1>1 DEF Elide
<1>3. offset + Len(cells) <= MaxMessageSize + 3 /\ Len(cells) \in Nat
  BY <1>1, Sizes
<1>4. put \in Buffers /\ put[last] = NUL
  BY <1>1, <1>3, PutType
<1> HIDE DEF put
<1>5. /\ \A k \in 1 .. 4 : Dots[k] \in Cells
      /\ Dots[4] = NUL
  BY DEF Dots, Cells
<1>6. message' \in Buffers
  <2>1. \A i \in 0 .. last : i \in at .. at + 3 => Dots[i - at + 1] \in Cells
    BY <1>5, Sizes
  <2> QED BY <1>2, <1>4, <2>1 DEF Buffers
<1>7. message'[last] = NUL
  <2>1. last \in 0 .. last
    BY Sizes
  <2>2. last \in at .. at + 3 => last - at + 1 = 4
    BY Sizes
  <2> HIDE DEF last
  <2> QED BY <1>2, <1>4, <1>5, <2>1, <2>2
<1> QED
  BY <1>2, <1>6, <1>7 DEF BufferOK, Terminated

-----------------------------------------------------------------------------
(* One lemma per kind of step                                              *)

LEMMA IInvBuffer == IInv => BufferOK
  BY DEF IInv, TypeOK, BufferOK, Buffers

(* What all operators << have in common *)
LEMMA StreamInv ==
    ASSUME IInv, NEW b \in Builders, NEW n \in Nat, Stream(b, n), BufferOK',
           silent' \in [Builders -> BOOLEAN]
    PROVE  IInv'
<1>1. TypeOK'
  <2>1. /\ message' \in Buffers
        /\ offset' \in 0 .. MaxMessageSize \cup {StackBufferSize}
    BY DEF BufferOK
  <2>2. /\ pieces' \in Nat /\ fresh' \subseteq Builders
        /\ streamed' \in [Builders -> Nat]
    BY DEF IInv, TypeOK, Stream
  <2>3. UNCHANGED <<time, status, shells, logged, moves>>
    BY DEF Stream
  <2> QED BY <2>1, <2>2, <2>3 DEF IInv, TypeOK, Buffers
<1>2. LoggedOnce' /\ HasTime'
  BY DEF IInv, LoggedOnce, HasTime, Stream
<1> QED
  BY <1>1, <1>2 DEF IInv, BufferOK

LEMMA DroppedInv ==
    ASSUME IInv, NEW b \in Builders, NEW n \in Nat, AppendDropped(b, n)
    PROVE  IInv'
<1>1. BufferOK'
  BY IInvBuffer DEF AppendDropped, BufferOK, Terminated
<1>2. Stream(b, n) /\ silent' \in [Builders -> BOOLEAN]
  BY DEF AppendDropped, IInv, TypeOK
<1> QED
  BY <1>1, <1>2, StreamInv

(* Where n characters are cut to what is free *)
LEMMA FreeChars ==
    ASSUME IInv, ~ Elided, NEW b \in Builders
    PROVE  /\ Free \in 0 .. MaxMessageSize /\ offset \in 0 .. MaxMessageSize
           /\ MaxMessageSize \in 0 .. MaxMessageSize
           /\ \A n \in Nat : /\ Chars(b, n) \in Seq(Cells)
                             /\ Len(Chars(b, n)) = n
<1>1. offset \in 0 .. MaxMessageSize
  BY Sizes DEF IInv, TypeOK, Elided
<1>2. streamed[b] \in Nat
  BY DEF IInv, TypeOK
<1>3. \A n \in Nat : Chars(b, n) \in Seq(Cells) /\ Len(Chars(b, n)) = n
  BY <1>2, CharsType
<1> QED
  BY <1>1, <1>3, Sizes DEF Free

LEMMA CharactersInv ==
    ASSUME IInv, NEW b \in Builders, NEW n \in Nat, Characters(b, n)
    PROVE  IInv'
<1>1. /\ Stream(b, n) /\ ~ Elided /\ silent' = silent
      /\ BufferOK /\ silent \in [Builders -> BOOLEAN]
  BY IInvBuffer DEF Characters, IInv, TypeOK
<1>2. CASE n <= Free /\ Extend(Chars(b, n), n)
  <2>1. BufferOK'
    BY <1>1, <1>2, FreeChars, ExtendOK
  <2> QED BY <1>1, <2>1, StreamInv
<1>3. CASE Elide(Chars(b, Free), MaxMessageSize)
  <2>1. BufferOK'
    BY <1>1, <1>3, FreeChars, ElideOK
  <2> QED BY <1>1, <2>1, StreamInv
<1> QED
  BY <1>2, <1>3 DEF Characters

LEMMA AppendStringInv ==
    ASSUME IInv, NEW b \in Builders, NEW n \in Nat, AppendString(b, n)
    PROVE  IInv'
<1>1. /\ Stream(b, n) /\ ~ Elided /\ silent' = silent
      /\ BufferOK /\ silent \in [Builders -> BOOLEAN]
  BY IInvBuffer DEF AppendString, IInv, TypeOK
<1>2. CASE n <= Free /\ Extend(Chars(b, n), n)
  <2>1. BufferOK'
    BY <1>1, <1>2, FreeChars, ExtendOK
  <2> QED BY <1>1, <2>1, StreamInv
<1>3. CASE Elide(Chars(b, Free), offset)
  <2>1. BufferOK'
    BY <1>1, <1>3, FreeChars, ElideOK
  <2> QED BY <1>1, <2>1, StreamInv
<1> QED
  BY <1>2, <1>3 DEF AppendString

LEMMA AppendFormattedInv ==
    ASSUME IInv, NEW b \in Builders, NEW n \in Nat, AppendFormatted(b, n)
    PROVE  IInv'
<1>1. /\ n > 0 /\ Stream(b, n) /\ ~ Elided /\ BufferOK
      /\ silent' \in [Builders -> BOOLEAN]
  BY IInvBuffer DEF AppendFormatted, IInv, TypeOK
<1>2. CASE Free = 0 /\ Elide(<<>>, offset)
  <2>1. BufferOK'
    BY <1>1, <1>2, FreeChars, ElideOK
  <2> QED BY <1>1, <2>1, StreamInv
<1>3. ASSUME 0 < Free
      PROVE  Printed(b, n) \in Seq(Cells) /\ Len(Printed(b, n)) <= Free
  <2>1. Least(n, Free - 1) \in Nat /\ Least(n, Free - 1) <= Free - 1
    <3>1. Free \in Nat /\ Free >= 1
      BY <1>1, <1>3, FreeChars
    <3> HIDE DEF Free
    <3> QED BY <3>1 DEF Least
  <2>2. NUL \in Cells
    BY DEF Cells
  <2>3. /\ Chars(b, Least(n, Free - 1)) \in Seq(Cells)
        /\ Len(Chars(b, Least(n, Free - 1))) = Least(n, Free - 1)
    BY <1>1, <2>1, FreeChars
  <2> QED BY <1>1, <1>3, <2>1, <2>2, <2>3, FreeChars DEF Printed
<1>4. CASE 0 < Free /\ n <= Free /\ Extend(Printed(b, n), n)
  <2>1. Len(Printed(b, n)) <= Free + 1
    BY <1>1, <1>3, <1>4, FreeChars
  <2>2. BufferOK'
    BY <1>1, <1>3, <1>4, <2>1, ExtendOK
  <2> QED BY <1>1, <2>2, StreamInv
<1>5. CASE 0 < Free /\ Elide(Printed(b, n), MaxMessageSize)
  <2>1. BufferOK'
    BY <1>1, <1>3, <1>5, FreeChars, ElideOK
  <2> QED BY <1>1, <2>1, StreamInv
<1> QED
  BY <1>2, <1>4, <1>5 DEF AppendFormatted

LEMMA AppendUnformattableInv ==
    ASSUME IInv, NEW b \in Builders, NEW n \in Nat, AppendUnformattable(b, n)
    PROVE  IInv'
<1>1. /\ Stream(b, n) /\ ~ Elided /\ silent' = silent
      /\ BufferOK /\ silent \in [Builders -> BOOLEAN]
      /\ Elide(<<>>, offset)
  BY IInvBuffer DEF AppendUnformattable, IInv, TypeOK
<1>2. BufferOK'
  BY <1>1, FreeChars, ElideOK
<1> QED
  BY <1>1, <1>2, StreamInv

LEMMA ConstructInv ==
    ASSUME IInv, NEW b \in Builders, NEW n \in Nat, Construct(b, n)
    PROVE  IInv'
<1> DEFINE m == Least(MaxMessageSize, n)
<1>1. /\ BufferOK /\ status[b] = "unused" /\ streamed[b] \in Nat
      /\ status' = [status EXCEPT ![b] = "open"]
      /\ offset' = m /\ message' = Put(0, Chars(b, m))
      /\ UNCHANGED logged
  BY IInvBuffer DEF Construct, IInv, TypeOK
<1>2. m \in Nat /\ m \in 0 .. MaxMessageSize /\ m <= MaxMessageSize + 3
  BY Sizes DEF Least
<1>3. Chars(b, m) \in Seq(Cells) /\ Len(Chars(b, m)) = m
  BY <1>1, <1>2, CharsType
<1>4. /\ Put(0, Chars(b, m)) \in Buffers
      /\ Put(0, Chars(b, m))[StackBufferSize - 1] = NUL
  <2>1. 0 \in Nat /\ 0 + Len(Chars(b, m)) <= MaxMessageSize + 3
    BY <1>2, <1>3
  <2> QED BY <1>1, <1>3, <2>1, PutType
<1>5. BufferOK'
  BY <1>1, <1>2, <1>4 DEF BufferOK, Terminated
<1>6. TypeOK'
  BY <1>5, Sizes DEF IInv, TypeOK, Construct, BufferOK, Buffers
<1>7. LoggedOnce' /\ HasTime'
  BY <1>1 DEF IInv, LoggedOnce, HasTime, TypeOK, Construct
<1> QED
  BY <1>5, <1>6, <1>7 DEF IInv, BufferOK

LEMMA MoveInv ==
    ASSUME IInv, NEW b \in Builders, Move(b) \/ DestroyShell(b)
    PROVE  IInv'
<1>1. UNCHANGED <<message, offset, time, status, streamed, silent, fresh,
                  logged, pieces>>
  BY DEF Move, DestroyShell
<1>2. shells' \in [Builders -> Nat] /\ moves' \in Nat
  BY DEF IInv, TypeOK, Move, DestroyShell
<1> QED
  BY <1>1, <1>2 DEF IInv, TypeOK, Terminated, LoggedOnce, HasTime

LEMMA DestroyInv ==
    ASSUME IInv, NEW b \in Builders, Destroy(b)
    PROVE  IInv'
<1>1. /\ TypeOK /\ BufferOK /\ status[b] = "open"
      /\ status' = [status EXCEPT ![b] = "sent"]
      /\ message' = IF offset < StackBufferSize
                    THEN [message EXCEPT ![offset] = NUL] ELSE message
      /\ logged' = Append(logged, Entry(b, message'))
      /\ UNCHANGED <<offset, time, shells, streamed, silent, fresh, pieces,
                     moves>>
  BY IInvBuffer DEF Destroy, IInv
<1>2. message' \in Buffers /\ message'[StackBufferSize - 1] = NUL
  <2>1. NUL \in Cells /\ StackBufferSize - 1 \in 0 .. StackBufferSize - 1
    BY Sizes DEF Cells
  <2> QED BY <1>1, <2>1 DEF BufferOK, Buffers, Terminated
<1>3. CString(message') \in Seq(Cells)
  <2>1. StackBufferSize - 1 \in 0 .. StackBufferSize - 1
    BY Sizes
  <2> QED BY <1>2, <2>1, CStringType
<1>4. Entry(b, message') \in Entries
  <2>1. time \in Builders
    BY <1>1 DEF IInv, HasTime
  <2> QED BY <1>1, <1>3, <2>1 DEF Entry, Entries, TypeOK
<1> DEFINE e == Entry(b, message')
<1>5. e.builder = b
  BY DEF Entry
<1> HIDE DEF e
<1>6. TypeOK'
  BY <1>1, <1>2, <1>4 DEF TypeOK, Buffers, e
<1>7. LoggedOnce'
  <2>1. \A i \in DOMAIN logged : logged[i].builder # b
    BY <1>1 DEF IInv, LoggedOnce
  <2>2. /\ DOMAIN logged' = DOMAIN logged \cup {Len(logged) + 1}
        /\ Len(logged) + 1 \notin DOMAIN logged
        /\ \A i \in DOMAIN logged : logged'[i] = logged[i]
        /\ logged'[Len(logged) + 1] = e
    BY <1>1, <1>4 DEF TypeOK, e
  <2>3. ASSUME NEW c \in Builders
        PROVE  /\ \A i, j \in DOMAIN logged' :
                     logged'[i].builder = c /\ logged'[j].builder = c => i = j
               /\ status'[c] = "sent"
                     <=> \E i \in DOMAIN logged' : logged'[i].builder = c
    <3> DEFINE last == Len(logged) + 1
    <3>1. status'[c] = IF c = b THEN "sent" ELSE status[c]
      BY <1>1 DEF TypeOK
    <3>2. /\ \A i, j \in DOMAIN logged :
                logged[i].builder = c /\ logged[j].builder = c => i = j
          /\ status[c] = "sent" <=> \E i \in DOMAIN logged : logged[i].builder = c
      BY DEF IInv, LoggedOnce
    <3>3. \A i \in DOMAIN logged' :
             \/ i = last /\ logged'[i].builder = b
             \/ i \in DOMAIN logged /\ logged'[i].builder = logged[i].builder
      BY <1>5, <2>2
    <3>4. last \in DOMAIN logged' /\ DOMAIN logged \subseteq DOMAIN logged'
      BY <2>2
    <3>5. CASE c = b
      <4>1. \A i \in DOMAIN logged' : logged'[i].builder = c <=> i = last
        BY <2>1, <2>2, <3>3, <3>5
      <4> HIDE DEF last
      <4> QED BY <3>1, <3>4, <3>5, <4>1
    <3>6. CASE c # b
      <4>1. \A i \in DOMAIN logged' :
               logged'[i].builder = c
                  <=> i \in DOMAIN logged /\ logged[i].builder = c
        BY <2>2, <3>3, <3>6
      <4>2. status'[c] = status[c]
        BY <3>1, <3>6
      <4>3. ASSUME NEW i \in DOMAIN logged', NEW j \in DOMAIN logged',
                   logged'[i].builder = c, logged'[j].builder = c
            PROVE  i = j
        BY <3>2, <4>1, <4>3
      <4>4. (\E i \in DOMAIN logged' : logged'[i].builder = c)
               <=> \E i \in DOMAIN logged : logged[i].builder = c
        BY <3>4, <4>1
      <4> QED BY <3>2, <4>2, <4>3, <4>4
    <3> QED BY <3>5, <3>6
  <2> QED BY <2>3 DEF LoggedOnce
<1>8. HasTime'
  BY <1>1 DEF IInv, HasTime, TypeOK
<1> QED
  BY <1>2, <1>6, <1>7, <1>8 DEF IInv, Terminated

-----------------------------------------------------------------------------
(* The theorems *)

LEMMA InitInv == Init => IInv
<1> SUFFICES ASSUME Init PROVE IInv
  OBVIOUS
<1>1. TypeOK
  <2>1. NUL \in Cells /\ 0 \in 0 .. MaxMessageSize
    BY Sizes DEF Cells
  <2> QED BY <2>1 DEF Init, TypeOK
<1>2. Terminated
  <2>1. StackBufferSize - 1 \in 0 .. StackBufferSize - 1
    BY Sizes
  <2> QED BY <2>1 DEF Init, Terminated
<1>3. LoggedOnce /\ HasTime
  BY DEF Init, LoggedOnce, HasTime
<1> QED
  BY <1>1, <1>2, <1>3 DEF IInv

LEMMA NextInv == IInv /\ [Next]_vars => IInv'
<1> SUFFICES ASSUME IInv, [Next]_vars PROVE IInv'
  OBVIOUS
<1>1. CASE UNCHANGED vars
  BY <1>1 DEF IInv, vars, TypeOK, Terminated, LoggedOnce, HasTime
<1>2. ASSUME NEW b \in Builders, NEW n \in Lengths,
             \/ Construct(b, n)
             \/ AppendCString(b, n)
             \/ AppendString(b, n)
             \/ AppendFormatted(b, n)
             \/ AppendUnformattable(b, n)
             \/ AppendDropped(b, n)
      PROVE  IInv'
  <2>1. n \in Nat
    BY Sizes
  <2> QED BY <1>2, <2>1, ConstructInv, CharactersInv, AppendStringInv,
             AppendFormattedInv, AppendUnformattableInv, DroppedInv
          DEF AppendCString
<1>3. ASSUME NEW b \in Builders,
             Move(b) \/ Destroy(b) \/ DestroyShell(b) \/ AppendChar(b)
      PROVE  IInv'
  <2>1. 1 \in Nat
    OBVIOUS
  <2> QED BY <1>3, <2>1, MoveInv, DestroyInv, CharactersInv DEF AppendChar
<1> QED
  BY <1>1, <1>2, <1>3 DEF Next

THEOREM Invariance == Spec => []IInv
  BY InitInv, NextInv, PTL DEF Spec

(* The assertions on tl_offset hold, nothing is written outside tl_message *)
(* and every logged text is a sequence of characters, dots included.       *)
THEOREM TypeCorrect == Spec => []TypeOK
<1>1. IInv => TypeOK
  BY DEF IInv
<1> QED
  BY <1>1, Invariance, PTL

(* The last cell of tl_message is a NUL whatever has been streamed: what   *)
(* Backend::doLog gets is a C string that ends inside the buffer.          *)
THEOREM AlwaysTerminated == Spec => []Terminated
<1>1. IInv => Terminated
  BY DEF IInv
<1> QED
  BY <1>1, Invariance, PTL

(* A builder logs exactly once, when the object that has the m_backend is  *)
(* destroyed, however often it has been moved.                             *)
THEOREM ExactlyOnce == Spec => []LoggedOnce
<1>1. IInv => LoggedOnce
  BY DEF IInv
<1> QED
  BY <1>1, Invariance, PTL

-----------------------------------------------------------------------------
(* What is in a message                                                    *)

LEMMA Names ==
    /\ NoBuilder \notin Builders
    /\ NUL # Dot
    /\ \A b \in Builders : \A k : <<b, k>> # NUL /\ <<b, k>> # Dot
  BY MessageBuilderAssumption DEF NoBuilder, NUL, Dot

(* tl_offset is reset by the constructor, whose builder it begins with;    *)
(* nothing has been streamed to a builder before.                          *)
FreshUsed ==
    /\ \A b \in Builders : status[b] = "unused" => streamed[b] = 0
    /\ \A b \in fresh : status[b] # "unused"
    /\ \A i \in DOMAIN logged : \A b \in logged[i].fresh : status[b] # "unused"
    /\ time \in Builders => time \in fresh

(* c is no character, or one of a builder in writers *)
Sourced(c, writers, written) ==
    \/ c \in {NUL, Dot}
    \/ \E b \in writers : \E n \in 1 .. written[b] : c = <<b, n>>

(* What is behind a NUL is never read. *)
BufferFresh ==
    \A i \in 0 .. StackBufferSize - 1 : i < offset =>
       Sourced(message[i], fresh, streamed) \/ \E j \in 0 .. i - 1 : message[j] = NUL

(* The first offset characters of b, the last one of a full buffer lost    *)
(* perhaps to the NUL of snprintf                                          *)
Filled(b) ==
    /\ offset <= streamed[b]
    /\ offset = streamed[b] \/ (silent[b] /\ offset = MaxMessageSize)
    /\ \A i \in 0 .. offset - 1 :
          \/ message[i] = <<b, i + 1>>
          \/ silent[b] /\ i = MaxMessageSize - 1 /\ message[i] = NUL

(* The first d characters of b, and dots if it is marked *)
Shape(buffer, b, d, marked) ==
    /\ \A i \in 0 .. d - 1 : buffer[i] = <<b, i + 1>>
    /\ IF marked THEN /\ buffer[d] = Dot /\ buffer[d + 1] = Dot
                      /\ buffer[d + 2] = Dot /\ buffer[d + 3] = NUL
                 ELSE buffer[d] = NUL

Cut(b) ==
    \E d \in 0 .. MaxMessageSize, marked \in BOOLEAN :
       /\ Shape(message, b, d, marked)
       /\ d <= streamed[b]
       /\ silent[b] \/ (marked /\ d < streamed[b])

(* A builder that has had the buffer for itself *)
AloneWhole ==
    \A b \in Builders : fresh = {b} => IF Elided THEN Cut(b) ELSE Filled(b)

CInv ==
    /\ IInv
    /\ FreshUsed /\ BufferFresh /\ AloneWhole
    /\ PrefixDelivered /\ CutIsMarked /\ NothingStale

(* The text of a C string of that shape *)
LEMMA ShapeText ==
    ASSUME NEW buffer \in Buffers, NEW b \in Builders,
           NEW d \in 0 .. MaxMessageSize, NEW marked \in BOOLEAN,
           Shape(buffer, b, d, marked)
    PROVE  LET text == CString(buffer)
           IN  /\ Len(text) = IF marked THEN d + 3 ELSE d
               /\ Marked(text) <=> marked
               /\ \A k \in 1 .. d : text[k] = <<b, k>>
<1> DEFINE End(i) == /\ buffer[i] = NUL
                     /\ \A j \in 0 .. i - 1 : buffer[j] # NUL
           e == CHOOSE i \in DOMAIN buffer : End(i)
           z == IF marked THEN d + 3 ELSE d
<1>1. /\ DOMAIN buffer = 0 .. StackBufferSize - 1 /\ StackBufferSize \in Nat
      /\ z \in DOMAIN buffer /\ d \in Nat /\ z \in Nat
  BY Sizes DEF Buffers
<1>2. End(z)
  <2>1. \A j \in 0 .. d - 1 : buffer[j] # NUL
    <3>1. \A j \in 0 .. d - 1 : buffer[j] = <<b, j + 1>>
      BY DEF Shape
    <3> QED BY <3>1, Names
  <2>2. CASE marked
    <3>1. /\ buffer[d] # NUL /\ buffer[d + 1] # NUL /\ buffer[d + 2] # NUL
          /\ buffer[d + 3] = NUL
      BY <2>2, Names DEF Shape
    <3>2. \A j \in 0 .. (d + 3) - 1 :
             j \in 0 .. d - 1 \/ j = d \/ j = d + 1 \/ j = d + 2
      BY <1>1
    <3>3. \A j \in 0 .. (d + 3) - 1 : buffer[j] # NUL
      BY <2>1, <3>1, <3>2
    <3> QED BY <2>2, <3>1, <3>3
  <2>3. CASE ~ marked
    BY <2>1, <2>3 DEF Shape
  <2> QED BY <2>2, <2>3
<1>3. e \in DOMAIN buffer /\ End(e)
  BY <1>1, <1>2
<1> HIDE DEF e, z
<1>4. e = z
  <2>1. e \in Nat
    BY <1>1, <1>3
  <2>2. ~ (e \in 0 .. z - 1) /\ ~ (z \in 0 .. e - 1)
    BY <1>2, <1>3
  <2> QED BY <1>1, <2>1, <2>2
<1> HIDE DEF End
<1>5. CString(buffer) = [k \in 1 .. z |-> buffer[k - 1]]
  BY <1>4 DEF CString, e, End
<1>6. \A k \in 1 .. d : buffer[k - 1] = <<b, k>>
  <2>1. \A k \in 1 .. d : k - 1 \in 0 .. d - 1 /\ (k - 1) + 1 = k
    BY <1>1
  <2> QED BY <2>1 DEF Shape
<1> DEFINE text == [k \in 1 .. z |-> buffer[k - 1]]
<1>7. Len(text) = z /\ \A k \in 1 .. d : text[k] = <<b, k>>
  BY <1>1, <1>6 DEF z
<1>8. CASE marked
  <2>1. z = d + 3
    BY <1>8 DEF z
  <2>2. /\ text[d + 1] = buffer[d] /\ text[d + 2] = buffer[d + 1]
        /\ text[d + 3] = buffer[d + 2]
    BY <1>1, <2>1
  <2>3. text[d + 1] = Dot /\ text[d + 2] = Dot /\ text[d + 3] = Dot
    BY <1>8, <2>2 DEF Shape
  <2> HIDE DEF text
  <2>4. \A k \in (d + 3) - 2 .. d + 3 : k = d + 1 \/ k = d + 2 \/ k = d + 3
    BY <1>1
  <2>5. Marked(text)
    BY <1>1, <1>7, <2>1, <2>3, <2>4 DEF Marked
  <2> QED BY <1>5, <1>7, <1>8, <2>1, <2>5 DEF text
<1>9. CASE ~ marked
  <2>1. z = d
    BY <1>9 DEF z
  <2> HIDE DEF text
  <2>2. d >= 3 => text[d] # Dot
    <3>1. d >= 3 => text[d] = <<b, d>>
      BY <1>1, <1>7
    <3> QED BY <3>1, Names
  <2>3. ~ Marked(text)
    <3>1. d \in d - 2 .. d
      BY <1>1
    <3> QED BY <1>1, <1>7, <2>1, <2>2, <3>1 DEF Marked
  <2> QED BY <1>5, <1>7, <1>9, <2>1, <2>3 DEF text
<1> QED
  BY <1>8, <1>9

(* What streaming does not disturb *)
LEMMA StreamContent ==
    ASSUME CInv, NEW b \in Builders, NEW n \in Nat, Stream(b, n), IInv',
           BufferFresh',
           fresh = {b} => IF Elided' THEN Cut(b)' ELSE Filled(b)'
    PROVE  CInv'
<1>1. /\ status[b] = "open" /\ fresh' = fresh \cup {b}
      /\ streamed' = [streamed EXCEPT ![b] = @ + n]
      /\ streamed \in [Builders -> Nat] /\ fresh \subseteq Builders
      /\ UNCHANGED <<time, status, logged>>
  BY DEF Stream, CInv, IInv, TypeOK
<1>2. \A c \in Builders : streamed'[c] \in Nat /\ streamed[c] <= streamed'[c]
  BY <1>1
<1>3. FreshUsed'
  BY <1>1 DEF CInv, FreshUsed
<1>4. AloneWhole'
  <2>1. time \in fresh
    BY <1>1 DEF CInv, IInv, HasTime, FreshUsed
  <2>2. ASSUME NEW c \in Builders, fresh' = {c} PROVE c = b /\ fresh = {b}
    BY <1>1, <2>1, <2>2
  <2> QED BY <2>2 DEF AloneWhole
<1>5. NothingStale'
  <2>1. ASSUME NEW i \in DOMAIN logged, NEW k \in DOMAIN logged[i].text,
               logged[i].text[k] # Dot
        PROVE  \E c \in logged[i].fresh :
                  \E m \in 1 .. streamed'[c] : logged[i].text[k] = <<c, m>>
    <3>1. PICK c \in logged[i].fresh :
             \E m \in 1 .. streamed[c] : logged[i].text[k] = <<c, m>>
      BY <2>1 DEF CInv, NothingStale
    <3>2. PICK m \in 1 .. streamed[c] : logged[i].text[k] = <<c, m>>
      BY <3>1
    <3>3. c \in Builders
      <4>1. logged[i] \in Entries
        BY DEF CInv, IInv, TypeOK
      <4> QED BY <4>1 DEF Entries
    <3>4. m \in 1 .. streamed'[c]
      BY <1>1, <1>2, <3>2, <3>3
    <3> QED BY <3>2, <3>4
  <2> QED BY <1>1, <2>1 DEF NothingStale
<1>6. PrefixDelivered' /\ CutIsMarked'
  BY <1>1 DEF CInv, PrefixDelivered, CutIsMarked
<1> QED
  BY <1>3, <1>4, <1>5, <1>6 DEF CInv

LEMMA SourcedStays ==
    ASSUME CInv, NEW b \in Builders, NEW n \in Nat, Stream(b, n)
    PROVE  /\ \A c : Sourced(c, fresh, streamed)
                    => Sourced(c, fresh', streamed')
           /\ \A k \in 1 .. n : Sourced(<<b, streamed[b] + k>>, fresh', streamed')
           /\ Sourced(NUL, fresh', streamed') /\ Sourced(Dot, fresh', streamed')
<1>1. /\ fresh' = fresh \cup {b} /\ fresh \subseteq Builders
      /\ streamed' = [streamed EXCEPT ![b] = @ + n]
      /\ streamed \in [Builders -> Nat]
  BY DEF Stream, CInv, IInv, TypeOK
<1>2. ASSUME NEW c, Sourced(c, fresh, streamed)
      PROVE  Sourced(c, fresh', streamed')
  <2>1. CASE c \in {NUL, Dot}
    BY <2>1 DEF Sourced
  <2>2. CASE \E a \in fresh : \E m \in 1 .. streamed[a] : c = <<a, m>>
    <3>1. PICK a \in fresh : \E m \in 1 .. streamed[a] : c = <<a, m>>
      BY <2>2
    <3>2. PICK m \in 1 .. streamed[a] : c = <<a, m>>
      BY <3>1
    <3>3. a \in fresh' /\ m \in 1 .. streamed'[a]
      BY <1>1
    <3> QED BY <3>2, <3>3 DEF Sourced
  <2> QED BY <1>2, <2>1, <2>2 DEF Sourced
<1>3. ASSUME NEW k \in 1 .. n
      PROVE  Sourced(<<b, streamed[b] + k>>, fresh', streamed')
  <2>1. b \in fresh' /\ streamed[b] + k \in 1 .. streamed'[b]
    BY <1>1
  <2> QED BY <2>1 DEF Sourced
<1> QED
  BY <1>2, <1>3 DEF Sourced

(* The k-th of the cells written is the k-th character streamed, or a NUL  *)
(* that snprintf has put on the last cell before MAX_MESSAGE_SIZE.         *)
Proper(b, cells, k) ==
    \/ cells[k] = <<b, streamed[b] + k>>
    \/ silent'[b] /\ offset + k = MaxMessageSize /\ cells[k] = NUL

(* n characters that fit *)
LEMMA ExtendContent ==
    ASSUME CInv, IInv', NEW b \in Builders, NEW n \in Nat, Stream(b, n),
           ~ Elided, NEW cells \in Seq(Cells), n <= Free, n <= Len(cells),
           Extend(cells, n), silent[b] => silent'[b],
           \A k \in 1 .. n : Proper(b, cells, k)
    PROVE  CInv'
<1>1. /\ offset \in 0 .. MaxMessageSize /\ Free = MaxMessageSize - offset
      /\ streamed[b] \in Nat /\ streamed'[b] = streamed[b] + n
      /\ DOMAIN message = 0 .. StackBufferSize - 1
      /\ MaxMessageSize \in Nat /\ Len(cells) \in Nat
      /\ StackBufferSize = MaxMessageSize + 4
  BY Sizes DEF CInv, IInv, TypeOK, Elided, Free, Stream
<1>2. offset' = offset + n /\ offset + n <= MaxMessageSize
  BY <1>1 DEF Extend
<1>3. \A i \in 0 .. offset - 1 : message'[i] = message[i]
  BY <1>1 DEF Extend, Put
<1>4. \A k \in 1 .. n : message'[offset + k - 1] = cells[k]
  <2>1. ASSUME NEW k \in 1 .. n PROVE message'[offset + k - 1] = cells[k]
    <3>1. /\ offset + k - 1 \in 0 .. StackBufferSize - 1
          /\ offset + k - 1 \in offset .. offset + Len(cells) - 1
          /\ (offset + k - 1) - offset + 1 = k
      BY <1>1, <1>2
    <3> QED BY <1>1, <3>1 DEF Extend, Put
  <2> QED BY <2>1
<1>5. \A i \in offset .. offset + n - 1 :
         \E k \in 1 .. n : i = offset + k - 1 /\ message'[i] = cells[k]
  <2>1. ASSUME NEW i \in offset .. offset + n - 1
        PROVE  i - offset + 1 \in 1 .. n /\ i = offset + (i - offset + 1) - 1
    BY <1>1
  <2> QED BY <1>4, <2>1
<1>6. BufferFresh'
  <2> SUFFICES ASSUME NEW i \in 0 .. StackBufferSize - 1, i < offset + n
               PROVE  \/ Sourced(message'[i], fresh', streamed')
                      \/ \E j \in 0 .. i - 1 : message'[j] = NUL
    BY <1>2 DEF BufferFresh, StackBufferSize
  <2>1. CASE i < offset
    <3>1. /\ message'[i] = message[i]
          /\ \A j \in 0 .. i - 1 : message'[j] = message[j]
      BY <1>1, <1>3, <2>1
    <3>2. Sourced(message[i], fresh, streamed) \/ \E j \in 0 .. i - 1 : message[j] = NUL
      BY <2>1 DEF CInv, BufferFresh
    <3> QED BY <3>1, <3>2, SourcedStays
  <2>2. CASE ~ (i < offset)
    <3>1. PICK k \in 1 .. n : i = offset + k - 1 /\ message'[i] = cells[k]
      BY <1>1, <1>5, <2>2
    <3> QED BY <3>1, SourcedStays DEF Proper
  <2> QED BY <2>1, <2>2
<1>7. ASSUME fresh = {b} PROVE Filled(b)' /\ ~ Elided'
  <2>1. Filled(b)
    BY <1>7 DEF CInv, AloneWhole
  <2>2. /\ offset' <= streamed'[b]
        /\ offset' = streamed'[b] \/ (silent'[b] /\ offset' = MaxMessageSize)
    BY <1>1, <1>2, <2>1 DEF Filled
  <2>3. ASSUME NEW i \in 0 .. offset' - 1
        PROVE  \/ message'[i] = <<b, i + 1>>
               \/ silent'[b] /\ i = MaxMessageSize - 1 /\ message'[i] = NUL
    <3>1. CASE i < offset
      <4>1. i \in 0 .. offset - 1
        BY <1>1, <3>1
      <4> QED BY <1>3, <2>1, <4>1 DEF Filled
    <3>2. CASE ~ (i < offset)
      <4>1. PICK k \in 1 .. n : i = offset + k - 1 /\ message'[i] = cells[k]
        BY <1>1, <1>2, <1>5, <3>2
      <4>2. offset = streamed[b]
        BY <1>1, <1>2, <2>1, <4>1 DEF Filled
      <4>3. streamed[b] + k = i + 1
            /\ (offset + k = MaxMessageSize => i = MaxMessageSize - 1)
        <5>1. i = offset + k - 1
          BY <4>1
        <5>2. offset \in Nat /\ MaxMessageSize \in Nat /\ k \in Nat
          BY <1>1
        <5> QED BY <4>2, <5>1, <5>2
      <4> QED BY <4>1, <4>3 DEF Proper
    <3> QED BY <3>1, <3>2
  <2>4. ~ Elided'
    BY <1>1, <1>2 DEF Elided
  <2> QED BY <2>2, <2>3, <2>4 DEF Filled
<1> QED
  BY <1>6, <1>7, StreamContent

(* n characters of which some do not fit: the dots are at index at, behind *)
(* what has been written or where that began.                              *)
LEMMA ElideContent ==
    ASSUME CInv, IInv', NEW b \in Builders, NEW n \in Nat, Stream(b, n),
           ~ Elided, NEW cells \in Seq(Cells), Len(cells) <= Free,
           NEW at \in {offset, offset + Len(cells)}, Elide(cells, at),
           at - offset < n, silent[b] => silent'[b],
           \A k \in 1 .. at - offset : Proper(b, cells, k)
    PROVE  CInv'
<1>1. /\ offset \in 0 .. MaxMessageSize /\ Free = MaxMessageSize - offset
      /\ streamed[b] \in Nat /\ streamed'[b] = streamed[b] + n
      /\ DOMAIN message = 0 .. StackBufferSize - 1
      /\ MaxMessageSize \in Nat /\ Len(cells) \in Nat
      /\ StackBufferSize = MaxMessageSize + 4
      /\ at \in offset .. MaxMessageSize /\ at \in Nat
  BY Sizes DEF CInv, IInv, TypeOK, Elided, Free, Stream
<1>2. offset' = StackBufferSize /\ Elided'
  BY <1>1 DEF Elide, Elided
<1>3. \A i \in 0 .. offset - 1 : message'[i] = message[i]
  BY <1>1 DEF Elide, Put
<1>4. \A i \in offset .. at - 1 :
         /\ i - offset + 1 \in 1 .. at - offset
         /\ message'[i] = cells[i - offset + 1]
  BY <1>1 DEF Elide, Put
<1>5. /\ message'[at] = Dot /\ message'[at + 1] = Dot
      /\ message'[at + 2] = Dot /\ message'[at + 3] = NUL
  <2> DEFINE put == Put(offset, cells)
  <2>1. message' = [i \in 0 .. StackBufferSize - 1 |->
                       IF i \in at .. at + 3 THEN Dots[i - at + 1] ELSE put[i]]
    BY <1>1 DEF Elide
  <2> HIDE DEF put
  <2>2. ASSUME NEW k \in 0 .. 3 PROVE message'[at + k] = Dots[k + 1]
    <3>1. /\ at + k \in 0 .. StackBufferSize - 1 /\ at + k \in at .. at + 3
          /\ (at + k) - at + 1 = k + 1
      BY <1>1
    <3> QED BY <2>1, <3>1
  <2>3. /\ message'[at + 0] = Dots[1] /\ message'[at + 1] = Dots[2]
        /\ message'[at + 2] = Dots[3] /\ message'[at + 3] = Dots[4]
    BY <2>2
  <2>4. Dots[1] = Dot /\ Dots[2] = Dot /\ Dots[3] = Dot /\ Dots[4] = NUL
    BY DEF Dots
  <2>5. at + 0 = at
    BY <1>1
  <2> HIDE DEF Dots
  <2> QED BY <2>3, <2>4, <2>5
<1>6. BufferFresh'
  <2> SUFFICES ASSUME NEW i \in 0 .. StackBufferSize - 1
               PROVE  \/ Sourced(message'[i], fresh', streamed')
                      \/ \E j \in 0 .. i - 1 : message'[j] = NUL
    BY DEF BufferFresh, StackBufferSize
  <2>1. CASE i < offset
    <3>1. /\ message'[i] = message[i]
          /\ \A j \in 0 .. i - 1 : message'[j] = message[j]
      BY <1>1, <1>3, <2>1
    <3>2. Sourced(message[i], fresh, streamed) \/ \E j \in 0 .. i - 1 : message[j] = NUL
      BY <2>1 DEF CInv, BufferFresh
    <3> QED BY <3>1, <3>2, SourcedStays
  <2>2. CASE i \in offset .. at - 1
    <3>1. /\ i - offset + 1 \in 1 .. n
          /\ message'[i] = cells[i - offset + 1]
          /\ Proper(b, cells, i - offset + 1)
      <4>1. /\ i - offset + 1 \in 1 .. at - offset
            /\ message'[i] = cells[i - offset + 1]
        BY <1>4, <2>2
      <4>2. 1 .. at - offset \subseteq 1 .. n
        BY <1>1
      <4> QED BY <4>1, <4>2
    <3> QED BY <3>1, SourcedStays DEF Proper
  <2>3. CASE i \in at .. at + 3
    <3>1. i = at \/ i = at + 1 \/ i = at + 2 \/ i = at + 3
      <4>1. at \in Nat
        BY <1>1
      <4> QED BY <2>3, <4>1
    <3>2. message'[i] \in {Dot, NUL}
      BY <1>5, <3>1
    <3> QED BY <3>2, SourcedStays
  <2>4. CASE i > at + 3
    <3>1. at + 3 \in 0 .. i - 1
      BY <1>1, <2>4
    <3> QED BY <1>5, <3>1
  <2> QED BY <1>1, <2>1, <2>2, <2>3, <2>4
<1>7. ASSUME fresh = {b} PROVE Cut(b)'
  <2>1. Filled(b)
    BY <1>7 DEF CInv, AloneWhole
  <2>2. at <= streamed'[b] /\ (silent'[b] \/ at < streamed'[b])
    BY <1>1, <2>1 DEF Filled
  <2>3. ASSUME NEW i \in 0 .. at - 1
        PROVE  \/ message'[i] = <<b, i + 1>>
               \/ silent'[b] /\ i = MaxMessageSize - 1 /\ message'[i] = NUL
    <3>1. CASE i < offset
      <4>1. i \in 0 .. offset - 1
        BY <1>1, <3>1
      <4> QED BY <1>3, <2>1, <4>1 DEF Filled
    <3>2. CASE ~ (i < offset)
      <4> DEFINE k == i - offset + 1
      <4>1. k \in 1 .. at - offset /\ message'[i] = cells[k]
        BY <1>1, <1>4, <3>2
      <4>2. offset = streamed[b]
        BY <1>1, <2>1, <3>2 DEF Filled
      <4>3. /\ streamed[b] + k = i + 1
            /\ offset + k = MaxMessageSize => i = MaxMessageSize - 1
        <5>1. i \in Nat /\ offset \in Nat /\ MaxMessageSize \in Nat
          BY <1>1
        <5>2. offset + k = i + 1
          BY <5>1
        <5> HIDE DEF k
        <5> QED BY <4>2, <5>1, <5>2
      <4> HIDE DEF k
      <4> QED BY <4>1, <4>3 DEF Proper
    <3> QED BY <3>1, <3>2
  <2>4. CASE \A i \in 0 .. at - 1 : message'[i] = <<b, i + 1>>
    <3>1. Shape(message', b, at, TRUE)
      BY <1>5, <2>4 DEF Shape
    <3>2. /\ at \in 0 .. MaxMessageSize /\ TRUE \in BOOLEAN
          /\ at <= streamed'[b]
          /\ silent'[b] \/ (TRUE /\ at < streamed'[b])
      BY <1>1, <2>2
    <3> QED BY <3>1, <3>2, Zenon DEF Cut
  <2>5. CASE \E i \in 0 .. at - 1 : message'[i] # <<b, i + 1>>
    <3> DEFINE d == MaxMessageSize - 1
    <3>1. silent'[b] /\ d \in 0 .. at - 1 /\ message'[d] = NUL
      BY <2>3, <2>5
    <3>2. at = MaxMessageSize /\ d \in 0 .. MaxMessageSize
      BY <1>1, <3>1
    <3>3. \A i \in 0 .. d - 1 : message'[i] = <<b, i + 1>>
      BY <1>1, <2>3, <3>2
    <3>4. Shape(message', b, d, FALSE)
      BY <3>1, <3>3 DEF Shape
    <3>5. d <= streamed'[b]
      BY <1>1, <2>2, <3>2
    <3> HIDE DEF d
    <3> QED BY <3>1, <3>2, <3>4, <3>5 DEF Cut
  <2> QED BY <2>4, <2>5
<1> QED
  BY <1>2, <1>6, <1>7, StreamContent

LEMMA DroppedContent ==
    ASSUME CInv, IInv', NEW b \in Builders, NEW n \in Nat, AppendDropped(b, n)
    PROVE  CInv'
<1>1. /\ Stream(b, n) /\ Elided /\ UNCHANGED <<message, offset, silent>>
      /\ streamed[b] \in Nat /\ streamed'[b] = streamed[b] + n
  BY DEF AppendDropped, Stream, CInv, IInv, TypeOK
<1>2. BufferFresh'
  <2>1. \A c : Sourced(c, fresh, streamed) => Sourced(c, fresh', streamed')
    BY <1>1, SourcedStays
  <2> QED BY <1>1, <2>1 DEF CInv, BufferFresh, StackBufferSize
<1>3. ASSUME fresh = {b} PROVE Cut(b)' /\ Elided'
  <2>1. Cut(b) /\ Elided'
    BY <1>1, <1>3 DEF CInv, AloneWhole, Elided
  <2>2. PICK d \in 0 .. MaxMessageSize, marked \in BOOLEAN :
           /\ Shape(message, b, d, marked)
           /\ d <= streamed[b]
           /\ silent[b] \/ (marked /\ d < streamed[b])
    BY <2>1 DEF Cut
  <2>3. d <= streamed'[b] /\ (d < streamed[b] => d < streamed'[b])
    BY <1>1, <2>2, Sizes
  <2>4. Shape(message', b, d, marked)
    BY <1>1, <2>2
  <2>5. silent'[b] \/ (marked /\ d < streamed'[b])
    BY <1>1, <2>2, <2>3
  <2> QED BY <2>1, <2>3, <2>4, <2>5, Zenon DEF Cut
<1> QED
  BY <1>1, <1>2, <1>3, StreamContent

(* Characters of b as the cells that are written *)
LEMMA CharsProper ==
    ASSUME CInv, NEW b \in Builders, NEW n \in Nat, ~ Elided
    PROVE  /\ Free \in 0 .. MaxMessageSize /\ offset \in 0 .. MaxMessageSize
           /\ offset + Free = MaxMessageSize
           /\ Chars(b, n) \in Seq(Cells) /\ Len(Chars(b, n)) = n
           /\ \A k \in 1 .. n : Proper(b, Chars(b, n), k)
<1>1. \A k \in 1 .. n : Chars(b, n)[k] = <<b, streamed[b] + k>>
  BY DEF Chars
<1>2. offset \in 0 .. MaxMessageSize /\ Free = MaxMessageSize - offset
  BY Sizes DEF CInv, IInv, TypeOK, Elided, Free
<1> QED
  BY <1>1, <1>2, FreeChars, Sizes DEF CInv, Proper

LEMMA CharactersContent ==
    ASSUME CInv, IInv', NEW b \in Builders, NEW n \in Nat, Characters(b, n)
    PROVE  CInv'
<1>1. Stream(b, n) /\ ~ Elided /\ silent' = silent
  BY DEF Characters
<1>2. CASE n <= Free /\ Extend(Chars(b, n), n)
  <2>1. /\ Chars(b, n) \in Seq(Cells) /\ Len(Chars(b, n)) = n
        /\ \A k \in 1 .. n : Proper(b, Chars(b, n), k)
    BY <1>1, CharsProper
  <2> QED BY <1>1, <1>2, <2>1, ExtendContent
<1>3. CASE Free < n /\ Elide(Chars(b, Free), MaxMessageSize)
  <2> DEFINE cells == Chars(b, Free)
  <2>1. /\ cells \in Seq(Cells) /\ Len(cells) = Free
        /\ \A k \in 1 .. Free : Proper(b, cells, k)
        /\ offset + Free = MaxMessageSize /\ Free \in Nat /\ offset \in Nat
    <3>1. Free \in Nat /\ offset \in Nat /\ offset + Free = MaxMessageSize
      BY <1>1, CharsProper
    <3> QED BY <1>1, <3>1, CharsProper
  <2> HIDE DEF cells
  <2>2. /\ MaxMessageSize \in {offset, offset + Len(cells)}
        /\ MaxMessageSize - offset = Free
    BY <2>1
  <2>3. Elide(cells, MaxMessageSize)
    BY <1>3 DEF cells
  <2> HIDE DEF Free
  <2> QED BY <1>1, <1>3, <2>1, <2>2, <2>3, ElideContent
<1>4. ~ (n <= Free) => Free < n
  BY <1>1, CharsProper
<1> QED
  BY <1>2, <1>3, <1>4 DEF Characters

(* The dots where the writing would begin *)
LEMMA ElideAtOffset ==
    ASSUME CInv, IInv', NEW b \in Builders, NEW n \in Nat, Stream(b, n),
           ~ Elided, NEW cells \in Seq(Cells), Len(cells) <= Free,
           Elide(cells, offset), 0 < n, silent[b] => silent'[b]
    PROVE  CInv'
<1>1. /\ offset \in {offset, offset + Len(cells)} /\ offset - offset = 0
      /\ 1 .. offset - offset = {}
  BY CharsProper
<1> QED
  BY <1>1, ElideContent

LEMMA AppendStringContent ==
    ASSUME CInv, IInv', NEW b \in Builders, NEW n \in Nat, AppendString(b, n)
    PROVE  CInv'
<1>1. Stream(b, n) /\ ~ Elided /\ silent' = silent
  BY DEF AppendString
<1>2. CASE n <= Free /\ Extend(Chars(b, n), n)
  <2>1. /\ Chars(b, n) \in Seq(Cells) /\ Len(Chars(b, n)) = n
        /\ \A k \in 1 .. n : Proper(b, Chars(b, n), k)
    BY <1>1, CharsProper
  <2> QED BY <1>1, <1>2, <2>1, ExtendContent
<1>3. CASE ~ (n <= Free) /\ Elide(Chars(b, Free), offset)
  <2>1. Free \in Nat /\ 0 < n
    BY <1>1, <1>3, CharsProper
  <2>2. Chars(b, Free) \in Seq(Cells) /\ Len(Chars(b, Free)) <= Free
    BY <1>1, <2>1, CharsProper
  <2> QED BY <1>1, <1>3, <2>1, <2>2, ElideAtOffset
<1> QED
  BY <1>2, <1>3 DEF AppendString

(* What snprintf writes: the value, or as much as fits, and a NUL *)
LEMMA PrintedCells ==
    ASSUME CInv, NEW b \in Builders, NEW n \in Nat, ~ Elided, 0 < Free
    PROVE  /\ Printed(b, n) \in Seq(Cells)
           /\ Len(Printed(b, n)) = IF n < Free THEN n + 1 ELSE Free
           /\ \A k \in 1 .. n :
                 k < Free => Printed(b, n)[k] = <<b, streamed[b] + k>>
           /\ Free <= n => Printed(b, n)[Free] = NUL
<1> DEFINE size == Least(n, Free - 1)
<1>1. Free \in Nat /\ Free >= 1
  BY CharsProper
<1>2. /\ size \in Nat /\ size <= n /\ size <= Free - 1
      /\ n < Free => size = n
      /\ Free <= n => size = Free - 1
  <2> HIDE DEF Free
  <2> QED BY <1>1 DEF Least
<1> HIDE DEF size
<1>3. /\ Chars(b, size) \in Seq(Cells) /\ Len(Chars(b, size)) = size
      /\ \A k \in 1 .. size : Chars(b, size)[k] = <<b, streamed[b] + k>>
  BY <1>2, CharsProper DEF Chars
<1>4. NUL \in Cells /\ Printed(b, n) = Append(Chars(b, size), NUL)
  BY DEF Cells, Printed, size
<1>5. /\ Printed(b, n) \in Seq(Cells) /\ Len(Printed(b, n)) = size + 1
      /\ \A k \in 1 .. size : Printed(b, n)[k] = <<b, streamed[b] + k>>
      /\ Printed(b, n)[size + 1] = NUL
  BY <1>2, <1>3, <1>4
<1>6. \A k \in 1 .. n : k < Free => k \in 1 .. size
  BY <1>1, <1>2
<1>7. Free <= n => size + 1 = Free
  BY <1>1, <1>2
<1>8. size + 1 = IF n < Free THEN n + 1 ELSE Free
  BY <1>1, <1>2
<1> QED
  BY <1>5, <1>6, <1>7, <1>8

LEMMA AppendFormattedContent ==
    ASSUME CInv, IInv', NEW b \in Builders, NEW n \in Nat, AppendFormatted(b, n)
    PROVE  CInv'
<1>1. /\ n > 0 /\ Stream(b, n) /\ ~ Elided
      /\ silent' = [silent EXCEPT ![b] = @ \/ (0 < Free /\ Free <= n)]
      /\ silent \in [Builders -> BOOLEAN]
  BY DEF AppendFormatted, CInv, IInv, TypeOK
<1>2. /\ silent[b] => silent'[b]
      /\ 0 < Free /\ Free <= n => silent'[b]
  BY <1>1
<1>3. Free \in Nat /\ offset \in Nat /\ offset + Free = MaxMessageSize
  BY <1>1, CharsProper
<1>4. CASE Free = 0 /\ Elide(<<>>, offset)
  <2>1. <<>> \in Seq(Cells) /\ Len(<<>>) <= Free
    BY <1>4
  <2> QED BY <1>1, <1>2, <1>4, <2>1, ElideAtOffset
<1> DEFINE cells == Printed(b, n)
<1>5. ASSUME 0 < Free
      PROVE  /\ cells \in Seq(Cells)
             /\ Len(cells) = IF n < Free THEN n + 1 ELSE Free
             /\ \A k \in 1 .. n : k < Free => Proper(b, cells, k)
             /\ Free <= n => Proper(b, cells, Free)
  <2>1. Free <= n => cells[Free] = NUL /\ offset + Free = MaxMessageSize
    BY <1>1, <1>3, <1>5, PrintedCells
  <2> QED BY <1>1, <1>2, <1>5, <2>1, PrintedCells DEF Proper
<1> HIDE DEF cells, Free
<1>6. CASE 0 < Free /\ n <= Free /\ Extend(cells, n)
  <2>1. ASSUME NEW k \in 1 .. n PROVE Proper(b, cells, k)
    <3>1. k < Free \/ (k = Free /\ Free <= n)
      BY <1>3, <1>6
    <3> QED BY <1>5, <1>6, <3>1
  <2>2. cells \in Seq(Cells) /\ n <= Len(cells)
    BY <1>3, <1>5, <1>6
  <2> QED BY <1>1, <1>2, <1>6, <2>1, <2>2, ExtendContent
<1>7. CASE 0 < Free /\ Free < n /\ Elide(cells, MaxMessageSize)
  <2>1. ASSUME NEW k \in 1 .. Free PROVE Proper(b, cells, k)
    <3>1. k \in 1 .. n /\ (k < Free \/ (k = Free /\ Free <= n))
      BY <1>3, <1>7
    <3> QED BY <1>5, <1>7, <3>1
  <2>2. cells \in Seq(Cells) /\ Len(cells) = Free
    BY <1>3, <1>5, <1>7
  <2>3. /\ MaxMessageSize \in {offset, offset + Len(cells)}
        /\ MaxMessageSize - offset = Free /\ Len(cells) <= Free
    BY <1>3, <2>2
  <2> QED BY <1>1, <1>2, <1>7, <2>1, <2>2, <2>3, ElideContent
<1> QED
  BY <1>4, <1>6, <1>7 DEF AppendFormatted, cells

LEMMA AppendUnformattableContent ==
    ASSUME CInv, IInv', NEW b \in Builders, NEW n \in Nat,
           AppendUnformattable(b, n)
    PROVE  CInv'
<1>1. n > 0 /\ Stream(b, n) /\ ~ Elided /\ silent' = silent /\ Elide(<<>>, offset)
  BY DEF AppendUnformattable
<1>2. <<>> \in Seq(Cells) /\ Len(<<>>) <= Free
  BY <1>1, CharsProper
<1> QED
  BY <1>1, <1>2, ElideAtOffset

LEMMA ConstructContent ==
    ASSUME CInv, IInv', NEW b \in Builders, NEW n \in Nat, Construct(b, n)
    PROVE  CInv'
<1> DEFINE m == Least(MaxMessageSize, n)
<1>1. /\ status[b] = "unused" /\ status' = [status EXCEPT ![b] = "open"]
      /\ time' = b /\ offset' = m /\ message' = Put(0, Chars(b, m))
      /\ streamed' = [streamed EXCEPT ![b] = n]
      /\ silent' = [silent EXCEPT ![b] = n > MaxMessageSize]
      /\ fresh' = {b} /\ logged' = logged
      /\ status \in [Builders -> {"unused", "open", "sent"}]
      /\ streamed \in [Builders -> Nat] /\ silent \in [Builders -> BOOLEAN]
      /\ DOMAIN message = 0 .. StackBufferSize - 1
      /\ StackBufferSize = MaxMessageSize + 4 /\ MaxMessageSize \in Nat
  BY Sizes DEF Construct, CInv, IInv, TypeOK
<1>2. m \in 0 .. MaxMessageSize /\ m <= n /\ (m = n \/ m = MaxMessageSize)
      /\ (~ (n > MaxMessageSize) => m = n)
  BY Sizes DEF Least
<1> HIDE DEF m
<1>3. streamed[b] = 0
  BY <1>1 DEF CInv, FreshUsed
<1>4. ASSUME NEW i \in 0 .. m - 1 PROVE message'[i] = <<b, i + 1>>
  <2>1. /\ i \in DOMAIN message /\ i \in 0 .. 0 + m - 1
        /\ i - 0 + 1 \in 1 .. m /\ 0 + (i - 0 + 1) = i + 1
    BY <1>1, <1>2
  <2>2. /\ Len(Chars(b, m)) = m
        /\ Chars(b, m)[i - 0 + 1] = <<b, streamed[b] + (i - 0 + 1)>>
    BY <1>2, <2>1 DEF Chars
  <2> QED BY <1>1, <1>3, <2>1, <2>2 DEF Put
<1>5. FreshUsed'
  <2>1. \A i \in DOMAIN logged : \A c \in logged[i].fresh : c \in Builders
    <3>1. \A i \in DOMAIN logged : logged[i] \in Entries
      BY DEF CInv, IInv, TypeOK
    <3> QED BY <3>1 DEF Entries
  <2>2. \A c \in Builders : status[c] # "unused" => status'[c] # "unused"
    BY <1>1
  <2>3. \A c \in Builders : status'[c] = "unused" => streamed'[c] = 0
    BY <1>1 DEF CInv, FreshUsed
  <2>4. status'[b] # "unused"
    BY <1>1
  <2> QED BY <1>1, <2>1, <2>2, <2>3, <2>4 DEF CInv, FreshUsed
<1>6. BufferFresh'
  <2>1. ASSUME NEW i \in 0 .. StackBufferSize - 1, i < m
        PROVE  Sourced(message'[i], fresh', streamed')
    <3>1. i \in 0 .. m - 1 /\ i + 1 \in 1 .. streamed'[b]
      BY <1>1, <1>2, <2>1
    <3> QED BY <1>1, <1>4, <3>1 DEF Sourced
  <2> QED BY <1>1, <2>1 DEF BufferFresh, StackBufferSize
<1>7. AloneWhole'
  <2>1. /\ m <= streamed'[b]
        /\ m = streamed'[b] \/ (silent'[b] /\ m = MaxMessageSize)
    BY <1>1, <1>2
  <2>2. Filled(b)'
    BY <1>1, <1>4, <2>1 DEF Filled
  <2>3. ~ Elided'
    BY <1>1, <1>2 DEF Elided
  <2> QED BY <1>1, <2>2, <2>3 DEF AloneWhole
<1>8. NothingStale'
  <2>1. ASSUME NEW i \in DOMAIN logged, NEW k \in DOMAIN logged[i].text,
               logged[i].text[k] # Dot
        PROVE  \E c \in logged[i].fresh :
                  \E j \in 1 .. streamed'[c] : logged[i].text[k] = <<c, j>>
    <3>1. PICK c \in logged[i].fresh :
             \E j \in 1 .. streamed[c] : logged[i].text[k] = <<c, j>>
      BY <2>1 DEF CInv, NothingStale
    <3>2. c \in Builders
      <4>1. logged[i] \in Entries
        BY DEF CInv, IInv, TypeOK
      <4> QED BY <4>1 DEF Entries
    <3>3. c # b
      BY <1>1 DEF CInv, FreshUsed
    <3>4. streamed'[c] = streamed[c]
      BY <1>1, <3>2, <3>3
    <3> QED BY <3>1, <3>4
  <2> QED BY <1>1, <2>1 DEF NothingStale
<1>9. PrefixDelivered' /\ CutIsMarked'
  BY <1>1 DEF CInv, PrefixDelivered, CutIsMarked
<1> QED
  BY <1>5, <1>6, <1>7, <1>8, <1>9 DEF CInv

(* The message of a builder that has had the buffer for itself *)
LEMMA AloneEntry ==
    ASSUME CInv, NEW b \in Builders, Destroy(b), fresh = {b},
           message' \in Buffers
    PROVE  \E d \in 0 .. MaxMessageSize, marked \in BOOLEAN :
              /\ Shape(message', b, d, marked)
              /\ d <= streamed[b]
              /\ silent[b] \/ (marked <=> d < streamed[b])
<1>1. /\ offset \in 0 .. MaxMessageSize \cup {StackBufferSize}
      /\ message' = IF offset < StackBufferSize
                    THEN [message EXCEPT ![offset] = NUL] ELSE message
      /\ DOMAIN message = 0 .. StackBufferSize - 1
      /\ StackBufferSize = MaxMessageSize + 4 /\ MaxMessageSize \in Nat
      /\ streamed[b] \in Nat /\ MaxMessageSize >= 1
  BY Sizes DEF Destroy, CInv, IInv, TypeOK
<1>2. CASE Elided
  <2>1. message' = message
    BY <1>1, <1>2 DEF Elided
  <2>2. PICK d \in 0 .. MaxMessageSize, marked \in BOOLEAN :
           /\ Shape(message, b, d, marked)
           /\ d <= streamed[b]
           /\ silent[b] \/ (marked /\ d < streamed[b])
    BY <1>2 DEF CInv, AloneWhole, Cut
  <2>3. silent[b] \/ (marked <=> d < streamed[b])
    BY <2>2
  <2> QED BY <2>1, <2>2, <2>3
<1>3. CASE ~ Elided
  <2>1. offset \in 0 .. MaxMessageSize /\ offset < StackBufferSize /\ Filled(b)
    BY <1>1, <1>3 DEF Elided, CInv, AloneWhole
  <2>2. /\ message'[offset] = NUL
        /\ \A i \in 0 .. offset - 1 : message'[i] = message[i]
    BY <1>1, <2>1
  <2>3. CASE \A i \in 0 .. offset - 1 : message[i] = <<b, i + 1>>
    <3>1. Shape(message', b, offset, FALSE)
      BY <2>2, <2>3 DEF Shape
    <3>2. /\ FALSE \in BOOLEAN /\ offset <= streamed[b]
          /\ silent[b] \/ (FALSE <=> offset < streamed[b])
      BY <1>1, <2>1 DEF Filled
    <3> QED BY <2>1, <3>1, <3>2, Zenon
  <2>4. CASE \E i \in 0 .. offset - 1 : message[i] # <<b, i + 1>>
    <3> DEFINE d == MaxMessageSize - 1
    <3>1. silent[b] /\ d \in 0 .. offset - 1 /\ message[d] = NUL
      BY <2>1, <2>4 DEF Filled
    <3>2. \A i \in 0 .. d - 1 : message'[i] = <<b, i + 1>>
      BY <1>1, <2>1, <2>2, <3>1 DEF Filled
    <3>3. message'[d] = NUL
      BY <2>2, <3>1
    <3>4. Shape(message', b, d, FALSE)
      BY <3>2, <3>3 DEF Shape
    <3>5. d \in 0 .. MaxMessageSize /\ d <= streamed[b] /\ FALSE \in BOOLEAN
      BY <1>1, <2>1, <3>1 DEF Filled
    <3> HIDE DEF d
    <3> QED BY <3>1, <3>4, <3>5, Zenon
  <2> QED BY <2>3, <2>4
<1> QED
  BY <1>2, <1>3

(* No cell of a C string is a NUL. *)
LEMMA CStringCells ==
    ASSUME NEW buffer \in Buffers, NEW z \in 0 .. StackBufferSize - 1,
           buffer[z] = NUL, NEW k \in DOMAIN CString(buffer)
    PROVE  /\ k \in Nat /\ k >= 1 /\ k <= z
           /\ CString(buffer)[k] = buffer[k - 1]
           /\ \A j \in 0 .. k - 1 : buffer[j] # NUL
<1> DEFINE End(i) == /\ buffer[i] = NUL
                     /\ \A j \in 0 .. i - 1 : buffer[j] # NUL
           e == CHOOSE i \in DOMAIN buffer : End(i)
<1>1. /\ CString(buffer) \in Seq(Cells) /\ Len(CString(buffer)) <= z
      /\ z \in Nat /\ DOMAIN buffer = 0 .. StackBufferSize - 1
  BY CStringType, Sizes DEF Buffers
<1>2. CString(buffer) = [i \in 1 .. e |-> buffer[i - 1]]
  BY DEF CString
<1>3. End(e) /\ e \in Nat
  <2> DEFINE Z == {i \in 0 .. StackBufferSize - 1 : buffer[i] = NUL}
  <2>1. PICK i \in Z : \A j \in Z : i <= j
    <3>1. Z \in SUBSET Nat /\ z \in Z
      BY <1>1
    <3> QED BY <3>1, LeastElement
  <2>2. \A j \in 0 .. i - 1 : j \in 0 .. StackBufferSize - 1 /\ j < i
    BY <1>1, <2>1, Sizes
  <2>3. End(i) /\ i \in DOMAIN buffer
    BY <1>1, <2>1, <2>2
  <2>4. End(e) /\ e \in DOMAIN buffer
    BY <2>3
  <2> QED BY <1>1, <2>4
<1> HIDE DEF e
<1>4. k \in 1 .. e
  BY <1>2
<1>5. k <= z
  <2>1. k \in 1 .. Len(CString(buffer)) /\ Len(CString(buffer)) \in Nat
    BY <1>1
  <2> QED BY <1>1, <2>1
<1>6. \A j \in 0 .. k - 1 : j \in 0 .. e - 1
  BY <1>3, <1>4
<1> QED
  BY <1>2, <1>3, <1>4, <1>5, <1>6

LEMMA DestroyContent ==
    ASSUME CInv, IInv', NEW b \in Builders, Destroy(b)
    PROVE  CInv'
<1> DEFINE e == Entry(b, message')
           last == Len(logged) + 1
<1>1. /\ status[b] = "open" /\ status' = [status EXCEPT ![b] = "sent"]
      /\ message' = IF offset < StackBufferSize
                    THEN [message EXCEPT ![offset] = NUL] ELSE message
      /\ logged' = Append(logged, e)
      /\ UNCHANGED <<offset, time, shells, streamed, silent, fresh>>
      /\ offset \in 0 .. MaxMessageSize \cup {StackBufferSize}
      /\ DOMAIN message = 0 .. StackBufferSize - 1
      /\ StackBufferSize = MaxMessageSize + 4 /\ MaxMessageSize \in Nat
      /\ status \in [Builders -> {"unused", "open", "sent"}]
      /\ streamed \in [Builders -> Nat]
  BY Sizes DEF Destroy, CInv, IInv, TypeOK
<1>2. message' \in Buffers /\ message'[StackBufferSize - 1] = NUL
  BY DEF IInv, TypeOK, Terminated, Buffers, StackBufferSize
<1>3. /\ e.builder = b /\ e.time = time /\ e.text = CString(message')
      /\ e.meant = streamed[b] /\ e.silent = silent[b] /\ e.fresh = fresh
  BY DEF Entry
<1>4. /\ logged \in Seq(Entries) /\ last \in Nat
      /\ DOMAIN logged' = DOMAIN logged \cup {last}
      /\ \A i \in DOMAIN logged : logged'[i] = logged[i]
      /\ logged'[last] = e
  <2>1. StackBufferSize - 1 \in 0 .. StackBufferSize - 1
    BY Sizes
  <2>2. CString(message') \in Seq(Cells) /\ time \in Builders
    BY <1>1, <1>2, <2>1, CStringType DEF CInv, IInv, HasTime
  <2>3. e \in Entries
    BY <2>2 DEF Entry, Entries, CInv, IInv, TypeOK
  <2>4. logged \in Seq(Entries)
    BY DEF CInv, IInv, TypeOK
  <2> HIDE DEF e
  <2> QED BY <1>1, <2>3, <2>4
<1> HIDE DEF e
<1> HIDE DEF last
<1>5. \A i \in 0 .. StackBufferSize - 1 : i < offset => message'[i] = message[i]
  BY <1>1
<1>6. FreshUsed'
  <2>1. \A c \in Builders : status'[c] = "unused" <=> status[c] = "unused"
    BY <1>1
  <2>2. fresh \subseteq Builders
        /\ \A i \in DOMAIN logged : logged[i].fresh \subseteq Builders
    <3>1. \A i \in DOMAIN logged : logged[i] \in Entries
      BY <1>4
    <3> QED BY <3>1 DEF Entries, CInv, IInv, TypeOK
  <2>3. ASSUME NEW i \in DOMAIN logged', NEW c \in logged'[i].fresh
        PROVE  status'[c] # "unused"
    <3>1. CASE i \in DOMAIN logged
      BY <1>4, <2>1, <2>2, <2>3, <3>1 DEF CInv, FreshUsed
    <3>2. CASE i = last
      BY <1>3, <1>4, <2>1, <2>2, <2>3, <3>2 DEF CInv, FreshUsed
    <3> QED BY <1>4, <3>1, <3>2
  <2> QED BY <1>1, <2>1, <2>2, <2>3 DEF CInv, FreshUsed
<1>7. BufferFresh'
  <2>1. ASSUME NEW i \in 0 .. StackBufferSize - 1, i < offset
        PROVE  \/ Sourced(message'[i], fresh', streamed')
               \/ \E j \in 0 .. i - 1 : message'[j] = NUL
    <3>1. /\ message'[i] = message[i]
          /\ \A j \in 0 .. i - 1 : message'[j] = message[j]
      BY <1>1, <1>5, <2>1
    <3>2. \/ Sourced(message[i], fresh, streamed)
          \/ \E j \in 0 .. i - 1 : message[j] = NUL
      BY <2>1 DEF CInv, BufferFresh
    <3> QED BY <1>1, <3>1, <3>2
  <2> QED BY <1>1, <2>1 DEF BufferFresh, StackBufferSize
<1>8. AloneWhole'
  <2>1. ASSUME NEW c \in Builders, fresh = {c}
        PROVE  IF Elided THEN Cut(c)' ELSE Filled(c)'
    <3>1. CASE Elided
      <4>1. message' = message /\ Cut(c)
        BY <1>1, <2>1, <3>1 DEF CInv, AloneWhole, Elided
      <4> QED BY <1>1, <3>1, <4>1 DEF Cut
    <3>2. CASE ~ Elided
      <4>1. Filled(c) /\ offset \in 0 .. MaxMessageSize
        BY <1>1, <2>1, <3>2 DEF CInv, AloneWhole, Elided
      <4>2. \A i \in 0 .. offset - 1 : message'[i] = message[i]
        BY <1>1, <1>5, <4>1
      <4> QED BY <1>1, <3>2, <4>1, <4>2 DEF Filled
    <3> QED BY <3>1, <3>2
  <2> QED BY <1>1, <2>1 DEF AloneWhole, Elided
<1>9. ASSUME NEW k \in DOMAIN e.text, e.text[k] # Dot
      PROVE  \E c \in fresh : \E n \in 1 .. streamed[c] : e.text[k] = <<c, n>>
  <2> DEFINE z == IF offset < StackBufferSize THEN offset ELSE StackBufferSize - 1
  <2>1. z \in 0 .. StackBufferSize - 1 /\ message'[z] = NUL /\ z <= offset
    BY <1>1, <1>2
  <2>2. /\ k \in Nat /\ k >= 1 /\ k <= z
        /\ e.text[k] = message'[k - 1]
        /\ \A j \in 0 .. k - 1 : message'[j] # NUL
    BY <1>2, <1>3, <1>9, <2>1, CStringCells
  <2>3. /\ k - 1 \in 0 .. StackBufferSize - 1 /\ k - 1 < offset
        /\ offset \in Nat
    BY <1>1, <2>1, <2>2
  <2>4. \A j \in 0 .. k - 1 : message'[j] = message[j]
    BY <1>1, <1>5, <2>3
  <2>5. k - 1 \in 0 .. k - 1
        /\ \A j \in 0 .. (k - 1) - 1 : j \in 0 .. k - 1
    BY <2>2
  <2>6. Sourced(message[k - 1], fresh, streamed)
    BY <2>2, <2>3, <2>4, <2>5 DEF CInv, BufferFresh
  <2>7. message[k - 1] = e.text[k] /\ e.text[k] # NUL
    BY <2>2, <2>4, <2>5
  <2> QED BY <1>9, <2>6, <2>7 DEF Sourced
<1>10. NothingStale'
  <2>1. ASSUME NEW i \in DOMAIN logged', NEW k \in DOMAIN logged'[i].text,
               logged'[i].text[k] # Dot
        PROVE  \E c \in logged'[i].fresh :
                  \E n \in 1 .. streamed'[c] : logged'[i].text[k] = <<c, n>>
    <3>1. CASE i \in DOMAIN logged
      <4>1. logged'[i] = logged[i] /\ streamed' = streamed
        BY <1>1, <1>4, <3>1
      <4>2. \E c \in logged[i].fresh :
               \E n \in 1 .. streamed[c] : logged[i].text[k] = <<c, n>>
        BY <2>1, <3>1, <4>1 DEF CInv, NothingStale
      <4> QED BY <4>1, <4>2
    <3>2. CASE i = last
      <4>1. logged'[i] = e /\ streamed' = streamed /\ e.fresh = fresh
        BY <1>1, <1>3, <1>4, <3>2
      <4>2. \E c \in fresh : \E n \in 1 .. streamed[c] : e.text[k] = <<c, n>>
        BY <1>9, <2>1, <4>1
      <4> QED BY <4>1, <4>2
    <3> QED BY <1>4, <3>1, <3>2
  <2> QED BY <2>1 DEF NothingStale
<1>11. ASSUME fresh = {b}
       PROVE  /\ e.time = b
              /\ Kept(e) <= e.meant
              /\ \A k \in 1 .. Kept(e) : e.text[k] = <<b, k>>
              /\ ~ e.silent => (Marked(e.text) <=> Kept(e) < e.meant)
  <2>1. time = b
    BY <1>1, <1>11 DEF CInv, IInv, HasTime, FreshUsed
  <2>2. PICK d \in 0 .. MaxMessageSize, marked \in BOOLEAN :
           /\ Shape(message', b, d, marked)
           /\ d <= streamed[b]
           /\ silent[b] \/ (marked <=> d < streamed[b])
    BY <1>2, <1>11, AloneEntry
  <2>3. /\ Len(e.text) = IF marked THEN d + 3 ELSE d
        /\ Marked(e.text) <=> marked
        /\ \A k \in 1 .. d : e.text[k] = <<b, k>>
    BY <1>2, <1>3, <2>2, ShapeText
  <2>4. Kept(e) = d
    BY <2>3 DEF Kept
  <2> QED BY <1>3, <2>1, <2>2, <2>3, <2>4
<1>12. Alone(e) <=> fresh = {b}
  BY <1>3 DEF Alone
<1>13. PrefixDelivered'
  <2>1. ASSUME NEW i \in DOMAIN logged', Alone(logged'[i])
        PROVE  /\ logged'[i].time = logged'[i].builder
               /\ Kept(logged'[i]) <= logged'[i].meant
               /\ \A k \in 1 .. Kept(logged'[i]) :
                     logged'[i].text[k] = <<logged'[i].builder, k>>
    <3>1. CASE i \in DOMAIN logged
      BY <1>4, <2>1, <3>1 DEF CInv, PrefixDelivered
    <3>2. CASE i = last
      BY <1>3, <1>4, <1>11, <1>12, <2>1, <3>2
    <3> QED BY <1>4, <3>1, <3>2
  <2> QED BY <2>1 DEF PrefixDelivered
<1>14. CutIsMarked'
  <2>1. ASSUME NEW i \in DOMAIN logged', Alone(logged'[i]), ~ logged'[i].silent
        PROVE  Marked(logged'[i].text) <=> Kept(logged'[i]) < logged'[i].meant
    <3>1. CASE i \in DOMAIN logged
      BY <1>4, <2>1, <3>1 DEF CInv, CutIsMarked
    <3>2. CASE i = last
      BY <1>4, <1>11, <1>12, <2>1, <3>2
    <3> QED BY <1>4, <3>1, <3>2
  <2> QED BY <2>1 DEF CutIsMarked
<1> QED
  BY <1>6, <1>7, <1>8, <1>10, <1>13, <1>14 DEF CInv

LEMMA MoveContent ==
    ASSUME CInv, IInv',
           UNCHANGED <<message, offset, time, status, streamed, silent, fresh,
                       logged>>
    PROVE  CInv'
  BY DEF CInv, FreshUsed, BufferFresh, AloneWhole, Elided, Cut, Filled,
         PrefixDelivered, CutIsMarked, NothingStale, StackBufferSize

LEMMA InitContent == Init => CInv
<1> SUFFICES ASSUME Init PROVE CInv
  OBVIOUS
<1>1. IInv
  BY InitInv
<1>2. /\ offset = 0 /\ fresh = {} /\ logged = <<>> /\ time = NoBuilder
      /\ \A b \in Builders : streamed[b] = 0
  BY DEF Init
<1>3. FreshUsed /\ AloneWhole
  BY <1>2, Names DEF FreshUsed, AloneWhole
<1>4. BufferFresh
  BY <1>2 DEF BufferFresh
<1>5. PrefixDelivered /\ CutIsMarked /\ NothingStale
  BY <1>2 DEF PrefixDelivered, CutIsMarked, NothingStale
<1> QED
  BY <1>1, <1>3, <1>4, <1>5 DEF CInv

LEMMA NextContent == CInv /\ [Next]_vars => CInv'
<1> SUFFICES ASSUME CInv, [Next]_vars PROVE CInv'
  OBVIOUS
<1>1. IInv'
  BY NextInv DEF CInv
<1>2. CASE UNCHANGED vars
  BY <1>1, <1>2, MoveContent DEF vars
<1>3. ASSUME NEW b \in Builders, NEW n \in Lengths,
             \/ Construct(b, n)
             \/ AppendCString(b, n)
             \/ AppendString(b, n)
             \/ AppendFormatted(b, n)
             \/ AppendUnformattable(b, n)
             \/ AppendDropped(b, n)
      PROVE  CInv'
  <2>1. n \in Nat
    BY Sizes
  <2> QED BY <1>1, <1>3, <2>1, ConstructContent, CharactersContent,
             AppendStringContent, AppendFormattedContent,
             AppendUnformattableContent, DroppedContent
          DEF AppendCString
<1>4. ASSUME NEW b \in Builders,
             Move(b) \/ Destroy(b) \/ DestroyShell(b) \/ AppendChar(b)
      PROVE  CInv'
  <2>1. Move(b) \/ DestroyShell(b) =>
           UNCHANGED <<message, offset, time, status, streamed, silent, fresh,
                       logged>>
    BY DEF Move, DestroyShell
  <2>2. 1 \in Nat
    OBVIOUS
  <2> QED BY <1>1, <1>4, <2>1, <2>2, MoveContent, DestroyContent,
             CharactersContent DEF AppendChar
<1> QED
  BY <1>2, <1>3, <1>4 DEF Next

THEOREM ContentInvariance == Spec => []CInv
  BY InitContent, NextContent, PTL DEF Spec

(***************************************************************************)
(* A message whose builder has had the buffer for itself is the beginning  *)
(* of its own text, at its own time, whatever was in the buffer before.    *)
(***************************************************************************)
THEOREM OwnTextDelivered == Spec => []PrefixDelivered
<1>1. CInv => PrefixDelivered
  BY DEF CInv
<1> QED
  BY <1>1, ContentInvariance, PTL

(***************************************************************************)
(* Dots tell that some of such a message is lost, and are there only then, *)
(* the two cuts that the code makes silently excepted.                     *)
(***************************************************************************)
THEOREM CutsAreMarked == Spec => []CutIsMarked
<1>1. CInv => CutIsMarked
  BY DEF CInv
<1> QED
  BY <1>1, ContentInvariance, PTL

(***************************************************************************)
(* No message, of nested builders either, shows what was in the buffer     *)
(* before its tl_offset was last reset.                                    *)
(***************************************************************************)
THEOREM NoStaleText == Spec => []NothingStale
<1>1. CInv => NothingStale
  BY DEF CInv
<1> QED
  BY <1>1, ContentInvariance, PTL
=============================================================================
