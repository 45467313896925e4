------------------------ MODULE EarlyAppenderProofs ------------------------
(***************************************************************************)
(* Proofs about EarlyAppender, for any number and size of strings, any     *)
(* messages and any number of clear() calls, and about Handoff, for any    *)
(* number of replays besides.                                              *)
(*                                                                         *)
(* RoomForEntry is not inductive: it rests on the conservation of strings  *)
(* and on a notice being made only when no string is left.                 *)
(*                                                                         *)
(* What the entries are about (Content) rests on this: everything offered  *)
(* is recorded as long as a string is left.                                *)
(*                                                                         *)
(* So the entries are the first messages logged since the last clear() and *)
(* a notice stands for the first one that was skipped.  In Handoff those   *)
(* are the messages that the backend and the EarlyAppender admit; HasAll   *)
(* says how such lines stand for what was logged, and holds of what there  *)
(* is to replay (BeforeHandover) and, once that has been replayed, of what *)
(* the real appender has output (HandedOver).  In between nothing may      *)
(* become due, which is what the Lock is for.                              *)
(***************************************************************************)
EXTENDS Handoff, SequenceTheorems, TLAPS

(* A notice is the last entry, and there is one only with m_oom set and    *)
(* all strings in use.                                                     *)
NoticeLast ==
    /\ \A i \in 1 .. Len(entries) - 1 : ~ entries[i].notice
    /\ HasNotice => oom /\ free = <<>>

(* A string keeps its room while it is in an entry. *)
RoomFor == \A i \in DOMAIN entries :
              ~ entries[i].notice => entries[i].string.cap >= MaxMessageSize

(* TypeOK but for the two sizes, which follow from the rest of IInv *)
Types ==
    /\ entries \in Seq(Entries)
    /\ free \in Seq(Strings)
    /\ oomMessage \in Texts
    /\ oom \in BOOLEAN
    /\ offered \in Seq(Messages)
    /\ lost \in Nat
    /\ defined \in BOOLEAN
    /\ calls \in Nat
    /\ clears \in Nat

IInv == Types /\ NoticeLast /\ StringsConserved /\ FreeHasRoom /\ RoomFor

LEMMA RecordedType ==
    ASSUME entries \in Seq(Entries)
    PROVE  /\ Recorded \in Nat
           /\ Len(entries) = Recorded + (IF HasNotice THEN 1 ELSE 0)
<1>1. Len(entries) \in Nat /\ (entries # <<>> => Len(entries) >= 1)
  OBVIOUS
<1>2. HasNotice => entries # <<>>
  BY DEF HasNotice
<1> QED
  BY <1>1, <1>2 DEF Recorded

LEMMA NoneIsNotice ==
    ASSUME entries \in Seq(Entries), NoticeLast, ~ HasNotice
    PROVE  \A i \in 1 .. Len(entries) : ~ entries[i].notice
<1> SUFFICES ASSUME NEW i \in 1 .. Len(entries)
             PROVE  ~ entries[i].notice
  OBVIOUS
<1>1. Len(entries) \in Nat /\ entries # <<>>
  OBVIOUS
<1>2. CASE i = Len(entries)
  BY <1>1, <1>2 DEF HasNotice, Last
<1>3. CASE i # Len(entries)
  <2>1. i \in 1 .. Len(entries) - 1
    BY <1>1, <1>3
  <2> QED BY <2>1 DEF NoticeLast
<1> QED
  BY <1>2, <1>3

LEMMA SizesFollow ==
    ASSUME Types, StringsConserved
    PROVE  TypeOK
<1>1. /\ Recorded \in Nat /\ Len(free) \in Nat /\ lost \in Nat
      /\ Len(entries) = Recorded + (IF HasNotice THEN 1 ELSE 0)
      /\ ReserveEntries \in Nat
  BY RecordedType, EarlyAppenderAssumption DEF Types
<1>2. Recorded <= ReserveEntries /\ Len(free) <= ReserveEntries
  BY <1>1 DEF StringsConserved
<1>3. Len(entries) <= ReserveEntries + 1
  BY <1>1, <1>2
<1> QED
  BY <1>2, <1>3 DEF Types, TypeOK

LEMMA Room == IInv => RoomForEntry
<1> SUFFICES ASSUME IInv, free # <<>> \/ ~ oom
             PROVE  Len(entries) < ReserveEntries + 1
  BY DEF RoomForEntry, IInv
<1>1. ~ HasNotice
  BY DEF IInv, NoticeLast
<1>2. /\ Recorded \in Nat /\ Len(free) \in Nat /\ lost \in Nat
      /\ Len(entries) = Recorded /\ ReserveEntries \in Nat
  BY <1>1, RecordedType, EarlyAppenderAssumption DEF IInv, Types
<1> QED
  BY <1>2 DEF IInv, StringsConserved

-----------------------------------------------------------------------------
(* What the actions are made of                                            *)

(* An entry is added at the end: those before it stay. *)
LEMMA AddEntry ==
    ASSUME entries \in Seq(Entries), NEW e \in Entries,
           entries' = Append(entries, e)
    PROVE  /\ entries' \in Seq(Entries)
           /\ entries' # <<>>
           /\ Len(entries') = Len(entries) + 1
           /\ Last(entries') = e
           /\ \A i \in 1 .. Len(entries) : entries'[i] = entries[i]
           /\ DOMAIN entries' = 1 .. Len(entries) + 1
<1>1. /\ entries' \in Seq(Entries) /\ entries' # <<>>
      /\ Len(entries') = Len(entries) + 1
      /\ \A i \in 1 .. Len(entries) : entries'[i] = entries[i]
      /\ entries'[Len(entries) + 1] = e
  BY AppendProperties
<1>2. DOMAIN entries' = 1 .. Len(entries) + 1
  BY <1>1
<1> QED
  BY <1>1, <1>2 DEF Last

LEMMA StringType ==
    ASSUME NEW of \in Nat, NEW len \in Nat, NEW cut \in BOOLEAN, NEW cap \in Nat
    PROVE  /\ [text |-> [of |-> of, len |-> len, cut |-> cut], cap |-> cap]
                 \in Strings
           /\ [text |-> [of |-> of, len |-> len, cut |-> cut], cap |-> cap].cap
                 = cap
<1>1. [of |-> of, len |-> len, cut |-> cut] \in Texts
  BY DEF Texts
<1> QED
  BY <1>1 DEF Strings

(* doLog never makes a string smaller. *)
LEMMA AssignedType ==
    ASSUME NEW s \in Strings, NEW m \in Messages, NEW r \in Assigned(s, m)
    PROVE  r \in Strings /\ r.cap >= s.cap
<1>1. /\ s.text \in Texts /\ s.text.of \in Nat /\ s.text.len \in Nat
      /\ s.cap \in Nat /\ m.id \in Nat /\ m.len \in Nat
  BY DEF Strings, Texts, Messages
<1>2. CASE m.len <= s.cap
  <2>1. r = [text |-> [of |-> m.id, len |-> m.len, cut |-> FALSE],
             cap |-> s.cap]
    BY <1>2 DEF Assigned
  <2>2. r \in Strings /\ r.cap = s.cap
    BY <1>1, <2>1, StringType
  <2> QED BY <1>1, <2>2
<1>3. CASE ~ (m.len <= s.cap)
  <2> DEFINE start == IF s.text.len = 0 THEN m.id ELSE s.text.of
             total == s.text.len + m.len
  <2>1. start \in Nat /\ total \in Nat /\ total >= m.len
    BY <1>1
  <2>2. \/ r = [text |-> [of |-> m.id, len |-> m.len, cut |-> FALSE],
                cap |-> m.len]
        \/ \E c \in s.cap .. total - 1 :
              r = [text |-> [of |-> start, len |-> c, cut |-> TRUE], cap |-> c]
        \/ r = [text |-> [of |-> start, len |-> total, cut |-> FALSE],
                cap |-> total]
    BY <1>3 DEF Assigned
  <2> HIDE DEF start, total
  <2>3. ASSUME NEW c \in s.cap .. total - 1,
               r = [text |-> [of |-> start, len |-> c, cut |-> TRUE], cap |-> c]
        PROVE  r \in Strings /\ r.cap >= s.cap
    <3>1. c \in Nat /\ c >= s.cap
      BY <1>1, <2>1
    <3> QED BY <2>1, <2>3, <3>1, StringType
  <2>4. m.len >= s.cap /\ total >= s.cap
    BY <1>1, <1>3, <2>1
  <2>5. ASSUME r = [text |-> [of |-> m.id, len |-> m.len, cut |-> FALSE],
                    cap |-> m.len]
        PROVE  r \in Strings /\ r.cap >= s.cap
    BY <1>1, <2>4, <2>5, StringType
  <2>6. ASSUME r = [text |-> [of |-> start, len |-> total, cut |-> FALSE],
                    cap |-> total]
        PROVE  r \in Strings /\ r.cap >= s.cap
    BY <2>1, <2>4, <2>6, StringType
  <2> QED
    BY <2>2, <2>3, <2>5, <2>6
<1> QED
  BY <1>2, <1>3

LEMMA OfferType ==
    ASSUME Types, NEW m \in Messages, Offer(m)
    PROVE  /\ offered' \in Seq(Messages) /\ calls' \in Nat /\ clears' \in Nat
           /\ lost' \in Nat /\ lost' = lost /\ defined' \in BOOLEAN
  BY AppendProperties DEF Types, Offer

-----------------------------------------------------------------------------
(* The actions                                                             *)

LEMMA InitInv == Init => IInv
<1> SUFFICES ASSUME Init PROVE IInv
  OBVIOUS
<1>1. PICK c \in Capacities :
         free = [i \in 1 .. ReserveEntries |-> [text |-> Nothing, cap |-> c]]
  BY DEF Init
<1>2. /\ ReserveEntries \in Nat /\ c \in Nat /\ c >= MaxMessageSize
      /\ Nothing \in Texts /\ Notice \in Texts
  BY EarlyAppenderAssumption DEF Texts, Nothing, Notice
<1>3. [text |-> Nothing, cap |-> c] \in Strings
  BY <1>2 DEF Strings
<1>4. free \in Seq(Strings) /\ Len(free) = ReserveEntries
  BY <1>1, <1>2, <1>3
<1>5. entries = <<>> /\ lost = 0 /\ ~ HasNotice
  BY DEF Init, HasNotice
<1>6. Types
  <2>1. entries \in Seq(Entries) /\ offered \in Seq(Messages)
    BY EmptySeq DEF Init
  <2>2. /\ oomMessage \in Texts /\ oom \in BOOLEAN /\ lost \in Nat
        /\ defined \in BOOLEAN /\ calls \in Nat /\ clears \in Nat
    BY <1>2 DEF Init
  <2> QED BY <1>4, <2>1, <2>2 DEF Types
<1>7. StringsConserved
  BY <1>2, <1>4, <1>5 DEF StringsConserved, Recorded
<1>8. NoticeLast /\ RoomFor
  BY <1>5 DEF NoticeLast, RoomFor
<1>9. FreeHasRoom
  BY <1>1, <1>2 DEF FreeHasRoom
<1> QED
  BY <1>6, <1>7, <1>8, <1>9 DEF IInv

LEMMA StoreInv ==
    ASSUME IInv, NEW m \in Messages, Store(m)
    PROVE  IInv'
<1>1. PICK s \in Assigned(Last(free), m) :
         entries' = Append(entries, [id |-> m.id, priority |-> m.priority,
                                     string |-> s, notice |-> FALSE])
  BY DEF Store
<1>2. /\ entries \in Seq(Entries) /\ free \in Seq(Strings) /\ free # <<>>
      /\ Types
  BY DEF IInv, Types, Store
<1>3. /\ Len(free) \in Nat /\ Len(free) >= 1 /\ Len(entries) \in Nat
      /\ DOMAIN free = 1 .. Len(free) /\ DOMAIN entries = 1 .. Len(entries)
  BY <1>2
<1>4. Last(free) \in Strings /\ Last(free).cap >= MaxMessageSize
  <2>1. Len(free) \in DOMAIN free
    BY <1>3
  <2>2. free[Len(free)] \in Strings
    BY <1>2, <2>1, <1>3, ElementOfSeq
  <2> QED BY <2>1, <2>2 DEF IInv, FreeHasRoom, Last
<1>5. s \in Strings /\ s.cap >= MaxMessageSize
  <2>1. s \in Strings /\ s.cap >= Last(free).cap
    BY <1>4, AssignedType
  <2>2. s.cap \in Nat /\ Last(free).cap \in Nat /\ MaxMessageSize \in Nat
    BY <1>4, <2>1, EarlyAppenderAssumption DEF Strings
  <2> QED BY <1>4, <2>1, <2>2
<1> DEFINE e == [id |-> m.id, priority |-> m.priority,
                 string |-> s, notice |-> FALSE]
<1>6. e \in Entries /\ e.notice = FALSE /\ e.string = s
  BY <1>5 DEF Entries, Messages
<1> HIDE DEF e
<1>7. /\ entries' \in Seq(Entries) /\ entries' # <<>>
      /\ Len(entries') = Len(entries) + 1 /\ Last(entries') = e
      /\ \A i \in 1 .. Len(entries) : entries'[i] = entries[i]
      /\ DOMAIN entries' = 1 .. Len(entries) + 1
      /\ entries'[Len(entries) + 1] = e
  <2>1. entries' = Append(entries, e)
    BY <1>1 DEF e
  <2> QED BY <1>2, <1>6, <2>1, AddEntry, AppendProperties
<1>8. /\ free' \in Seq(Strings) /\ Len(free') = Len(free) - 1
      /\ \A i \in DOMAIN free' : i \in DOMAIN free /\ free'[i] = free[i]
  <2>1. free' = SubSeq(free, 1, Len(free) - 1)
    BY DEF Store, Front
  <2>2. \A i \in 1 .. Len(free) - 1 : free[i] \in Strings
    BY <1>2, <1>3, ElementOfSeq
  <2>3. /\ free' \in Seq(Strings) /\ Len(free') = Len(free) - 1
        /\ \A i \in 1 .. Len(free) - 1 : free'[i] = free[i]
    BY <1>3, <2>1, <2>2
  <2>4. DOMAIN free' = 1 .. Len(free) - 1
    BY <2>3
  <2> QED BY <1>3, <2>3, <2>4
<1>9. ~ HasNotice /\ ~ HasNotice'
  BY <1>2, <1>6, <1>7 DEF IInv, NoticeLast, HasNotice
<1>10. Types'
  <2>1. oomMessage' \in Texts /\ oom' \in BOOLEAN
    BY <1>2 DEF Store, Types
  <2> QED BY <1>2, <1>7, <1>8, <2>1, OfferType DEF Store, Types
<1>11. NoticeLast'
  <2>1. \A i \in 1 .. Len(entries) : ~ entries[i].notice
    BY <1>2, <1>9, NoneIsNotice DEF IInv
  <2>2. \A i \in 1 .. Len(entries') - 1 : i \in 1 .. Len(entries)
    BY <1>3, <1>7
  <2>3. \A i \in 1 .. Len(entries') - 1 : ~ entries'[i].notice
    BY <1>7, <2>1, <2>2
  <2> QED BY <1>9, <2>3 DEF NoticeLast
<1>12. StringsConserved'
  BY <1>2, <1>3, <1>7, <1>8, <1>9 DEF IInv, StringsConserved, Recorded, Store, Offer, Types
<1>13. FreeHasRoom'
  BY <1>8 DEF IInv, FreeHasRoom
<1>14. RoomFor'
  <2>1. \A i \in DOMAIN entries' : i \in DOMAIN entries \/ i = Len(entries) + 1
    BY <1>3, <1>7
  <2> QED BY <1>3, <1>5, <1>6, <1>7, <2>1 DEF IInv, RoomFor
<1> QED
  BY <1>10, <1>11, <1>12, <1>13, <1>14 DEF IInv

LEMMA OverflowInv ==
    ASSUME IInv, NEW m \in Messages, Overflow(m)
    PROVE  IInv'
<1> DEFINE e == [id |-> m.id, priority |-> ErrorPriority,
                 string |-> [text |-> oomMessage, cap |-> oomMessage.len],
                 notice |-> TRUE]
<1>1. /\ entries \in Seq(Entries) /\ Types /\ oomMessage \in Texts
      /\ free = <<>> /\ ~ oom
  BY DEF IInv, Types, Overflow
<1>2. Len(entries) \in Nat /\ DOMAIN entries = 1 .. Len(entries)
  BY <1>1
<1>3. e \in Entries /\ e.notice = TRUE
  <2>1. oomMessage.len \in Nat /\ ErrorPriority \in Priorities /\ m.id \in Nat
    BY <1>1, EarlyAppenderAssumption DEF Texts, Messages
  <2>2. [text |-> oomMessage, cap |-> oomMessage.len] \in Strings
    BY <1>1, <2>1 DEF Strings
  <2> QED BY <2>1, <2>2 DEF Entries
<1>4. entries' = Append(entries, e)
  BY DEF Overflow
<1> HIDE DEF e
<1>5. /\ entries' \in Seq(Entries) /\ entries' # <<>>
      /\ Len(entries') = Len(entries) + 1 /\ Last(entries') = e
      /\ \A i \in 1 .. Len(entries) : entries'[i] = entries[i]
      /\ DOMAIN entries' = 1 .. Len(entries) + 1
      /\ entries'[Len(entries) + 1] = e
  BY <1>1, <1>3, <1>4, AddEntry, AppendProperties
<1>6. ~ HasNotice /\ HasNotice'
  BY <1>1, <1>3, <1>5 DEF IInv, NoticeLast, HasNotice
<1>7. Types'
  <2>1. oomMessage' \in Texts /\ oom' \in BOOLEAN
    BY DEF Overflow, Nothing, Texts
  <2> QED BY <1>1, <1>5, <2>1, OfferType DEF Overflow, Types
<1>8. NoticeLast'
  <2>1. \A i \in 1 .. Len(entries) : ~ entries[i].notice
    BY <1>1, <1>6, NoneIsNotice DEF IInv
  <2>2. \A i \in 1 .. Len(entries') - 1 : i \in 1 .. Len(entries)
    BY <1>2, <1>5
  <2>3. \A i \in 1 .. Len(entries') - 1 : ~ entries'[i].notice
    BY <1>5, <2>1, <2>2
  <2> QED BY <1>1, <2>3 DEF NoticeLast, Overflow
<1>9. StringsConserved'
  BY <1>1, <1>2, <1>5, <1>6 DEF IInv, StringsConserved, Recorded, Overflow, Offer
<1>10. FreeHasRoom'
  BY DEF IInv, FreeHasRoom, Overflow
<1>11. RoomFor'
  <2>1. \A i \in DOMAIN entries' : i \in DOMAIN entries \/ i = Len(entries) + 1
    BY <1>2, <1>5
  <2> QED BY <1>2, <1>3, <1>5, <2>1 DEF IInv, RoomFor
<1> QED
  BY <1>7, <1>8, <1>9, <1>10, <1>11 DEF IInv

LEMMA DropInv ==
    ASSUME IInv, NEW m \in Messages, Drop(m)
    PROVE  IInv'
<1>1. UNCHANGED <<entries, free, oomMessage, oom, lost>>
  BY DEF Drop, Offer
<1>2. Types'
  BY <1>1, OfferType DEF Drop, IInv, Types
<1> QED
  BY <1>1, <1>2 DEF IInv, NoticeLast, HasNotice, StringsConserved, Recorded,
                    FreeHasRoom, RoomFor

(* Every entry but a notice, and one other if there is none, gives its     *)
(* string back.                                                            *)
LEMMA ClearInv == IInv /\ Clear => IInv'
<1> SUFFICES ASSUME IInv, Clear PROVE IInv'
  OBVIOUS
<1> DEFINE n == Len(entries) - 1
           back == [i \in 1 .. n |-> entries[i].string]
<1>1. /\ entries \in Seq(Entries) /\ free \in Seq(Strings) /\ Types
      /\ entries # <<>>
  BY DEF IInv, Types, Clear
<1>2. n \in Nat /\ Len(entries) = n + 1 /\ DOMAIN entries = 1 .. n + 1
  BY <1>1
<1>3. \A i \in 1 .. n : entries[i] \in Entries /\ i \in DOMAIN entries
  <2>1. \A i \in 1 .. n : i \in 1 .. Len(entries)
    BY <1>2
  <2> QED BY <1>1, <1>2, <2>1, ElementOfSeq
<1>4. Last(entries).string.text \in Texts
  <2>1. Len(entries) \in 1 .. Len(entries)
    BY <1>2
  <2>2. entries[Len(entries)] \in Entries
    BY <1>1, <2>1, ElementOfSeq
  <2> QED BY <2>2 DEF Last, Entries, Strings
<1>5. /\ back \in Seq(Strings) /\ Len(back) = n
      /\ \A i \in 1 .. n : back[i] = entries[i].string
  <2>1. \A i \in 1 .. n : entries[i].string \in Strings
    BY <1>3 DEF Entries
  <2> QED BY <1>2, <2>1
<1>6. free' = free \o back
  BY DEF Clear
<1> HIDE DEF back, n
<1>7. /\ free' \in Seq(Strings) /\ Len(free') = Len(free) + n
      /\ DOMAIN free' = 1 .. Len(free) + n
      /\ \A i \in 1 .. Len(free) + n :
            free'[i] = IF i <= Len(free) THEN free[i] ELSE back[i - Len(free)]
  <2>1. /\ free' \in Seq(Strings) /\ Len(free') = Len(free) + n
        /\ \A i \in 1 .. Len(free) + n :
              free'[i] = IF i <= Len(free) THEN free[i] ELSE back[i - Len(free)]
    BY <1>1, <1>5, <1>6, ConcatProperties
  <2> QED BY <2>1
<1>8. /\ entries' = <<>> /\ offered' = <<>> /\ Len(entries') = 0
      /\ ~ HasNotice'
  BY DEF Clear, HasNotice
<1>9. HasNotice <=> Last(entries).notice
  BY <1>1 DEF HasNotice
<1>10. Types'
  <2>1. /\ entries' \in Seq(Entries) /\ offered' \in Seq(Messages)
    BY <1>8, EmptySeq
  <2>2. /\ oomMessage' \in Texts /\ oom' \in BOOLEAN /\ lost' \in Nat
        /\ defined' \in BOOLEAN /\ calls' \in Nat /\ clears' \in Nat
    BY <1>1, <1>4 DEF Clear, Types
  <2> QED BY <1>7, <2>1, <2>2 DEF Types
<1>11. NoticeLast' /\ RoomFor'
  BY <1>8 DEF NoticeLast, RoomFor
<1>12. StringsConserved'
  <2>1. Recorded' = 0
    BY <1>8 DEF Recorded
  <2>2. /\ ReserveEntries \in Nat /\ lost \in Nat /\ Len(free) \in Nat
    BY <1>1, EarlyAppenderAssumption DEF Types
  <2>3. CASE HasNotice
    <3>1. Recorded = n /\ lost' = lost
      BY <1>2, <1>9, <2>3 DEF Recorded, Clear
    <3> QED BY <1>2, <1>7, <2>1, <2>2, <3>1 DEF IInv, StringsConserved
  <2>4. CASE ~ HasNotice
    <3>1. Recorded = n + 1 /\ lost' = lost + 1
      BY <1>2, <1>9, <2>4 DEF Recorded, Clear
    <3> QED BY <1>2, <1>7, <2>1, <2>2, <3>1 DEF IInv, StringsConserved
  <2> QED BY <2>3, <2>4
<1>13. FreeHasRoom'
  <2> SUFFICES ASSUME NEW i \in 1 .. Len(free) + n
               PROVE  free'[i].cap >= MaxMessageSize
    BY <1>7 DEF FreeHasRoom
  <2>1. Len(free) \in Nat /\ DOMAIN free = 1 .. Len(free)
    BY <1>1
  <2>2. CASE i <= Len(free)
    <3>1. i \in DOMAIN free /\ free'[i] = free[i]
      BY <1>2, <1>7, <2>1, <2>2
    <3> QED BY <3>1 DEF IInv, FreeHasRoom
  <2>3. CASE ~ (i <= Len(free))
    <3>1. i - Len(free) \in 1 .. n
      BY <1>2, <2>1, <2>3
    <3>2. free'[i] = entries[i - Len(free)].string
      BY <1>5, <1>7, <2>3, <3>1
    <3>3. i - Len(free) \in 1 .. Len(entries) - 1
      BY <1>2, <3>1
    <3>4. ~ entries[i - Len(free)].notice
      BY <3>3 DEF IInv, NoticeLast
    <3> QED BY <1>3, <3>1, <3>2, <3>4 DEF IInv, RoomFor
  <2> QED BY <2>2, <2>3
<1> QED
  BY <1>10, <1>11, <1>12, <1>13 DEF IInv

LEMMA ClearEmptyInv == IInv /\ ClearEmpty => IInv'
<1> SUFFICES ASSUME IInv, ClearEmpty PROVE IInv'
  OBVIOUS
<1>1. UNCHANGED <<entries, free, oomMessage, oom, offered, lost, calls>>
  BY DEF ClearEmpty
<1>2. clears' \in Nat /\ defined' \in BOOLEAN
  <2>1. clears' = clears + 1 /\ clears \in Nat
    BY DEF IInv, ClearEmpty, Types
  <2>2. defined' = FALSE
    BY DEF ClearEmpty
  <2>3. defined' \in BOOLEAN
    BY <2>2
  <2> QED BY <2>1, <2>3
<1>3. Types'
  BY <1>1, <1>2 DEF IInv, Types
<1> QED
  BY <1>1, <1>3 DEF IInv, NoticeLast, HasNotice, StringsConserved, Recorded,
                    FreeHasRoom, RoomFor

LEMMA NextInv == IInv /\ [Next]_vars => IInv'
<1> SUFFICES ASSUME IInv, [Next]_vars PROVE IInv'
  OBVIOUS
<1>1. ASSUME NEW len \in Lengths, NEW p \in Priorities,
             DoLog([id |-> calls + 1, len |-> len, priority |-> p])
      PROVE  IInv'
  <2> DEFINE m == [id |-> calls + 1, len |-> len, priority |-> p]
  <2>1. m \in Messages
    BY EarlyAppenderAssumption DEF IInv, Types, Messages
  <2>2. Store(m) \/ Overflow(m) \/ Drop(m)
    BY <1>1 DEF DoLog
  <2> HIDE DEF m
  <2> QED BY <2>1, <2>2, StoreInv, OverflowInv, DropInv
<1>2. CASE UNCHANGED vars
  BY <1>2 DEF vars, IInv, Types, NoticeLast, HasNotice, StringsConserved,
              Recorded, FreeHasRoom, RoomFor
<1> QED
  BY <1>1, <1>2, ClearInv, ClearEmptyInv DEF Next

-----------------------------------------------------------------------------
(* The theorems                                                            *)

(* IInv holds in every reachable state. *)
THEOREM Invariance == Spec => []IInv
  BY InitInv, NextInv, PTL DEF Spec

(* The two vectors never outgrow what the constructor has reserved. *)
THEOREM TypeCorrect == Spec => []TypeOK
<1>1. IInv => TypeOK
  BY SizesFollow DEF IInv
<1> QED
  BY <1>1, Invariance, PTL

(* No string is lost but by a clear() that pops a message. *)
THEOREM StringsAreConserved == Spec => []StringsConserved
<1>1. IInv => StringsConserved
  BY DEF IInv
<1> QED
  BY <1>1, Invariance, PTL

(* The assertions of doLog on m_entries.size() and on the capacity of the  *)
(* next string never fail.                                                 *)
THEOREM AssertionsHold == Spec => []RoomForEntry
  BY Room, Invariance, PTL

-----------------------------------------------------------------------------
(* What the entries are about                                              *)

(* While a string is left, or no message has been skipped since the        *)
(* beginning, everything offered is recorded.                              *)
InStep == free # <<>> \/ ~ oom => Recorded = Len(offered)

(* The text of the notice is used at most once, and is intact until then.  *)
NoticeIntact ==
    /\ ~ oom => oomMessage = Notice
    /\ HasNotice => /\ Last(entries).priority = ErrorPriority
                    /\ Last(entries).string.text = Notice

(* Before the first clear() m_oom tells of a notice, and that of a skip.   *)
FirstSkip ==
    clears = 0 /\ oom => HasNotice /\ Recorded < Len(offered)

(* Before the first clear() no string has been used before. *)
FreshFree == clears = 0 => \A i \in DOMAIN free : free[i].text = Nothing

Content == InStep /\ NoHole /\ NoticeIntact /\ FirstSkip /\ FreshFree /\ OwnText

LEMMA ContentTells == IInv /\ Content => NoticeTellsSkips
<1> SUFFICES ASSUME IInv, Content PROVE NoticeTellsSkips
  OBVIOUS
<1>1. HasNotice => oom
  BY DEF IInv, NoticeLast
<1>2. Recorded \in Nat /\ Len(offered) \in Nat
  BY RecordedType DEF IInv, Types
<1> QED
  BY <1>1, <1>2 DEF Content, NoticeTellsSkips, NoticeIntact, FirstSkip, InStep

LEMMA InitContent == Init => Content
<1> SUFFICES ASSUME Init PROVE Content
  OBVIOUS
<1>1. PICK c \in Capacities :
         free = [i \in 1 .. ReserveEntries |-> [text |-> Nothing, cap |-> c]]
  BY DEF Init
<1>2. /\ entries = <<>> /\ offered = <<>> /\ ~ oom /\ oomMessage = Notice
      /\ ~ HasNotice /\ Recorded = 0 /\ Len(offered) = 0
  BY DEF Init, HasNotice, Recorded
<1> QED
  BY <1>1, <1>2 DEF Content, InStep, NoHole, NoticeIntact, FirstSkip, FreshFree,
                    OwnText

(* A message that is given a fresh string is there, whole or marked.       *)
LEMMA FreshAssigned ==
    ASSUME NEW s \in Strings, s.text = Nothing, NEW m \in Messages,
           NEW r \in Assigned(s, m)
    PROVE  /\ r.text.of = m.id
           /\ IF r.text.cut THEN r.text.len < m.len ELSE r.text.len = m.len
<1>1. /\ s.cap \in Nat /\ m.id \in Nat /\ m.len \in Nat
      /\ s.text.len = 0 /\ s.text.len + m.len = m.len
  BY DEF Strings, Messages, Nothing
<1>2. \/ r = [text |-> [of |-> m.id, len |-> m.len, cut |-> FALSE],
              cap |-> s.cap]
      \/ r = [text |-> [of |-> m.id, len |-> m.len, cut |-> FALSE],
              cap |-> m.len]
      \/ \E c \in s.cap .. m.len - 1 :
            r = [text |-> [of |-> m.id, len |-> c, cut |-> TRUE], cap |-> c]
  BY <1>1 DEF Assigned
<1> QED
  BY <1>1, <1>2

LEMMA StoreContent ==
    ASSUME IInv, Content, NEW m \in Messages, Store(m)
    PROVE  Content'
<1>1. PICK s \in Assigned(Last(free), m) :
         entries' = Append(entries, [id |-> m.id, priority |-> m.priority,
                                     string |-> s, notice |-> FALSE])
  BY DEF Store
<1> DEFINE e == [id |-> m.id, priority |-> m.priority,
                 string |-> s, notice |-> FALSE]
           n == Len(entries)
<1>2. /\ entries \in Seq(Entries) /\ free \in Seq(Strings) /\ free # <<>>
      /\ offered \in Seq(Messages) /\ Types /\ NoticeLast /\ n \in Nat
      /\ Len(free) \in Nat /\ Len(free) >= 1 /\ DOMAIN free = 1 .. Len(free)
  BY DEF IInv, Types, Store
<1>3. Last(free) \in Strings /\ Last(free) = free[Len(free)]
  BY <1>2, ElementOfSeq DEF Last
<1>4. e \in Entries /\ e.notice = FALSE /\ e.string = s
      /\ e.id = m.id /\ e.priority = m.priority
  BY <1>3, AssignedType DEF Entries, Messages
<1> HIDE DEF e
<1>5. /\ entries' # <<>> /\ Len(entries') = n + 1 /\ Last(entries') = e
      /\ \A i \in 1 .. n : entries'[i] = entries[i]
      /\ entries'[n + 1] = e
  <2>1. entries' = Append(entries, e)
    BY <1>1 DEF e
  <2> QED BY <1>2, <1>4, <2>1, AddEntry, AppendProperties
<1>6. ~ HasNotice /\ ~ HasNotice' /\ Recorded = n /\ Recorded' = n + 1
  BY <1>2, <1>4, <1>5 DEF NoticeLast, HasNotice, Recorded
<1>7. n = Len(offered)
  BY <1>2, <1>6 DEF Content, InStep
<1>8. /\ Len(offered') = n + 1 /\ offered'[n + 1] = m
      /\ \A i \in 1 .. n : offered'[i] = offered[i]
  BY <1>2, <1>7, AppendProperties DEF Store, Offer
<1>9. \A i \in 1 .. n + 1 : i \in 1 .. n \/ i = n + 1
  BY <1>2
<1>10. NoHole'
  <2>1. \A i \in 1 .. n + 1 : /\ ~ entries'[i].notice
                             /\ entries'[i].id = offered'[i].id
                             /\ entries'[i].priority = offered'[i].priority
    BY <1>4, <1>5, <1>6, <1>8, <1>9 DEF Content, NoHole
  <2> QED BY <1>2, <1>6, <1>8, <2>1 DEF NoHole
<1>11. InStep' /\ NoticeIntact'
  BY <1>6, <1>8 DEF InStep, NoticeIntact, Content, Store
<1>12. clears' = 0 => clears = 0 /\ ~ oom'
  BY <1>6 DEF Content, FirstSkip, Store, Offer
<1>13. FreshFree'
  <2>1. free' = SubSeq(free, 1, Len(free) - 1)
    BY DEF Store, Front
  <2>2. \A i \in 1 .. Len(free) - 1 : free[i] \in Strings /\ i \in DOMAIN free
    BY <1>2, ElementOfSeq
  <2>3. /\ Len(free') = Len(free) - 1 /\ free' \in Seq(Strings)
        /\ \A i \in 1 .. Len(free) - 1 : free'[i] = free[i]
    BY <1>2, <2>1, <2>2
  <2>4. DOMAIN free' = 1 .. Len(free) - 1
    BY <2>3
  <2> QED BY <1>12, <2>2, <2>3, <2>4 DEF Content, FreshFree
<1>14. OwnText'
  <2> SUFFICES ASSUME clears' = 0
               PROVE  \A i \in 1 .. n + 1 :
                         LET text == entries'[i].string.text
                         IN  /\ text.of = entries'[i].id
                             /\ IF text.cut THEN text.len < offered'[i].len
                                            ELSE text.len = offered'[i].len
    BY <1>6 DEF OwnText
  <2>1. Len(free) \in DOMAIN free
    BY <1>2
  <2>2. Last(free).text = Nothing
    BY <1>3, <1>12, <2>1 DEF Content, FreshFree
  <2>3. /\ s.text.of = m.id
        /\ IF s.text.cut THEN s.text.len < m.len ELSE s.text.len = m.len
    BY <1>3, <2>2, FreshAssigned
  <2>4. \A i \in 1 .. n :
           LET text == entries[i].string.text
           IN  /\ text.of = entries[i].id
               /\ IF text.cut THEN text.len < offered[i].len
                              ELSE text.len = offered[i].len
    BY <1>6, <1>12 DEF Content, OwnText
  <2> QED BY <1>4, <1>5, <1>8, <1>9, <2>3, <2>4
<1>15. FirstSkip'
  BY <1>12 DEF FirstSkip
<1> QED
  BY <1>10, <1>11, <1>13, <1>14, <1>15 DEF Content

LEMMA OverflowContent ==
    ASSUME IInv, Content, NEW m \in Messages, Overflow(m)
    PROVE  Content'
<1> DEFINE e == [id |-> m.id, priority |-> ErrorPriority,
                 string |-> [text |-> oomMessage, cap |-> oomMessage.len],
                 notice |-> TRUE]
           n == Len(entries)
<1>1. /\ entries \in Seq(Entries) /\ offered \in Seq(Messages)
      /\ oomMessage \in Texts /\ NoticeLast /\ ~ oom /\ n \in Nat
      /\ free = <<>>
  BY DEF IInv, Types, Overflow
<1>2. /\ e \in Entries /\ e.notice = TRUE /\ e.priority = ErrorPriority
      /\ e.string.text = oomMessage
  <2>1. oomMessage.len \in Nat /\ ErrorPriority \in Priorities /\ m.id \in Nat
    BY <1>1, EarlyAppenderAssumption DEF Texts, Messages
  <2>2. [text |-> oomMessage, cap |-> oomMessage.len] \in Strings
    BY <1>1, <2>1 DEF Strings
  <2> QED BY <2>1, <2>2 DEF Entries
<1>3. entries' = Append(entries, e)
  BY DEF Overflow
<1> HIDE DEF e
<1>4. /\ entries' # <<>> /\ Len(entries') = n + 1 /\ Last(entries') = e
      /\ \A i \in 1 .. n : entries'[i] = entries[i]
  BY <1>1, <1>2, <1>3, AddEntry
<1>5. ~ HasNotice /\ HasNotice' /\ Recorded = n /\ Recorded' = n
  BY <1>1, <1>2, <1>4 DEF NoticeLast, HasNotice, Recorded
<1>6. n = Len(offered)
  BY <1>1, <1>5 DEF Content, InStep
<1>7. /\ Len(offered') = n + 1
      /\ \A i \in 1 .. n : offered'[i] = offered[i]
  BY <1>1, <1>6, AppendProperties DEF Overflow, Offer
<1>8. free' = <<>> /\ oom' /\ clears' = clears
  BY <1>1 DEF Overflow, Offer
<1>9. InStep' /\ FreshFree' /\ FirstSkip'
  BY <1>1, <1>5, <1>7, <1>8 DEF InStep, FreshFree, FirstSkip
<1>10. NoHole' /\ OwnText'
  BY <1>1, <1>4, <1>5, <1>7, <1>8, SMTT(30) DEF Content, NoHole, OwnText
<1>11. NoticeIntact'
  BY <1>1, <1>2, <1>4, <1>8 DEF Content, NoticeIntact
<1> QED
  BY <1>9, <1>10, <1>11 DEF Content

LEMMA DropContent ==
    ASSUME IInv, Content, NEW m \in Messages, Drop(m)
    PROVE  Content'
<1>1. /\ UNCHANGED <<entries, free, oomMessage, oom, clears>>
      /\ free = <<>> /\ oom
  BY DEF Drop, Offer
<1>2. HasNotice' = HasNotice /\ Recorded' = Recorded
  BY <1>1 DEF HasNotice, Recorded
<1>3. /\ offered \in Seq(Messages) /\ Recorded \in Nat
  BY RecordedType DEF IInv, Types
<1>4. /\ Len(offered') = Len(offered) + 1
      /\ \A i \in 1 .. Len(offered) : offered'[i] = offered[i]
      /\ Len(offered) \in Nat
  BY <1>3, AppendProperties DEF Drop, Offer
<1>5. \A i \in 1 .. Recorded : i \in 1 .. Len(offered)
  BY <1>3, <1>4 DEF Content, NoHole
<1>6. NoHole' /\ OwnText'
  BY <1>1, <1>2, <1>3, <1>4, <1>5 DEF Content, NoHole, OwnText
<1>7. InStep' /\ NoticeIntact' /\ FirstSkip' /\ FreshFree'
  BY <1>1, <1>2, <1>3, <1>4
     DEF Content, InStep, NoticeIntact, FirstSkip, FreshFree
<1> QED
  BY <1>6, <1>7 DEF Content

LEMMA ClearContent ==
    ASSUME IInv, Content, Clear
    PROVE  Content'
<1>1. /\ entries' = <<>> /\ offered' = <<>> /\ ~ HasNotice' /\ Recorded' = 0
      /\ Len(offered') = 0 /\ oom' = oom
  BY DEF Clear, HasNotice, Recorded
<1>2. clears' # 0
  BY DEF Clear, IInv, Types
<1>3. ~ oom' => oomMessage' = Notice
  BY <1>1 DEF Clear, Content, NoticeIntact
<1> QED
  BY <1>1, <1>2, <1>3 DEF Content, InStep, NoHole, NoticeIntact, FirstSkip,
                          FreshFree, OwnText

LEMMA ClearEmptyContent ==
    ASSUME IInv, Content, ClearEmpty
    PROVE  Content'
<1>1. UNCHANGED <<entries, free, oomMessage, oom, offered>>
  BY DEF ClearEmpty
<1>2. clears' # 0
  BY DEF ClearEmpty, IInv, Types
<1> QED
  BY <1>1, <1>2 DEF Content, InStep, NoHole, NoticeIntact, FirstSkip, FreshFree,
                    OwnText, HasNotice, Recorded

LEMMA UnchangedContent == Content /\ UNCHANGED vars => Content'
  BY DEF vars, Content, InStep, NoHole, NoticeIntact, FirstSkip, FreshFree,
         OwnText, HasNotice, Recorded

LEMMA DoLogKeeps ==
    ASSUME IInv, Content, NEW m \in Messages, DoLog(m)
    PROVE  IInv' /\ Content'
<1>1. IInv'
  BY StoreInv, OverflowInv, DropInv DEF DoLog
<1>2. Content'
  BY StoreContent, OverflowContent, DropContent DEF DoLog
<1> QED
  BY <1>1, <1>2

LEMMA NextContent == IInv /\ Content /\ [Next]_vars => Content'
<1> SUFFICES ASSUME IInv, Content, [Next]_vars PROVE Content'
  OBVIOUS
<1>1. ASSUME NEW len \in Lengths, NEW p \in Priorities,
             DoLog([id |-> calls + 1, len |-> len, priority |-> p])
      PROVE  Content'
  <2> DEFINE m == [id |-> calls + 1, len |-> len, priority |-> p]
  <2>1. m \in Messages
    BY EarlyAppenderAssumption DEF IInv, Types, Messages
  <2> HIDE DEF m
  <2>2. DoLog(m)
    BY <1>1 DEF m
  <2> QED BY <2>1, <2>2, DoLogKeeps
<1> QED
  BY <1>1, ClearContent, ClearEmptyContent, UnchangedContent DEF Next

THEOREM ContentInvariance == Spec => []Content
<1>1. Init => Content
  BY InitContent
<1>2. IInv /\ Content /\ [Next]_vars => Content'
  BY NextContent
<1> QED
  BY <1>1, <1>2, Invariance, PTL DEF Spec

(* The entries are the first messages logged since the last clear(). *)
THEOREM RecordedInOrder == Spec => []NoHole
<1>1. Content => NoHole
  BY DEF Content
<1> QED
  BY <1>1, ContentInvariance, PTL

(* Nothing is skipped before the first clear() without a notice of it. *)
THEOREM SkipsAreTold == Spec => []NoticeTellsSkips
  BY ContentTells, Invariance, ContentInvariance, PTL

(* As long as clear() has not been called, an entry shows the text of its  *)
(* own message.  Later it may show that of another, see NextStringEmpty.   *)
THEOREM TextsAreOwn == Spec => []OwnText
<1>1. Content => OwnText
  BY DEF Content
<1> QED
  BY <1>1, ContentInvariance, PTL

-----------------------------------------------------------------------------
(* The change to another appender *)

(* Without state variables, so that the same can be said of what the       *)
(* EarlyAppender has recorded and of what the real appender has output:    *)
(* the lines q stand for the messages s as RealHasAll wants it, where d    *)
(* are due and k have been skipped.                                        *)
Ascending(q) == \A i, j \in DOMAIN q : i < j => q[i].id < q[j].id

Genuine(line, s, k) ==
    IF line.notice
    THEN /\ line.priority = ErrorPriority
         /\ line.id \in k /\ \A n \in k : line.id <= n
    ELSE line.id \in DOMAIN s /\ line = Told(s[line.id])

HasAll(q, s, d, k) ==
    /\ Ascending(q)
    /\ \A i \in DOMAIN q : Genuine(q[i], s, k)
    /\ \A n \in d \ {0} : n \in k \/ \E i \in DOMAIN q : q[i] = Told(s[n])
    /\ 0 \in d /\ k # {} => \E i \in DOMAIN q : q[i].notice

(* What there is to replay *)
Recording == [i \in DOMAIN entries |-> Line(entries[i])]

Numbered == \A n \in DOMAIN sent : sent[n].id = n

(* Until the handover is done the real appender admits all that is due. *)
DueStill ==
    handover \in {"none", "replayed"} =>
       \A n \in due : PriorityOf(n) <= threshold["real"]

Bounded ==
    Replaying => /\ replay.next >= 1 /\ replay.next <= replay.end + 1
                 /\ replay.end <= Len(entries)

BeforeHandover ==
    handover = "none" /\ clears = 0 =>
       HasAll(Recording, sent, due \cup {0}, skipped)

Wanted(line) == (IF line.notice THEN 0 ELSE line.id) \in due

DuringReplay ==
    handover = "none" /\ Replaying =>
       /\ locked /\ clears = 0
       /\ replay.priority = Lowest /\ replay.end = Len(entries)
       /\ Ascending(real)
       /\ \A i \in DOMAIN real :
             \E j \in 1 .. replay.next - 1 : real[i] = Recording[j]
       /\ \A j \in 1 .. replay.next - 1 :
             Wanted(Recording[j]) => \E i \in DOMAIN real : real[i] = Recording[j]

HandedOver ==
    /\ handover \in {"none", "replayed"} => "real" \notin attached
    /\ handover \in {"replayed", "done"} => ~ Replaying /\ RealHasAll
    /\ handover = "done" => "real" \in attached

HInv ==
    /\ IInv /\ Content
    /\ ProgramTypes
    /\ Len(sent) = calls
    /\ Numbered /\ DueStill
    /\ Bounded /\ BeforeHandover /\ DuringReplay /\ HandedOver

LEMMA LowestIs == Lowest \in Priorities /\ \A q \in Priorities : q <= Lowest
  BY HandoffAssumption DEF Lowest

LEMMA HInvTypes ==
    ASSUME HInv
    PROVE  /\ entries \in Seq(Entries) /\ offered \in Seq(Messages)
           /\ sent \in Seq(Messages) /\ real \in Seq(Lines)
           /\ calls \in Nat /\ clears \in Nat /\ Len(sent) \in Nat
           /\ Len(real) \in Nat /\ Len(entries) \in Nat
           /\ DOMAIN sent = 1 .. calls /\ DOMAIN entries = 1 .. Len(entries)
           /\ replay \in [next : Nat, end : Nat, priority : Nat]
           /\ due \subseteq {0} \cup DOMAIN sent /\ skipped \subseteq DOMAIN sent
           /\ threshold \in [{"backend", "early", "real"} -> Priorities]
<1>1. /\ entries \in Seq(Entries) /\ offered \in Seq(Messages)
      /\ sent \in Seq(Messages) /\ real \in Seq(Lines)
      /\ calls \in Nat /\ clears \in Nat /\ Len(sent) = calls
  BY DEF HInv, ProgramTypes, IInv, Types
<1>2. /\ DOMAIN sent = 1 .. calls /\ DOMAIN entries = 1 .. Len(entries)
      /\ Len(sent) \in Nat /\ Len(real) \in Nat /\ Len(entries) \in Nat
  BY <1>1
<1> QED
  BY <1>1, <1>2 DEF HInv, ProgramTypes

LEMMA RealHas == RealHasAll <=> HasAll(real, sent, due, skipped)
  BY DEF RealHasAll, HasAll, Ascending, Genuine, FirstSkipped

LEMMA SameOutput ==
    UNCHANGED <<real, sent, due, skipped>> => (RealHasAll' <=> RealHasAll)
  BY DEF RealHasAll, FirstSkipped, Told

LEMMA LineType == \A e \in Entries : Line(e) \in Lines
  BY DEF Line, Lines, Entries

LEMMA ToldType == \A m \in Messages : Told(m) \in Lines
  BY DEF Told, Lines, Messages

(* The fewer messages are due, the less there has to be. *)
LEMMA Fewer ==
    ASSUME NEW q, NEW s, NEW k, NEW d, NEW e \in SUBSET d, HasAll(q, s, d, k)
    PROVE  HasAll(q, s, e, k)
  BY DEF HasAll

(* A message more, of which there is no line *)
LEMMA MessageMore ==
    ASSUME NEW s \in Seq(Messages), NEW m \in Messages, NEW q \in Seq(Lines),
           NEW d \in SUBSET ({0} \cup DOMAIN s), NEW k \in SUBSET DOMAIN s,
           HasAll(q, s, d, k)
    PROVE  HasAll(q, Append(s, m), d, k)
<1> DEFINE t == Append(s, m)
<1>1. /\ DOMAIN s \subseteq DOMAIN t
      /\ \A n \in DOMAIN s : t[n] = s[n]
  <2>1. Len(t) = Len(s) + 1 /\ DOMAIN t = 1 .. Len(t) /\ DOMAIN s = 1 .. Len(s)
        /\ Len(s) \in Nat
    OBVIOUS
  <2>2. \A n \in 1 .. Len(s) : t[n] = s[n]
    OBVIOUS
  <2> QED BY <2>1, <2>2
<1> HIDE DEF t
<1>2. \A i \in DOMAIN q : Genuine(q[i], t, k)
  BY <1>1 DEF HasAll, Genuine
<1>3. ASSUME NEW n \in d \ {0}
      PROVE  n \in k \/ \E i \in DOMAIN q : q[i] = Told(t[n])
  <2>1. n \in DOMAIN s /\ t[n] = s[n]
    BY <1>1
  <2> QED BY <2>1 DEF HasAll
<1>4. HasAll(q, t, d, k)
  BY <1>2, <1>3 DEF HasAll
<1> QED
  BY <1>4 DEF t

(* A line more behind those there are *)
LEMMA LineMore ==
    ASSUME NEW q \in Seq(Lines), NEW x \in Lines
    PROVE  /\ Append(q, x) \in Seq(Lines)
           /\ DOMAIN Append(q, x) = DOMAIN q \cup {Len(q) + 1}
           /\ Append(q, x)[Len(q) + 1] = x
           /\ \A i \in DOMAIN q : Append(q, x)[i] = q[i] /\ i < Len(q) + 1
           /\ \A i \in DOMAIN q : q[i] \in Lines
<1>1. /\ Len(q) \in Nat /\ DOMAIN q = 1 .. Len(q)
      /\ Len(Append(q, x)) = Len(q) + 1
      /\ DOMAIN Append(q, x) = 1 .. Len(q) + 1
      /\ Append(q, x) \in Seq(Lines)
  OBVIOUS
<1>2. Append(q, x)[Len(q) + 1] = x /\ \A i \in 1 .. Len(q) : Append(q, x)[i] = q[i]
  OBVIOUS
<1>3. 1 .. Len(q) + 1 = 1 .. Len(q) \cup {Len(q) + 1}
  BY <1>1
<1> QED
  BY <1>1, <1>2, <1>3

(* The identities of lines are those of messages. *)
LEMMA GenuineId ==
    ASSUME NEW s \in Seq(Messages), NEW k \in SUBSET DOMAIN s, NEW x,
           Genuine(x, s, k)
    PROVE  x.id \in 1 .. Len(s)
<1>1. DOMAIN s = 1 .. Len(s)
  OBVIOUS
<1> QED
  BY <1>1 DEF Genuine

(* A line with a greater identity keeps the order. *)
LEMMA StaysAscending ==
    ASSUME NEW q \in Seq(Lines), NEW x \in Lines, Ascending(q),
           \A i \in DOMAIN q : q[i].id < x.id
    PROVE  Ascending(Append(q, x))
<1> DEFINE r == Append(q, x)
<1>1. SUFFICES ASSUME NEW i \in DOMAIN r, NEW j \in DOMAIN r, i < j
               PROVE  r[i].id < r[j].id
  BY DEF Ascending
<1>2. /\ DOMAIN r = DOMAIN q \cup {Len(q) + 1} /\ r[Len(q) + 1] = x
      /\ \A n \in DOMAIN q : r[n] = q[n] /\ n < Len(q) + 1
  BY LineMore
<1>3. i # Len(q) + 1
  <2>1. j \in Nat /\ i \in Nat /\ j <= Len(q) + 1
    <3>1. Len(r) = Len(q) + 1 /\ DOMAIN r = 1 .. Len(r) /\ Len(q) \in Nat
      OBVIOUS
    <3> QED BY <3>1
  <2> QED BY <1>1, <2>1
<1> HIDE DEF r
<1>4. CASE j \in DOMAIN q
  BY <1>1, <1>2, <1>3, <1>4 DEF Ascending
<1>5. CASE j = Len(q) + 1
  BY <1>2, <1>3, <1>5
<1> QED
  BY <1>2, <1>4, <1>5

(* A message more, and its line *)
LEMMA BothMore ==
    ASSUME NEW s \in Seq(Messages), NEW m \in Messages, NEW q \in Seq(Lines),
           NEW d \in SUBSET ({0} \cup DOMAIN s), NEW k \in SUBSET DOMAIN s,
           HasAll(q, s, d, k), m.id = Len(s) + 1
    PROVE  HasAll(Append(q, Told(m)), Append(s, m), d \cup {m.id}, k)
<1> DEFINE t == Append(s, m)
           x == Told(m)
           r == Append(q, x)
<1>1. /\ m.id \in DOMAIN t /\ t[m.id] = m /\ t \in Seq(Messages)
      /\ m.id \notin DOMAIN s /\ Len(s) \in Nat /\ k \in SUBSET DOMAIN t
      /\ m.id # 0
  <2>1. /\ Len(t) = Len(s) + 1 /\ DOMAIN t = 1 .. Len(t) /\ Len(s) \in Nat
        /\ DOMAIN s = 1 .. Len(s) /\ t[Len(s) + 1] = m /\ t \in Seq(Messages)
    OBVIOUS
  <2> QED BY <2>1
<1>2. HasAll(q, t, d, k)
  BY MessageMore
<1>3. /\ x \in Lines /\ x.id = m.id /\ x.notice = FALSE
  BY ToldType DEF Told
<1>4. /\ DOMAIN r = DOMAIN q \cup {Len(q) + 1} /\ r[Len(q) + 1] = x
      /\ \A i \in DOMAIN q : r[i] = q[i]
  BY <1>3, LineMore
<1>5. \A i \in DOMAIN q : q[i].id < x.id
  BY <1>1, <1>3, GenuineId DEF HasAll
<1>6. Ascending(r)
  BY <1>2, <1>3, <1>5, StaysAscending DEF HasAll
<1> HIDE DEF t, r
<1>7. \A i \in DOMAIN r : Genuine(r[i], t, k)
  BY <1>1, <1>2, <1>3, <1>4, SMTT(30) DEF HasAll, Genuine, x
<1>8. ASSUME NEW n \in (d \cup {m.id}) \ {0}
      PROVE  n \in k \/ \E i \in DOMAIN r : r[i] = Told(t[n])
  <2>1. CASE n = m.id
    BY <1>1, <1>4, <2>1 DEF x
  <2>2. CASE n # m.id
    BY <1>2, <1>4, <1>8, <2>2 DEF HasAll
  <2> QED BY <2>1, <2>2
<1>9. 0 \in d /\ k # {} => \E i \in DOMAIN r : r[i].notice
  BY <1>2, <1>4 DEF HasAll
<1>10. HasAll(r, t, d \cup {m.id}, k)
  BY <1>1, <1>6, <1>7, <1>8, <1>9 DEF HasAll
<1> QED
  BY <1>10 DEF r, t

(* The first message that is skipped, and the notice of it *)
LEMMA NoticeMore ==
    ASSUME NEW s \in Seq(Messages), NEW m \in Messages, NEW q \in Seq(Lines),
           NEW d \in SUBSET ({0} \cup DOMAIN s), NEW x \in Lines,
           HasAll(q, s, d, {}), m.id = Len(s) + 1,
           x.id = m.id, x.priority = ErrorPriority, x.notice
    PROVE  HasAll(Append(q, x), Append(s, m), d \cup {m.id}, {m.id})
<1> DEFINE t == Append(s, m)
           r == Append(q, x)
<1>1. m.id \in Nat /\ Len(s) \in Nat /\ {} \in SUBSET DOMAIN s
  BY DEF Messages
<1>2. HasAll(q, t, d, {})
  BY <1>1, MessageMore
<1>3. \A i \in DOMAIN q : q[i].id < x.id
  BY <1>1, GenuineId DEF HasAll
<1>4. /\ DOMAIN r = DOMAIN q \cup {Len(q) + 1} /\ r[Len(q) + 1] = x
      /\ \A i \in DOMAIN q : r[i] = q[i]
  BY LineMore
<1>5. Ascending(r)
  BY <1>2, <1>3, StaysAscending DEF HasAll
<1> HIDE DEF t, r
<1>6. ASSUME NEW i \in DOMAIN r
      PROVE  Genuine(r[i], t, {m.id})
  <2>1. CASE i \in DOMAIN q
    BY <1>2, <1>4, <2>1 DEF HasAll, Genuine
  <2>2. CASE i = Len(q) + 1
    BY <1>1, <1>4, <2>2 DEF Genuine
  <2> QED BY <1>4, <2>1, <2>2
<1>7. \A n \in (d \cup {m.id}) \ {0} :
         n \in {m.id} \/ \E i \in DOMAIN r : r[i] = Told(t[n])
  BY <1>2, <1>4 DEF HasAll
<1>8. \E i \in DOMAIN r : r[i].notice
  BY <1>4
<1>9. HasAll(r, t, d \cup {m.id}, {m.id})
  BY <1>5, <1>6, <1>7, <1>8 DEF HasAll
<1> QED
  BY <1>9 DEF r, t

(* Another one that is skipped *)
LEMMA SkippedMore ==
    ASSUME NEW s \in Seq(Messages), NEW m \in Messages, NEW q \in Seq(Lines),
           NEW d \in SUBSET ({0} \cup DOMAIN s), NEW k \in SUBSET DOMAIN s,
           HasAll(q, s, d, k), m.id = Len(s) + 1,
           \E i \in DOMAIN q : q[i].notice
    PROVE  HasAll(q, Append(s, m), d \cup {m.id}, k \cup {m.id})
<1> DEFINE t == Append(s, m)
<1>1. HasAll(q, t, d, k)
  BY MessageMore
<1>2. \A i \in DOMAIN q : q[i].id <= m.id
  BY GenuineId DEF HasAll
<1> HIDE DEF t
<1>3. ASSUME NEW i \in DOMAIN q
      PROVE  Genuine(q[i], t, k \cup {m.id})
  BY <1>1, <1>2 DEF HasAll, Genuine
<1>4. HasAll(q, t, d \cup {m.id}, k \cup {m.id})
  BY <1>1, <1>3 DEF HasAll
<1> QED
  BY <1>4 DEF t

-----------------------------------------------------------------------------
(* Logging                                                                 *)

(* What doLog does to the entries: it adds the message where a string is   *)
(* left, else a notice, the first time, else nothing.                      *)
LEMMA DoLogAdds ==
    ASSUME IInv, NEW m \in Messages, DoLog(m)
    PROVE  \/ /\ free # <<>>
              /\ \E e \in Entries : /\ entries' = Append(entries, e)
                                    /\ Line(e) = Told(m) /\ ~ e.notice
           \/ /\ free = <<>> /\ ~ HasNotice
              /\ \E e \in Entries : /\ entries' = Append(entries, e)
                                    /\ e.id = m.id /\ e.priority = ErrorPriority
                                    /\ e.notice
           \/ /\ free = <<>> /\ oom /\ entries' = entries
<1>1. /\ entries \in Seq(Entries) /\ free \in Seq(Strings) /\ NoticeLast
  BY DEF IInv, Types
<1>3. CASE Store(m)
  <2>1. PICK s \in Assigned(Last(free), m) :
           entries' = Append(entries, [id |-> m.id, priority |-> m.priority,
                                       string |-> s, notice |-> FALSE])
    BY <1>3 DEF Store
  <2>2. free # <<>> /\ Last(free) \in Strings
    <3>1. free # <<>> /\ Len(free) \in 1 .. Len(free)
      BY <1>1, <1>3 DEF Store
    <3> QED BY <1>1, <3>1, ElementOfSeq DEF Last
  <2>3. s \in Strings
    BY <2>2, AssignedType
  <2> DEFINE e == [id |-> m.id, priority |-> m.priority,
                   string |-> s, notice |-> FALSE]
  <2>4. e \in Entries /\ e.notice = FALSE /\ Line(e) = Told(m)
    BY <2>3 DEF Entries, Messages, Line, Told
  <2> HIDE DEF e
  <2>5. entries' = Append(entries, e)
    BY <2>1 DEF e
  <2> QED BY <2>2, <2>4, <2>5
<1>4. CASE Overflow(m)
  <2> DEFINE e == [id |-> m.id, priority |-> ErrorPriority,
                   string |-> [text |-> oomMessage, cap |-> oomMessage.len],
                   notice |-> TRUE]
  <2>1. e \in Entries /\ e.id = m.id /\ e.priority = ErrorPriority /\ e.notice
    <3>1. /\ oomMessage \in Texts /\ oomMessage.len \in Nat
          /\ ErrorPriority \in Priorities /\ m.id \in Nat
      BY EarlyAppenderAssumption DEF IInv, Types, Texts, Messages
    <3>2. [text |-> oomMessage, cap |-> oomMessage.len] \in Strings
      BY <3>1 DEF Strings
    <3> QED BY <3>1, <3>2 DEF Entries
  <2>2. entries' = Append(entries, e) /\ free = <<>> /\ ~ oom
    BY <1>4 DEF Overflow
  <2> HIDE DEF e
  <2>3. ~ HasNotice
    BY <2>2 DEF IInv, NoticeLast
  <2> QED BY <2>1, <2>2, <2>3
<1>5. CASE Drop(m)
  BY <1>5 DEF Drop
<1> QED
  BY <1>3, <1>4, <1>5 DEF DoLog

(* What has been recorded stays. *)
LEMMA DoLogKeepsEntries ==
    ASSUME IInv, NEW m \in Messages, DoLog(m)
    PROVE  /\ \A i \in 1 .. Len(entries) : /\ i \in DOMAIN entries'
                                           /\ entries'[i] = entries[i]
           /\ Len(entries') >= Len(entries)
<1>1. entries \in Seq(Entries) /\ Len(entries) \in Nat
  BY DEF IInv, Types
<1>2. entries' = entries \/ \E e \in Entries : entries' = Append(entries, e)
  BY DoLogAdds
<1>3. CASE entries' = entries
  BY <1>1, <1>3
<1>4. ASSUME NEW e \in Entries, entries' = Append(entries, e)
      PROVE  /\ \A i \in 1 .. Len(entries) : /\ i \in DOMAIN entries'
                                             /\ entries'[i] = entries[i]
             /\ Len(entries') >= Len(entries)
  BY <1>1, <1>4
<1> QED
  BY <1>2, <1>3, <1>4

LEMMA RecordingType ==
    ASSUME entries \in Seq(Entries)
    PROVE  /\ Recording \in Seq(Lines) /\ Len(Recording) = Len(entries)
           /\ DOMAIN Recording = 1 .. Len(entries)
           /\ \A i \in 1 .. Len(entries) : Recording[i] = Line(entries[i])
<1>1. \A i \in 1 .. Len(entries) : Line(entries[i]) \in Lines
  BY ElementOfSeq, LineType
<1> QED BY <1>1 DEF Recording

(* An entry more is a line more to replay. *)
LEMMA RecordingMore ==
    ASSUME IInv, NEW e \in Entries, entries' = Append(entries, e)
    PROVE  Recording' = Append(Recording, Line(e))
<1> DEFINE x == Line(e)
<1>1. /\ entries \in Seq(Entries) /\ Len(entries) \in Nat /\ x \in Lines
      /\ entries' \in Seq(Entries) /\ Len(entries') = Len(entries) + 1
      /\ entries'[Len(entries) + 1] = e
      /\ \A i \in 1 .. Len(entries) : entries'[i] = entries[i]
  <2>1. entries \in Seq(Entries)
    BY DEF IInv, Types
  <2> QED BY <2>1, AppendProperties, LineType
<1>2. /\ Recording \in Seq(Lines) /\ Len(Recording) = Len(entries)
      /\ \A i \in 1 .. Len(entries) : Recording[i] = Line(entries[i])
  BY <1>1, RecordingType
<1>3. /\ Recording' \in Seq(Lines) /\ Len(Recording') = Len(entries')
      /\ \A i \in 1 .. Len(entries') : Recording'[i] = Line(entries'[i])
  <2>1. \A i \in 1 .. Len(entries') : Line(entries'[i]) \in Lines
    BY <1>1, ElementOfSeq, LineType
  <2> QED BY <1>1, <2>1 DEF Recording
<1> HIDE DEF x
<1>4. /\ Append(Recording, x) \in Seq(Lines)
      /\ Len(Append(Recording, x)) = Len(entries) + 1
      /\ Append(Recording, x)[Len(entries) + 1] = x
      /\ \A i \in 1 .. Len(entries) : Append(Recording, x)[i] = Recording[i]
  BY <1>1, <1>2, AppendProperties
<1>5. ASSUME NEW i \in 1 .. Len(Recording')
      PROVE  Recording'[i] = Append(Recording, x)[i]
  <2>1. i \in 1 .. Len(entries) \/ i = Len(entries) + 1
    BY <1>1, <1>3
  <2>2. CASE i \in 1 .. Len(entries)
    BY <1>1, <1>2, <1>3, <1>4, <2>2
  <2>3. CASE i = Len(entries) + 1
    BY <1>1, <1>3, <1>4, <2>3 DEF x
  <2> QED BY <2>1, <2>2, <2>3
<1>6. Recording' = Append(Recording, x)
  BY <1>1, <1>3, <1>4, <1>5, SeqEqual
<1> QED
  BY <1>6 DEF x

(* What a message does to what there is to replay *)
LEMMA RecordingGrows ==
    ASSUME HInv, handover = "none", clears = 0, NEW m \in Messages,
           DoLog(m), sent' = Append(sent, m),
           skipped' = IF free = <<>> THEN skipped \cup {m.id} ELSE skipped
    PROVE  HasAll(Recording', sent', (due \cup {0}) \cup {m.id}, skipped')
<1>1. HasAll(Recording, sent, due \cup {0}, skipped)
  BY DEF HInv, BeforeHandover
<1>2. /\ m.id = Len(sent) + 1 /\ sent \in Seq(Messages)
      /\ due \cup {0} \in SUBSET ({0} \cup DOMAIN sent)
      /\ skipped \in SUBSET DOMAIN sent
      /\ Recording \in Seq(Lines) /\ DOMAIN Recording = DOMAIN entries
  BY HInvTypes, RecordingType DEF HInv, DoLog, Store, Overflow, Drop, Offer
<1>3. HasNotice <=> \E i \in DOMAIN Recording : Recording[i].notice
  <2>1. \A i \in DOMAIN entries : entries[i].notice => HasNotice
    BY HInvTypes, NoneIsNotice DEF HInv, IInv
  <2>2. HasNotice => Len(entries) \in DOMAIN entries /\ entries[Len(entries)].notice
    <3>1. entries # <<>> => Len(entries) \in 1 .. Len(entries)
      BY HInvTypes
    <3> QED BY <3>1, HInvTypes DEF HasNotice, Last
  <2>3. \A i \in DOMAIN entries : Recording[i].notice = entries[i].notice
    BY DEF Recording, Line
  <2> QED BY <1>2, <2>1, <2>2, <2>3
<1>4. skipped # {} => HasNotice
  BY <1>1, <1>3 DEF HasAll
<1>5. CASE /\ free # <<>>
           /\ \E e \in Entries : /\ entries' = Append(entries, e)
                                 /\ Line(e) = Told(m) /\ ~ e.notice
  <2>1. PICK e \in Entries : entries' = Append(entries, e) /\ Line(e) = Told(m)
    BY <1>5
  <2>2. Recording' = Append(Recording, Told(m)) /\ skipped' = skipped
    BY <1>5, <2>1, RecordingMore DEF HInv
  <2> QED BY <1>1, <1>2, <2>2, BothMore
<1>6. CASE /\ free = <<>> /\ ~ HasNotice
           /\ \E e \in Entries : /\ entries' = Append(entries, e)
                                 /\ e.id = m.id /\ e.priority = ErrorPriority
                                 /\ e.notice
  <2>1. PICK e \in Entries : /\ entries' = Append(entries, e)
                             /\ e.id = m.id /\ e.priority = ErrorPriority
                             /\ e.notice
    BY <1>6
  <2>2. /\ Recording' = Append(Recording, Line(e))
        /\ skipped = {} /\ skipped' = {m.id}
    BY <1>4, <1>6, <2>1, RecordingMore DEF HInv
  <2>3. /\ Line(e) \in Lines /\ Line(e).id = m.id
        /\ Line(e).priority = ErrorPriority /\ Line(e).notice
    BY <2>1, LineType DEF Line
  <2>4. HasAll(Recording, sent, due \cup {0}, {})
    BY <1>1, <2>2
  <2> DEFINE x == Line(e)
  <2> HIDE DEF x
  <2>5. HasAll(Append(Recording, x), Append(sent, m), (due \cup {0}) \cup {m.id},
               {m.id})
    BY <1>2, <2>3, <2>4, NoticeMore DEF x
  <2> QED BY <2>2, <2>5 DEF x
<1>7. CASE free = <<>> /\ oom /\ entries' = entries
  <2>1. HasNotice /\ Recording' = Recording /\ skipped' = skipped \cup {m.id}
    BY <1>7 DEF Recording, HInv, Content, FirstSkip
  <2>2. \E i \in DOMAIN Recording : Recording[i].notice
    BY <1>3, <2>1
  <2> DEFINE q == Recording
             d == due \cup {0}
  <2>3. /\ HasAll(q, sent, d, skipped) /\ \E i \in DOMAIN q : q[i].notice
        /\ q \in Seq(Lines) /\ d \in SUBSET ({0} \cup DOMAIN sent)
    BY <1>1, <1>2, <2>2
  <2> HIDE DEF q, d
  <2>4. HasAll(q, Append(sent, m), d \cup {m.id}, skipped \cup {m.id})
    BY <1>2, <2>3, SkippedMore
  <2> QED BY <2>1, <2>4 DEF q, d
<1> QED
  BY <1>5, <1>6, <1>7, DoLogAdds DEF HInv

LEMMA LogInv ==
    ASSUME HInv, NEW m \in Messages, Log(m)
    PROVE  HInv'
<1>1. /\ calls' = calls + 1 /\ sent' = Append(sent, m) /\ m.id = calls + 1
      /\ UNCHANGED <<attached, locked, replay, replays, threshold, clears>>
      /\ skipped' = IF handover = "none" /\ Reaches(m, "early") /\ free = <<>>
                    THEN skipped \cup {m.id} ELSE skipped
      /\ due' = IF Due(m) THEN due \cup {m.id} ELSE due
      /\ handover' = IF Missed(m) THEN "broken" ELSE handover
      /\ real' = IF Reaches(m, "real") THEN Append(real, Told(m)) ELSE real
  BY DEF Log, Judge, program, DoLog, Store, Overflow, Drop, Offer
<1>2. IInv' /\ Content'
  <2>1. CASE Reaches(m, "early")
    BY <2>1, DoLogKeeps DEF Log, HInv
  <2>2. CASE ~ Reaches(m, "early")
    <3>1. /\ UNCHANGED <<entries, free, oomMessage, oom, offered, lost,
                         defined, clears>>
          /\ calls' \in Nat
      BY <1>1, <2>2, HInvTypes DEF Log
    <3> QED BY <3>1 DEF HInv, IInv, Types, NoticeLast, StringsConserved,
                 FreeHasRoom, RoomFor, Content, InStep, NoHole, NoticeIntact,
                 FirstSkip, FreshFree, OwnText, HasNotice, Recorded
  <2> QED BY <2>1, <2>2
<1>3. /\ \A i \in 1 .. Len(entries) : i \in DOMAIN entries' /\ entries'[i] = entries[i]
      /\ Len(entries') >= Len(entries)
  <2>1. CASE Reaches(m, "early")
    BY <2>1, DoLogKeepsEntries DEF Log, HInv
  <2>2. CASE ~ Reaches(m, "early")
    BY <2>2, HInvTypes DEF Log
  <2> QED BY <2>1, <2>2
<1>4. /\ Len(sent) = calls /\ Len(sent') = calls' /\ sent' \in Seq(Messages)
      /\ DOMAIN sent' = DOMAIN sent \cup {m.id} /\ sent'[m.id] = m
      /\ \A n \in DOMAIN sent : sent'[n] = sent[n]
      /\ m.id \notin DOMAIN sent /\ m.id # 0
  <2>1. /\ Len(sent') = Len(sent) + 1 /\ sent' \in Seq(Messages)
        /\ sent'[Len(sent) + 1] = m
        /\ \A n \in 1 .. Len(sent) : sent'[n] = sent[n]
    BY <1>1, HInvTypes, AppendProperties
  <2>2. /\ DOMAIN sent = 1 .. calls /\ DOMAIN sent' = 1 .. calls + 1
        /\ Len(sent) = calls /\ calls \in Nat
    BY <2>1, HInvTypes DEF HInv
  <2> QED BY <1>1, <2>1, <2>2
<1>5. real' \in Seq(Lines)
  BY <1>1, HInvTypes, ToldType, AppendProperties
<1>6. ProgramTypes'
  BY <1>1, <1>4, <1>5 DEF HInv, ProgramTypes
<1>7. Numbered'
  BY <1>1, <1>4 DEF HInv, Numbered
<1>8. DueStill'
  <2> SUFFICES ASSUME handover' \in {"none", "replayed"}, NEW n \in due'
               PROVE  PriorityOf(n)' <= threshold["real"]
    BY <1>1 DEF DueStill
  <2>1. CASE n \in due
    <3>1. PriorityOf(n) <= threshold["real"]
      <4>1. handover \in {"none", "replayed"}
        BY <1>1
      <4> QED BY <2>1, <4>1 DEF HInv, DueStill
    <3>2. n = 0 \/ n \in DOMAIN sent
      BY <2>1, HInvTypes
    <3>3. PriorityOf(n)' = PriorityOf(n)
      BY <1>4, <3>2 DEF PriorityOf
    <3> QED BY <3>1, <3>3
  <2>2. CASE n = m.id /\ Due(m)
    BY <1>4, <2>2 DEF Due, PriorityOf
  <2> QED BY <1>1, <2>1, <2>2
<1>9. Bounded'
  <2>1. Len(entries') \in Nat
    <3>1. entries' \in Seq(Entries)
      BY <1>2 DEF IInv, Types
    <3> QED BY <3>1
  <2> QED BY <1>1, <1>3, <2>1, HInvTypes DEF HInv, Bounded, Replaying
<1>10. BeforeHandover'
  <2> SUFFICES ASSUME handover' = "none", clears' = 0
               PROVE  HasAll(Recording', sent', due' \cup {0}, skipped')
    BY DEF BeforeHandover
  <2>1. handover = "none" /\ clears = 0 /\ ~ Missed(m)
    BY <1>1
  <2>2. CASE Reaches(m, "early")
    <3>1. DoLog(m)
      BY <2>2 DEF Log
    <3>2. HasAll(Recording', sent', (due \cup {0}) \cup {m.id}, skipped')
      BY <1>1, <2>1, <2>2, <3>1, RecordingGrows
    <3>3. due' \cup {0} \in SUBSET ((due \cup {0}) \cup {m.id})
      BY <1>1
    <3> QED BY <3>2, <3>3, Fewer
  <2>3. CASE ~ Reaches(m, "early")
    <3>1. ~ Due(m)
      BY <2>1, <2>3 DEF Due, Missed, Reaches
    <3>2. Recording' = Recording /\ due' = due /\ skipped' = skipped
      BY <1>1, <2>3, <3>1 DEF Log, Recording
    <3>3. HasAll(Recording, sent, due \cup {0}, skipped)
      BY <2>1 DEF HInv, BeforeHandover
    <3>4. /\ due \cup {0} \in SUBSET ({0} \cup DOMAIN sent)
          /\ skipped \in SUBSET DOMAIN sent /\ sent \in Seq(Messages)
          /\ Recording \in Seq(Lines)
      BY HInvTypes, RecordingType
    <3> QED BY <1>1, <3>2, <3>3, <3>4, MessageMore
  <2> QED BY <2>2, <2>3
<1>11. DuringReplay'
  <2> SUFFICES ASSUME handover' = "none", Replaying'
               PROVE  FALSE
    BY DEF DuringReplay
  <2>1. handover = "none" /\ Replaying
    BY <1>1 DEF Replaying
  <2> QED BY <2>1 DEF HInv, DuringReplay, Log
<1>12. HandedOver'
  <2>1. handover' = handover \/ handover' = "broken"
    BY <1>1
  <2>2. ASSUME handover' \in {"replayed", "done"}
        PROVE  RealHasAll'
    <3>1. /\ ~ Replaying /\ HasAll(real, sent, due, skipped)
          /\ handover = handover' /\ skipped' = skipped
      BY <1>1, <2>1, <2>2, RealHas DEF HInv, HandedOver
    <3>2. /\ due \in SUBSET ({0} \cup DOMAIN sent)
          /\ skipped \in SUBSET DOMAIN sent /\ sent \in Seq(Messages)
          /\ real \in Seq(Lines) /\ m.id = Len(sent) + 1
      BY <1>1, <1>4, HInvTypes
    <3>3. HasAll(real', sent', due', skipped')
      <4>1. CASE Reaches(m, "real")
        <5>1. HasAll(real', sent', due \cup {m.id}, skipped)
          BY <1>1, <3>1, <3>2, <4>1, BothMore
        <5>2. due' \in SUBSET (due \cup {m.id})
          BY <1>1
        <5> QED BY <3>1, <5>1, <5>2, Fewer
      <4>2. CASE ~ Reaches(m, "real")
        <5>1. ~ Due(m)
          BY <1>1, <2>2, <3>1, <4>2 DEF HInv, HandedOver, Due, Missed, Reaches
        <5> QED BY <1>1, <3>1, <3>2, <4>2, <5>1, MessageMore
      <4> QED BY <4>1, <4>2
    <3> QED BY <3>3 DEF RealHasAll, HasAll, Ascending, Genuine, FirstSkipped
  <2> QED BY <1>1, <2>1, <2>2 DEF HInv, HandedOver, Replaying
<1> QED
  BY <1>2, <1>4, <1>6, <1>7, <1>8, <1>9, <1>10, <1>11, <1>12 DEF HInv

-----------------------------------------------------------------------------
(* The replay                                                              *)

(* The steps that leave the EarlyAppender alone, what has been sent, and   *)
(* what is due                                                             *)
LEMMA SameRecording ==
    ASSUME HInv, UNCHANGED <<vars, sent, due, skipped>>
    PROVE  /\ IInv' /\ Content' /\ Numbered' /\ Len(sent') = calls'
           /\ Recording' = Recording
<1>1. IInv' /\ Content'
  BY UnchangedContent DEF HInv, vars, IInv, Types, NoticeLast, HasNotice,
       StringsConserved, Recorded, FreeHasRoom, RoomFor
<1> QED
  BY <1>1 DEF HInv, vars, Numbered, Recording

LEMMA BeginReplayInv ==
    ASSUME HInv, NEW p \in Priorities, BeginReplay(p)
    PROVE  HInv'
<1>1. /\ UNCHANGED <<vars, attached, threshold, locked, real, sent, due, skipped>>
      /\ replay' = [next |-> 1, end |-> Len(entries), priority |-> p]
      /\ replays' = replays + 1 /\ ~ Replaying
  BY DEF BeginReplay, ghosts
<1>2. /\ IInv' /\ Content' /\ Numbered' /\ Len(sent') = calls'
      /\ Recording' = Recording /\ UNCHANGED <<entries, calls, clears>>
  BY <1>1, SameRecording DEF vars
<1>3. \/ handover' = "broken"
      \/ /\ handover' = "none" /\ handover = "none"
         /\ locked /\ real = <<>> /\ clears = 0
         /\ p = Lowest /\ "real" \notin attached
  BY DEF BeginReplay
<1>4. ProgramTypes'
  <2>2. replay' \in [next : Nat, end : Nat, priority : Nat]
    BY <1>1, HInvTypes, EarlyAppenderAssumption
  <2> QED BY <1>1, <1>3, <2>2 DEF HInv, ProgramTypes
<1>5. Bounded' /\ BeforeHandover'
  <2>1. replay'.next = 1 /\ replay'.end = Len(entries')
    BY <1>1, <1>2
  <2>2. Bounded'
    BY <1>2, <2>1, HInvTypes DEF Bounded
  <2>3. BeforeHandover'
    BY <1>1, <1>2, <1>3 DEF HInv, BeforeHandover
  <2> QED BY <2>2, <2>3
<1>6. DueStill' /\ HandedOver'
  BY <1>1, <1>3 DEF HInv, DueStill, PriorityOf, HandedOver
<1>7. DuringReplay'
  BY <1>1, <1>2, <1>3 DEF DuringReplay, Ascending
<1> QED
  BY <1>2, <1>4, <1>5, <1>6, <1>7 DEF HInv

(* The next entry, which the real appender admits if it is wanted. *)
LEMMA NextEntry ==
    ASSUME HInv, handover = "none", Replaying, replay.next <= replay.end
    PROVE  /\ replay.next \in 1 .. Len(entries) /\ entries[replay.next] \in Entries
           /\ replay.next \in DOMAIN Recording
           /\ Recording[replay.next] = Line(entries[replay.next])
           /\ Wanted(Recording[replay.next]) =>
                 Replayed(entries[replay.next]) = <<Recording[replay.next]>>
<1> DEFINE x == entries[replay.next]
           line == Recording[replay.next]
<1>1. replay.next \in 1 .. Len(entries)
  BY HInvTypes DEF HInv, Bounded
<1>2. /\ x \in Entries /\ replay.next \in DOMAIN Recording
      /\ line = Line(x)
  BY <1>1, HInvTypes, ElementOfSeq DEF Recording
<1>3. Genuine(line, sent, skipped) /\ DueStill
  BY <1>2 DEF HInv, DuringReplay, BeforeHandover, HasAll
<1>4. ASSUME Wanted(line)
      PROVE  Replayed(x) = <<line>>
  <2>1. line.priority <= threshold["real"]
    <3>1. CASE line.notice
      BY <1>3, <1>4, <3>1 DEF Genuine, Wanted, DueStill, PriorityOf
    <3>2. CASE ~ line.notice
      <4>1. line.id \in DOMAIN sent /\ line.priority = sent[line.id].priority
        BY <1>3, <3>2 DEF Genuine, Told
      <4>2. line.id # 0
        BY <4>1, HInvTypes
      <4>3. PriorityOf(line.id) <= threshold["real"]
        BY <1>3, <1>4, <3>2 DEF Wanted, DueStill
      <4> QED BY <4>1, <4>2, <4>3 DEF PriorityOf
    <3> QED BY <3>1, <3>2
  <2>2. x.priority <= threshold["real"] /\ x.priority \in Priorities
    BY <1>2, <2>1 DEF Line, Entries
  <2>3. x.priority <= replay.priority
    BY <2>2, LowestIs DEF HInv, DuringReplay
  <2> QED BY <1>2, <2>2, <2>3 DEF Replayed
<1> QED
  BY <1>1, <1>2, <1>4

LEMMA ReplayNextInv ==
    ASSUME HInv, ReplayNext
    PROVE  HInv'
<1>1. /\ UNCHANGED <<vars, attached, threshold, locked, sent, due, skipped,
                     handover, replays>>
      /\ Replaying /\ replay.next <= replay.end
      /\ real' = real \o Replayed(entries[replay.next])
      /\ replay' = [replay EXCEPT !.next = @ + 1]
  BY DEF ReplayNext, ghosts
<1>2. /\ IInv' /\ Content' /\ Numbered' /\ Len(sent') = calls'
      /\ Recording' = Recording /\ UNCHANGED <<entries, calls, clears>>
  BY <1>1, SameRecording DEF vars
<1> DEFINE x == entries[replay.next]
<1>3. /\ replay.next \in Nat /\ replay.end \in Nat /\ replay.next >= 1
      /\ replay.next \in 1 .. Len(entries)
      /\ replay' \in [next : Nat, end : Nat, priority : Nat]
      /\ replay'.next = replay.next + 1 /\ replay'.end = replay.end
      /\ replay'.priority = replay.priority
  <2>1. replay.next >= 1 /\ replay.end <= Len(entries)
    BY <1>1 DEF HInv, Bounded
  <2>2. replay \in [next : Nat, end : Nat, priority : Nat] /\ Len(entries) \in Nat
    BY HInvTypes
  <2>3. /\ replay' = [replay EXCEPT !.next = replay.next + 1]
        /\ replay.next <= replay.end
    BY <1>1
  <2>4. replay.next \in Nat /\ replay.end \in Nat /\ replay.next \in 1 .. Len(entries)
    BY <2>1, <2>2, <2>3
  <2>5. /\ replay' \in [next : Nat, end : Nat, priority : Nat]
        /\ replay'.next = replay.next + 1 /\ replay'.end = replay.end
        /\ replay'.priority = replay.priority
    BY <2>2, <2>3, <2>4
  <2> QED BY <2>1, <2>4, <2>5
<1>4. Line(x) \in Lines /\ real \in Seq(Lines)
  BY <1>3, HInvTypes, ElementOfSeq, LineType
<1> HIDE DEF x
<1>5. \/ real' = real
      \/ real' = Append(real, Line(x))
  <2>1. real' = real \o <<>> \/ real' = real \o <<Line(x)>>
    BY <1>1 DEF Replayed, x
  <2>2. real \o <<>> = real /\ real \o <<Line(x)>> = Append(real, Line(x))
    BY <1>4
  <2> QED BY <2>1, <2>2
<1>6. ProgramTypes'
  <2>1. real' \in Seq(Lines)
    BY <1>4, <1>5, AppendProperties
  <2> QED BY <1>1, <1>3, <2>1 DEF HInv, ProgramTypes
<1>7. BeforeHandover' /\ DueStill'
  BY <1>1, <1>2 DEF HInv, BeforeHandover, DueStill, PriorityOf
<1>8. Bounded'
  BY <1>1, <1>2, <1>3, HInvTypes DEF HInv, Bounded
<1>9. HandedOver'
  BY <1>1 DEF HInv, HandedOver
<1>10. DuringReplay'
  <2> SUFFICES ASSUME handover = "none"
               PROVE  /\ Ascending(real')
                      /\ \A i \in DOMAIN real' :
                            \E j \in 1 .. replay.next : real'[i] = Recording[j]
                      /\ \A j \in 1 .. replay.next :
                            Wanted(Recording[j]) =>
                               \E i \in DOMAIN real' : real'[i] = Recording[j]
    <3>1. 1 .. replay'.next - 1 = 1 .. replay.next
      BY <1>3
    <3>2. \A line : Wanted(line)' <=> Wanted(line)
      BY <1>1 DEF Wanted
    <3> QED BY <1>1, <1>2, <1>3, <3>1, <3>2, SMTT(30) DEF HInv, DuringReplay
  <2> DEFINE line == Recording[replay.next]
  <2>1. /\ Ascending(real)
        /\ \A i \in DOMAIN real :
              \E j \in 1 .. replay.next - 1 : real[i] = Recording[j]
        /\ \A j \in 1 .. replay.next - 1 :
              Wanted(Recording[j]) => \E i \in DOMAIN real : real[i] = Recording[j]
        /\ Ascending(Recording)
    BY <1>1 DEF HInv, DuringReplay, BeforeHandover, HasAll
  <2>2. /\ line = Line(x) /\ replay.next \in DOMAIN Recording
        /\ Wanted(line) => Replayed(x) = <<line>>
    BY <1>1, NextEntry DEF x
  <2>3. 1 .. replay.next = 1 .. replay.next - 1 \cup {replay.next}
    BY <1>3
  <2>4. CASE real' = real /\ ~ Wanted(line)
    BY <2>1, <2>3, <2>4
  <2>5. CASE real' = Append(real, Line(x))
    <3>1. /\ DOMAIN real' = DOMAIN real \cup {Len(real) + 1}
          /\ real'[Len(real) + 1] = line
          /\ \A i \in DOMAIN real : real'[i] = real[i]
      BY <1>4, <2>2, <2>5, LineMore
    <3>2. ASSUME NEW i \in DOMAIN real
          PROVE  real[i].id < Line(x).id
      <4>1. PICK j \in 1 .. replay.next - 1 : real[i] = Recording[j]
        BY <2>1
      <4>2. j \in DOMAIN Recording /\ j < replay.next
        BY <1>3, HInvTypes, SMTT(30) DEF Recording
      <4> QED BY <2>1, <2>2, <4>1, <4>2 DEF Ascending
    <3>3. Ascending(real')
      BY <1>4, <2>1, <2>5, <3>2, StaysAscending
    <3>4. \A i \in DOMAIN real' :
             \E j \in 1 .. replay.next : real'[i] = Recording[j]
      BY <2>1, <2>3, <3>1, SMTT(30)
    <3>5. \A j \in 1 .. replay.next :
             Wanted(Recording[j]) => \E i \in DOMAIN real' : real'[i] = Recording[j]
      BY <2>1, <2>3, <3>1
    <3> QED BY <3>3, <3>4, <3>5
  <2>6. Wanted(line) => real' = Append(real, Line(x))
    <3>1. ASSUME Wanted(line) PROVE real' = real \o <<Line(x)>>
      BY <1>1, <2>2, <3>1 DEF x
    <3>2. real \o <<Line(x)>> = Append(real, Line(x))
      BY <1>4
    <3> QED BY <3>1, <3>2
  <2> HIDE DEF line
  <2> QED BY <1>5, <2>4, <2>5, <2>6
<1> QED
  BY <1>2, <1>6, <1>7, <1>8, <1>9, <1>10 DEF HInv

(* At the end of the replay, the real appender has all there was to replay *)
(* and it admitted.                                                        *)
LEMMA ReplayedAll ==
    ASSUME HInv, handover = "none", Replaying, replay.next > replay.end
    PROVE  RealHasAll
<1>1. /\ HasAll(Recording, sent, due \cup {0}, skipped)
      /\ Ascending(real)
      /\ \A i \in DOMAIN real :
            \E j \in 1 .. replay.next - 1 : real[i] = Recording[j]
      /\ \A j \in 1 .. replay.next - 1 :
            Wanted(Recording[j]) => \E i \in DOMAIN real : real[i] = Recording[j]
  BY DEF HInv, DuringReplay, BeforeHandover
<1>2. 1 .. replay.next - 1 = DOMAIN Recording
  <2>1. /\ replay.next <= replay.end + 1 /\ replay.end = Len(entries)
        /\ replay.next \in Nat /\ replay.end \in Nat
    BY HInvTypes DEF HInv, Bounded, DuringReplay
  <2>2. DOMAIN Recording = 1 .. Len(entries)
    BY HInvTypes DEF Recording
  <2>3. replay.next - 1 = Len(entries)
    BY <2>1
  <2> QED BY <2>2, <2>3
<1>3. \A i \in DOMAIN real : Genuine(real[i], sent, skipped)
  BY <1>1, <1>2 DEF HasAll
<1>4. ASSUME NEW n \in due \ {0}
      PROVE  n \in skipped \/ \E i \in DOMAIN real : real[i] = Told(sent[n])
  <2>1. n \in skipped \/ \E j \in DOMAIN Recording : Recording[j] = Told(sent[n])
    BY <1>1 DEF HasAll
  <2>2. Told(sent[n]).id = n /\ ~ Told(sent[n]).notice
    BY HInvTypes DEF HInv, Numbered, Told
  <2>3. Wanted(Told(sent[n]))
    BY <2>2 DEF Wanted
  <2> QED BY <1>1, <1>2, <2>1, <2>3
<1>5. 0 \in due /\ skipped # {} => \E i \in DOMAIN real : real[i].notice
  <2>1. ASSUME 0 \in due, skipped # {}
        PROVE  \E i \in DOMAIN real : real[i].notice
    <3>1. PICK j \in DOMAIN Recording : Recording[j].notice
      BY <1>1, <2>1 DEF HasAll
    <3>2. Wanted(Recording[j])
      BY <2>1, <3>1 DEF Wanted
    <3> QED BY <1>1, <1>2, <3>1, <3>2
  <2> QED BY <2>1
<1> QED
  BY <1>1, <1>3, <1>4, <1>5, RealHas DEF HasAll

LEMMA EndReplayInv ==
    ASSUME HInv, EndReplay
    PROVE  HInv'
<1>1. /\ UNCHANGED <<vars, attached, threshold, locked, sent, due, skipped,
                     real, replays>>
      /\ Replaying /\ replay.next > replay.end /\ replay' = None
      /\ handover' = IF handover = "none" THEN "replayed" ELSE handover
  BY DEF EndReplay, ghosts
<1>2. /\ IInv' /\ Content' /\ Numbered' /\ Len(sent') = calls'
      /\ Recording' = Recording /\ UNCHANGED <<entries, calls, clears>>
  BY <1>1, SameRecording DEF vars
<1>3. ProgramTypes'
  BY <1>1 DEF HInv, ProgramTypes, None
<1>4. Bounded' /\ DuringReplay' /\ BeforeHandover' /\ DueStill'
  BY <1>1, <1>2 DEF HInv, Bounded, DuringReplay, BeforeHandover, Replaying,
                    DueStill, PriorityOf
<1>5. HandedOver'
  <2>1. handover = "none" => RealHasAll
    BY <1>1, ReplayedAll
  <2>2. handover # "done" /\ handover # "replayed"
    BY <1>1 DEF HInv, HandedOver
  <2> QED BY <1>1, <2>1, <2>2, SameOutput DEF HInv, HandedOver, Replaying
<1> QED
  BY <1>2, <1>3, <1>4, <1>5 DEF HInv

-----------------------------------------------------------------------------
(* The other calls                                                         *)

(* What is due may become less, and that alone. *)
LEMMA SetPriorityInv ==
    ASSUME HInv, NEW x \in {"backend", "early", "real"}, NEW p \in Priorities,
           SetPriority(x, p)
    PROVE  HInv'
<1>1. /\ UNCHANGED <<vars, attached, locked, replay, replays, real, sent,
                     skipped, handover>>
      /\ threshold' = [threshold EXCEPT ![x] = p]
      /\ due' = IF x = "real" /\ handover # "done"
                THEN {k \in due : PriorityOf(k) <= p} ELSE due
  BY DEF SetPriority, program
<1>2. due' \in SUBSET due /\ due' \cup {0} \in SUBSET (due \cup {0})
  BY <1>1
<1>3. IInv' /\ Content'
  BY <1>1, UnchangedContent DEF HInv, vars, IInv, Types, NoticeLast, HasNotice,
       StringsConserved, Recorded, FreeHasRoom, RoomFor
<1>4. UNCHANGED <<entries, calls, clears, Recording>>
  BY <1>1 DEF vars, Recording
<1>5. ProgramTypes' /\ Len(sent') = calls' /\ Numbered' /\ Bounded'
  BY <1>1, <1>2, <1>4 DEF HInv, ProgramTypes, Numbered, Bounded, Replaying
<1>6. DueStill'
  <2> SUFFICES ASSUME handover \in {"none", "replayed"}, NEW k \in due'
               PROVE  PriorityOf(k) <= threshold'["real"]
    BY <1>1 DEF DueStill, PriorityOf
  <2>1. CASE x = "real"
    BY <1>1, <2>1, HInvTypes
  <2>2. CASE x # "real"
    BY <1>1, <2>2, HInvTypes DEF HInv, DueStill
  <2> QED BY <2>1, <2>2
<1>7. BeforeHandover'
  BY <1>1, <1>2, <1>4, Fewer DEF HInv, BeforeHandover
<1>8. DuringReplay'
  <2>1. \A line : Wanted(line)' => Wanted(line)
    BY <1>2 DEF Wanted
  <2> QED BY <1>1, <1>4, <2>1 DEF HInv, DuringReplay, Replaying
<1>9. HandedOver'
  <2>1. RealHasAll => HasAll(real, sent, due', skipped)
    BY <1>2, RealHas, Fewer
  <2>2. RealHasAll => RealHasAll'
    BY <1>1, <2>1 DEF RealHasAll, HasAll, Ascending, Genuine, FirstSkipped
  <2> QED BY <1>1, <2>2 DEF HInv, HandedOver, Replaying
<1> QED
  BY <1>3, <1>5, <1>6, <1>7, <1>8, <1>9 DEF HInv

(* Neither the EarlyAppender nor what has been output is touched. *)
LEMMA SettingInv ==
    ASSUME HInv, UNCHANGED <<vars, threshold, replay, replays, real, ghosts>>,
           ~ Replaying,
           attached' \subseteq {"early", "real"}, locked' \in BOOLEAN,
           handover' \in {handover, "broken"}
                \/ (handover = "replayed" /\ handover' = "done"),
           handover' \in {"none", "replayed"} => "real" \notin attached',
           handover' = "done" => "real" \in attached'
    PROVE  HInv'
<1>1. UNCHANGED <<sent, due, skipped>>
  BY DEF ghosts
<1>2. /\ IInv' /\ Content' /\ Numbered' /\ Len(sent') = calls'
      /\ Recording' = Recording /\ UNCHANGED <<entries, calls, clears>>
  BY <1>1, SameRecording DEF vars
<1>3. ProgramTypes'
  BY <1>1 DEF HInv, ProgramTypes
<1>4. Bounded' /\ DuringReplay' /\ BeforeHandover' /\ DueStill'
  <2>1. ~ Replaying'
    BY DEF Replaying
  <2>2. BeforeHandover'
    BY <1>1, <1>2 DEF HInv, BeforeHandover
  <2>3. DueStill'
    BY <1>1 DEF HInv, DueStill, PriorityOf
  <2> QED BY <2>1, <2>2, <2>3 DEF Bounded, DuringReplay
<1>5. HandedOver'
  BY <1>1, SameOutput DEF HInv, HandedOver, Replaying
<1> QED
  BY <1>2, <1>3, <1>4, <1>5 DEF HInv

LEMMA RetrieveInv == HInv /\ Retrieve => HInv'
<1> SUFFICES ASSUME HInv, Retrieve PROVE HInv'
  OBVIOUS
<1>1. /\ handover = "done" => "real" \in attached
      /\ handover \in {"none", "replayed"} => "real" \notin attached
  BY DEF HInv, HandedOver
<1> QED
  BY <1>1, SettingInv DEF Retrieve, Program, HInv, ProgramTypes

LEMMA ReleaseInv == HInv /\ Release => HInv'
<1> SUFFICES ASSUME HInv, Release PROVE HInv'
  OBVIOUS
<1>1. /\ handover = "done" => "real" \in attached
      /\ handover \in {"none", "replayed"} => "real" \notin attached
  BY DEF HInv, HandedOver
<1> QED
  BY <1>1, SettingInv DEF Release, Program, HInv, ProgramTypes

LEMMA AttachRealInv == HInv /\ AttachReal => HInv'
<1> SUFFICES ASSUME HInv, AttachReal PROVE HInv'
  OBVIOUS
<1>1. "real" \in attached' /\ attached' \subseteq {"early", "real"}
  BY DEF AttachReal, HInv, ProgramTypes
<1>2. \/ handover' \in {handover, "broken"} /\ handover' \notin {"none", "replayed"}
      \/ handover = "replayed" /\ handover' = "done"
  BY DEF AttachReal, HInv, HandedOver
<1> QED
  BY <1>1, <1>2, SettingInv DEF AttachReal, Program, HInv, ProgramTypes

LEMMA DetachEarlyInv == HInv /\ DetachEarly => HInv'
<1> SUFFICES ASSUME HInv, DetachEarly PROVE HInv'
  OBVIOUS
<1>1. /\ handover' = "done" => "real" \in attached'
      /\ handover' \in {"none", "replayed"} => "real" \notin attached'
  BY DEF HInv, HandedOver, DetachEarly
<1> QED
  BY <1>1, SettingInv DEF DetachEarly, Program, HInv, ProgramTypes

LEMMA ClearEarlyInv == HInv /\ ClearEarly => HInv'
<1> SUFFICES ASSUME HInv, ClearEarly PROVE HInv'
  OBVIOUS
<1>1. /\ UNCHANGED <<attached, threshold, locked, handover, replay, replays,
                     real, sent, due, skipped, calls>>
      /\ ~ Replaying /\ clears' = clears + 1
  BY DEF ClearEarly, Program, Clear, ClearEmpty, ghosts
<1>2. IInv' /\ Content'
  BY ClearInv, ClearEmptyInv, ClearContent, ClearEmptyContent DEF HInv, ClearEarly
<1>3. ProgramTypes' /\ Len(sent') = calls' /\ Numbered' /\ DueStill'
  BY <1>1 DEF HInv, ProgramTypes, Numbered, DueStill, PriorityOf
<1>4. Bounded' /\ DuringReplay' /\ HandedOver'
  BY <1>1, SameOutput DEF HInv, Bounded, DuringReplay, HandedOver, Replaying
<1>5. BeforeHandover'
  BY <1>1, HInvTypes DEF BeforeHandover
<1> QED
  BY <1>2, <1>3, <1>4, <1>5 DEF HInv

-----------------------------------------------------------------------------

LEMMA HandoffInitInv == HandoffInit => HInv
<1> SUFFICES ASSUME HandoffInit PROVE HInv
  OBVIOUS
<1>1. IInv /\ Content
  BY InitInv, InitContent DEF HandoffInit
<1>2. /\ entries = <<>> /\ calls = 0 /\ sent = <<>> /\ due = {0} /\ skipped = {}
      /\ real = <<>> /\ ~ Replaying /\ handover = "none" /\ attached = {"early"}
      /\ Len(sent) = 0 /\ DOMAIN sent = {} /\ DOMAIN Recording = {}
  BY DEF HandoffInit, Init, Replaying, Recording
<1>3. PICK p \in Priorities :
         threshold = [x \in {"backend", "early", "real"} |->
                         IF x = "backend" THEN p ELSE Lowest]
  BY DEF HandoffInit
<1>4. ProgramTypes
  <2>1. /\ sent \in Seq(Messages)
        /\ real \in Seq(Lines)
    BY <1>2, EmptySeq
  <2>2. threshold \in [{"backend", "early", "real"} -> Priorities]
    BY <1>3, LowestIs
  <2> QED BY <1>2, <2>1, <2>2 DEF HandoffInit, ProgramTypes, None
<1>5. DueStill
  BY <1>2, <1>3, LowestIs, EarlyAppenderAssumption DEF DueStill, PriorityOf
<1>6. BeforeHandover
  BY <1>2 DEF BeforeHandover, HasAll, Ascending
<1> QED
  BY <1>1, <1>2, <1>4, <1>5, <1>6 DEF HInv, Numbered, Bounded, DuringReplay, HandedOver

LEMMA HandoffNextInv == HInv /\ [HandoffNext]_handoffVars => HInv'
<1> SUFFICES ASSUME HInv, [HandoffNext]_handoffVars PROVE HInv'
  OBVIOUS
<1>1. ASSUME NEW len \in Lengths, NEW p \in Priorities,
             Log([id |-> calls + 1, len |-> len, priority |-> p])
      PROVE  HInv'
  <2> DEFINE m == [id |-> calls + 1, len |-> len, priority |-> p]
  <2>1. m \in Messages
    BY HInvTypes, EarlyAppenderAssumption DEF Messages
  <2> HIDE DEF m
  <2>2. Log(m)
    BY <1>1 DEF m
  <2> QED BY <2>1, <2>2, LogInv
<1>2. CASE UNCHANGED handoffVars
  <2>1. /\ UNCHANGED <<vars, sent, due, skipped>>
        /\ UNCHANGED <<attached, threshold, locked, replay, replays, real, handover>>
    BY <1>2 DEF handoffVars, program, ghosts
  <2>2. /\ IInv' /\ Content' /\ Numbered' /\ Len(sent') = calls'
        /\ Recording' = Recording /\ UNCHANGED <<entries, calls, clears>>
    BY <2>1, SameRecording DEF vars
  <2>3. ProgramTypes' /\ Bounded' /\ BeforeHandover' /\ DueStill'
    BY <2>1, <2>2 DEF HInv, ProgramTypes, Bounded, BeforeHandover, Replaying,
                      DueStill, PriorityOf
  <2>4. DuringReplay'
    BY <2>1, <2>2 DEF HInv, DuringReplay, Replaying, Wanted
  <2>5. HandedOver'
    BY <2>1, SameOutput DEF HInv, HandedOver, Replaying
  <2> QED BY <2>2, <2>3, <2>4, <2>5 DEF HInv
<1> QED
  BY <1>1, <1>2, BeginReplayInv, ReplayNextInv, EndReplayInv, SetPriorityInv,
     RetrieveInv, ReleaseInv, AttachRealInv, DetachEarlyInv, ClearEarlyInv
  DEF HandoffNext

(* HInv holds in every reachable state. *)
THEOREM HandoffInvariance == HandoffSpec => []HInv
  BY HandoffInitInv, HandoffNextInv, PTL DEF HandoffSpec

(* A handover under one Lock loses, repeats and reorders nothing that the  *)
(* thresholds of the backend and of both appenders admit.                  *)
THEOREM NothingLostInHandover == HandoffSpec => []HandoverComplete
<1>1. HInv => HandoverComplete
  BY DEF HInv, HandedOver, HandoverComplete
<1> QED
  BY <1>1, HandoffInvariance, PTL

(* What logToAppender() has still to walk does not change under it. *)
THEOREM ReplayIsSafe == HandoffSpec => ReplayUndisturbed
<1>1. ASSUME HInv, [HandoffNext]_handoffVars, Replaying
      PROVE  \A i \in replay.next .. replay.end :
                i \in DOMAIN entries /\ entries'[i] = entries[i]
  <2>1. \A i \in replay.next .. replay.end : /\ i \in 1 .. Len(entries)
                                             /\ i \in DOMAIN entries
    BY <1>1, HInvTypes DEF HInv, Bounded
  <2>2. ASSUME NEW len \in Lengths, NEW p \in Priorities,
               Log([id |-> calls + 1, len |-> len, priority |-> p])
        PROVE  \A i \in 1 .. Len(entries) : entries'[i] = entries[i]
    <3> DEFINE m == [id |-> calls + 1, len |-> len, priority |-> p]
    <3>1. m \in Messages
      BY <1>1, HInvTypes, EarlyAppenderAssumption DEF Messages
    <3> HIDE DEF m
    <3>2. Log(m)
      BY <2>2 DEF m
    <3>3. CASE Reaches(m, "early")
      BY <1>1, <3>1, <3>2, <3>3, DoLogKeepsEntries DEF Log, HInv
    <3>4. CASE ~ Reaches(m, "early")
      BY <3>2, <3>4 DEF Log
    <3> QED BY <3>3, <3>4
  <2>3. \/ entries' = entries
        \/ \E len \in Lengths, p \in Priorities :
              Log([id |-> calls + 1, len |-> len, priority |-> p])
    BY <1>1 DEF HandoffNext, SetPriority, BeginReplay, ReplayNext, EndReplay,
         Retrieve, Release, AttachReal, DetachEarly, ClearEarly, Program,
         handoffVars, vars
  <2> QED BY <2>1, <2>2, <2>3
<1>2. HInv /\ [HandoffNext]_handoffVars =>
         [Replaying => \A i \in replay.next .. replay.end :
             i \in DOMAIN entries /\ entries'[i] = entries[i]]_handoffVars
  BY <1>1
<1> QED
  BY <1>2, HandoffInvariance, PTL DEF HandoffSpec, ReplayUndisturbed
=============================================================================
