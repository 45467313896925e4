--------------------------- MODULE FunctionsProofs ---------------------------
(***************************************************************************)
(* Proofs about parsePriority, for any text, of any length and of any      *)
(* characters but the NUL that ends it, and about printException, for any  *)
(* nesting of any number of exceptions.                                    *)
(*                                                                         *)
(* printException_ calls itself for the cause of its exception, and a      *)
(* cause has been made before what it has caused.  So the recursion ends,  *)
(* and what holds of all exceptions is shown of the oldest one it would    *)
(* fail for.                                                               *)
(***************************************************************************)
EXTENDS MCFunctions, SequenceTheorems, FiniteSetTheorems, WellFoundedInduction, TLAPS

-----------------------------------------------------------------------------
(* Characters *)

LEMMA CapitalsDiffer ==
    \A i, j \in DOMAIN Upper : Upper[i] = Upper[j] => i = j
  BY DEF Upper

LEMMA Capitals ==
    /\ DOMAIN Upper = 1 .. 26 /\ DOMAIN Lower = 1 .. 26
    /\ DOMAIN ToLower = Range(Upper)
    /\ \A i \in 1 .. 26 : Upper[i] \in Range(Upper) /\ ToLower[Upper[i]] = Lower[i]
<1>1. DOMAIN Upper = 1 .. 26 /\ DOMAIN Lower = 1 .. 26
  BY DEF Upper, Lower
<1>2. DOMAIN ToLower = Range(Upper)
  BY DEF ToLower
<1>3. ASSUME NEW i \in 1 .. 26
      PROVE  Upper[i] \in Range(Upper) /\ ToLower[Upper[i]] = Lower[i]
  <2>1. Upper[i] \in Range(Upper)
    BY <1>1 DEF Range
  <2>2. (CHOOSE j \in DOMAIN Upper : Upper[j] = Upper[i]) = i
    BY <1>1, CapitalsDiffer
  <2> QED BY <2>1, <2>2 DEF ToLower
<1> QED
  BY <1>1, <1>2, <1>3

LEMMA SmallLetters ==
    /\ \A i, j \in DOMAIN Lower : Lower[i] = Lower[j] => i = j
    /\ \A i \in DOMAIN Upper, j \in DOMAIN Lower : Upper[i] # Lower[j]
    /\ \A i \in DOMAIN Upper : Upper[i] # NUL
    /\ \A i \in DOMAIN Lower : Lower[i] # NUL
<1>1. \A i, j \in DOMAIN Lower : Lower[i] = Lower[j] => i = j
  BY DEF Lower
<1>2. \A i \in DOMAIN Upper, j \in DOMAIN Lower : Upper[i] # Lower[j]
  BY DEF Lower, Upper
<1>3. \A i \in DOMAIN Upper : Upper[i] # NUL
  BY DEF Upper, NUL
<1>4. \A i \in DOMAIN Lower : Lower[i] # NUL
  BY DEF Lower, NUL
<1> QED
  BY <1>1, <1>2, <1>3, <1>4

Letters == Range(Upper)

(* charIs compares without regard to case. *)
LEMMA CaseIsIgnored ==
    ASSUME NEW v, NEW a \in Letters
    PROVE  /\ charIs(v, a) <=> Lowercase(v) = Lowercase(a)
           /\ ~ charIs(NUL, a)
<1>1. PICK i \in 1 .. 26 : a = Upper[i]
  BY Capitals DEF Letters, Range
<1>2. asciiToLower(a) = Lower[i] /\ Lowercase(a) = Lower[i]
  BY <1>1, Capitals DEF asciiToLower, Lowercase
<1>3. \A j \in 1 .. 26 : Lower[j] \notin Range(Upper)
  <2>1. ASSUME NEW j \in 1 .. 26, NEW k \in 1 .. 26
        PROVE  Lower[j] # Upper[k]
    BY Capitals, SmallLetters
  <2> QED BY <2>1, Capitals DEF Range
<1>4. CASE v \in Range(Upper)
  <2>1. PICK j \in 1 .. 26 : v = Upper[j]
    BY <1>4, Capitals DEF Range
  <2>2. Lowercase(v) = Lower[j]
    BY <2>1, Capitals DEF Lowercase
  <2> QED BY <1>1, <1>2, <2>1, <2>2, Capitals, CapitalsDiffer, SmallLetters DEF charIs
<1>5. ~ charIs(NUL, a)
  BY <1>1, <1>2, Capitals, SmallLetters DEF charIs
<1>6. charIs(v, a) <=> Lowercase(v) = Lowercase(a)
  <2>1. CASE v \notin Range(Upper)
    BY <1>1, <1>2, <1>3, <2>1 DEF charIs, Lowercase, Letters
  <2> QED BY <1>4, <2>1
<1> QED
  BY <1>5, <1>6

LEMMA LowercaseOf ==
    /\ "A" \in Letters /\ Lowercase("A") = "a"
    /\ "B" \in Letters /\ Lowercase("B") = "b"
    /\ "D" \in Letters /\ Lowercase("D") = "d"
    /\ "E" \in Letters /\ Lowercase("E") = "e"
    /\ "F" \in Letters /\ Lowercase("F") = "f"
    /\ "G" \in Letters /\ Lowercase("G") = "g"
    /\ "I" \in Letters /\ Lowercase("I") = "i"
    /\ "L" \in Letters /\ Lowercase("L") = "l"
    /\ "M" \in Letters /\ Lowercase("M") = "m"
    /\ "N" \in Letters /\ Lowercase("N") = "n"
    /\ "O" \in Letters /\ Lowercase("O") = "o"
    /\ "R" \in Letters /\ Lowercase("R") = "r"
    /\ "T" \in Letters /\ Lowercase("T") = "t"
    /\ "U" \in Letters /\ Lowercase("U") = "u"
    /\ "W" \in Letters /\ Lowercase("W") = "w"
<1>1. \A i \in 1 .. 26 : Upper[i] \in Letters /\ Lowercase(Upper[i]) = Lower[i]
  BY Capitals DEF Letters, Lowercase
<1>2. /\ Upper[1] = "A" /\ Upper[2] = "B" /\ Upper[4] = "D" /\ Upper[5] = "E"
      /\ Upper[6] = "F" /\ Upper[7] = "G" /\ Upper[9] = "I" /\ Upper[12] = "L"
      /\ Upper[13] = "M" /\ Upper[14] = "N" /\ Upper[15] = "O" /\ Upper[18] = "R"
      /\ Upper[20] = "T" /\ Upper[21] = "U" /\ Upper[23] = "W"
  BY DEF Upper
<1>3. /\ Lower[1] = "a" /\ Lower[2] = "b" /\ Lower[4] = "d" /\ Lower[5] = "e"
      /\ Lower[6] = "f" /\ Lower[7] = "g" /\ Lower[9] = "i" /\ Lower[12] = "l"
      /\ Lower[13] = "m" /\ Lower[14] = "n" /\ Lower[15] = "o" /\ Lower[18] = "r"
      /\ Lower[20] = "t" /\ Lower[21] = "u" /\ Lower[23] = "w"
  BY DEF Lower
<1> QED
  BY <1>1, <1>2, <1>3

-----------------------------------------------------------------------------
(* The walk through the text *)

Texts == Seq(Characters)

LEMMA TextIs ==
    ASSUME NEW s \in Texts
    PROVE  /\ Len(s) \in Nat /\ DOMAIN s = 1 .. Len(s)
           /\ \A i \in Nat \ {0} : At(s, i) = NUL <=> ~ (i <= Len(s))
           /\ \A i \in 1 .. Len(s) : At(s, i) = s[i]
<1>1. Len(s) \in Nat /\ DOMAIN s = 1 .. Len(s) /\ \A i \in 1 .. Len(s) : s[i] \in Characters
  BY DEF Texts
<1> QED
  BY <1>1, MCFunctionsAssumption DEF At

(* What agrees with letters ends before the NUL. *)
LEMMA AgreesInside ==
    ASSUME NEW s \in Texts, NEW w \in Seq(Letters), NEW i \in 1 .. Len(s) + 1,
           NEW n \in 0 .. Len(w), Agrees(s, i, w, n)
    PROVE  i + n \in 1 .. Len(s) + 1
<1>1. Len(s) \in Nat /\ Len(w) \in Nat /\ i \in Nat /\ n \in Nat /\ i >= 1
  BY TextIs
<1>2. CASE n = 0
  BY <1>1, <1>2
<1>3. CASE n # 0
  <2>1. n \in 1 .. n /\ n \in 1 .. Len(w) /\ i + n - 1 \in Nat \ {0}
    BY <1>1, <1>3
  <2>2. w[n] \in Letters
    BY <2>1
  <2>3. At(s, i + n - 1) # NUL
    BY <2>1, <2>2, CaseIsIgnored DEF Agrees
  <2>4. i + n - 1 <= Len(s)
    BY <2>1, <2>3, TextIs
  <2> QED BY <1>1, <2>4
<1> QED
  BY <1>2, <1>3

LEMMA ChainReadsInside ==
    ASSUME NEW s \in Texts, NEW w \in Seq(Letters), NEW i \in 1 .. Len(s) + 1
    PROVE  ChainReads(s, i, w) \subseteq 1 .. Len(s) + 1
<1> SUFFICES ASSUME NEW k \in 1 .. Len(w), Agrees(s, i, w, k - 1)
             PROVE  i + k - 1 \in 1 .. Len(s) + 1
  BY DEF ChainReads
<1>1. Len(w) \in Nat /\ i \in Nat /\ k \in Nat
  BY TextIs
<1>2. k - 1 \in 0 .. Len(w) /\ i + (k - 1) = i + k - 1
  BY <1>1
<1> QED
  BY <1>2, AgreesInside

LEMMA BranchesAre ==
    /\ DOMAIN Branches = 1 .. 7
    /\ Branches[1].head = <<"F", "A">> /\ Branches[1].chain = <<"T", "A", "L">>
    /\ Branches[1].more = <<>> /\ Branches[1].priority = Fatal
    /\ Branches[2].head = <<"F", "U">> /\ Branches[2].chain = <<"L", "L">>
    /\ Branches[2].more = <<"D", "E", "B", "U", "G">> /\ Branches[2].priority = FullDebug
    /\ Branches[3].head = <<"E">> /\ Branches[3].chain = <<"R", "R", "O", "R">>
    /\ Branches[3].more = <<>> /\ Branches[3].priority = Error
    /\ Branches[4].head = <<"W">> /\ Branches[4].chain = <<"A", "R", "N">>
    /\ Branches[4].more = <<"I", "N", "G">> /\ Branches[4].priority = Warning
    /\ Branches[5].head = <<"N">> /\ Branches[5].chain = <<"O", "R", "M", "A", "L">>
    /\ Branches[5].more = <<>> /\ Branches[5].priority = Normal
    /\ Branches[6].head = <<"I">> /\ Branches[6].chain = <<"N", "F", "O">>
    /\ Branches[6].more = <<>> /\ Branches[6].priority = Normal
    /\ Branches[7].head = <<"D">> /\ Branches[7].chain = <<"E", "B", "U", "G">>
    /\ Branches[7].more = <<>> /\ Branches[7].priority = Debug
  BY DEF Branches

LEMMA BranchIs ==
    ASSUME NEW j \in DOMAIN Branches
    PROVE  /\ Branches[j].head \in Seq(Letters)
           /\ Branches[j].chain \in Seq(Letters)
           /\ Branches[j].more \in Seq(Letters)
<1>1. j \in 1 .. 7
  BY BranchesAre
<1>2. CASE j = 1 BY <1>2, BranchesAre, LowercaseOf
<1>3. CASE j = 2 BY <1>3, BranchesAre, LowercaseOf
<1>4. CASE j = 3 BY <1>4, BranchesAre, LowercaseOf
<1>5. CASE j = 4 BY <1>5, BranchesAre, LowercaseOf
<1>6. CASE j = 5 BY <1>6, BranchesAre, LowercaseOf
<1>7. CASE j = 6 BY <1>7, BranchesAre, LowercaseOf
<1>8. CASE j = 7 BY <1>8, BranchesAre, LowercaseOf
<1> QED
  BY <1>1, <1>2, <1>3, <1>4, <1>5, <1>6, <1>7, <1>8

(* Each of the steps of a branch begins where the one before has ended. *)
LEMMA BranchReadsInside ==
    ASSUME NEW s \in Texts, NEW j \in DOMAIN Branches
    PROVE  BranchReads(s, Branches[j]) \subseteq 1 .. Len(s) + 1
<1> DEFINE b == Branches[j]
<1>1. /\ b.head \in Seq(Letters) /\ b.chain \in Seq(Letters) /\ b.more \in Seq(Letters)
      /\ Len(b.head) \in Nat /\ Len(b.chain) \in Nat /\ Len(b.more) \in Nat
      /\ Len(s) \in Nat
  BY BranchIs, TextIs
<1> HIDE DEF b
<1>2. CASE Chain(s, 1, b.head)
  <2>1. ChainAt(b) \in 1 .. Len(s) + 1
    <3>1. 1 \in 1 .. Len(s) + 1 /\ Len(b.head) \in 0 .. Len(b.head)
      BY <1>1
    <3>2. 1 + Len(b.head) \in 1 .. Len(s) + 1
      BY <1>1, <1>2, <3>1, AgreesInside DEF Chain
    <3> QED BY <1>1, <3>2 DEF ChainAt
  <2>2. ChainReads(s, ChainAt(b), b.chain) \subseteq 1 .. Len(s) + 1
    BY <1>1, <2>1, ChainReadsInside
  <2>3. ASSUME Chain(s, ChainAt(b), b.chain)
        PROVE  {MoreAt(b)} \cup MoreReads(s, b) \subseteq 1 .. Len(s) + 1
    <3>1. MoreAt(b) \in 1 .. Len(s) + 1
      <4>1. Len(b.chain) \in 0 .. Len(b.chain)
        BY <1>1
      <4> QED BY <1>1, <2>1, <2>3, <4>1, AgreesInside DEF Chain, MoreAt
    <3>2. ChainReads(s, MoreAt(b), b.more) \subseteq 1 .. Len(s) + 1
      BY <1>1, <3>1, ChainReadsInside
    <3>3. Chain(s, MoreAt(b), b.more) => MoreAt(b) + Len(b.more) \in 1 .. Len(s) + 1
      <4>1. Len(b.more) \in 0 .. Len(b.more)
        BY <1>1
      <4> QED BY <1>1, <3>1, <4>1, AgreesInside DEF Chain
    <3> QED BY <3>1, <3>2, <3>3 DEF MoreReads
  <2> QED BY <2>2, <2>3 DEF BranchReads, b
<1>3. CASE ~ Chain(s, 1, b.head)
  BY <1>3 DEF BranchReads, b
<1> QED
  BY <1>2, <1>3

LEMMA ReadsAreInside ==
    ASSUME NEW s \in Texts
    PROVE  Reads(s) \subseteq 1 .. Len(s) + 1
<1>1. Len(s) \in Nat /\ 1 \in 1 .. Len(s) + 1
  BY TextIs
<1>2. At(s, 1) # NUL => 2 \in 1 .. Len(s) + 1
  BY <1>1, TextIs
<1> QED
  BY <1>1, <1>2, BranchReadsInside DEF Reads

Typed == text \in Texts

LEMMA TextIsTyped == Spec => []Typed
<1>1. Init => Typed
  BY DEF Init, Texts, Typed
<1>2. Typed /\ [Next]_<<text, made>> => Typed'
  <2> SUFFICES ASSUME Typed, [Next]_<<text, made>>
               PROVE  Typed'
    OBVIOUS
  <2>1. ASSUME NEW c \in Characters, Type(c)
        PROVE  Typed'
    BY <2>1, AppendProperties DEF Type, Texts, Typed
  <2>2. ASSUME NEW std \in BOOLEAN, NEW nested \in BOOLEAN, NEW e \in 0 .. Len(made),
               Throw(std, nested, e)
        PROVE  Typed'
    BY <2>2 DEF Throw, Typed
  <2>3. CASE UNCHANGED <<text, made>>
    BY <2>3 DEF Typed
  <2> QED BY <2>1, <2>2, <2>3 DEF Next
<1> QED
  BY <1>1, <1>2, PTL DEF Spec

(***************************************************************************)
(* In any text, of any length, the pointer of parsePriority                *)
(* (PriorityParser.cpp:52) never reads past the NUL that ends it; so in    *)
(* all that is typed.                                                      *)
(***************************************************************************)
THEOREM NeverReadsPastTheEnd ==
    /\ \A s \in Texts : Reads(s) \subseteq 1 .. Len(s) + 1
    /\ Spec => []ReadsInside
<1>1. \A s \in Texts : Reads(s) \subseteq 1 .. Len(s) + 1
  BY ReadsAreInside
<1>2. Typed => ReadsInside
  BY <1>1 DEF ReadsInside, Typed
<1>3. Spec => []ReadsInside
  BY <1>2, TextIsTyped, PTL
<1> QED
  BY <1>1, <1>3

-----------------------------------------------------------------------------
(* What is accepted *)

LEMMA LoweredIs ==
    ASSUME NEW C, NEW s \in Seq(C)
    PROVE  /\ Len(s) \in Nat
           /\ Lowered(s) = [i \in 1 .. Len(s) |-> Lowercase(s[i])]
           /\ Len(Lowered(s)) = Len(s)
           /\ DOMAIN Lowered(s) = 1 .. Len(s)
  BY DEF Lowered

LEMMA ChainIs ==
    ASSUME NEW s \in Texts, NEW w \in Seq(Letters), NEW i \in 1 .. Len(s) + 1
    PROVE  Chain(s, i, w) <=>
              /\ i + Len(w) - 1 <= Len(s)
              /\ \A k \in 1 .. Len(w) : Lowercase(s[i + k - 1]) = Lowercase(w[k])
<1>1. Len(s) \in Nat /\ Len(w) \in Nat /\ i \in Nat /\ i >= 1
      /\ \A k \in 1 .. Len(w) : w[k] \in Letters
  BY TextIs
<1>2. i + Len(w) - 1 <= Len(s) => \A k \in 1 .. Len(w) : At(s, i + k - 1) = s[i + k - 1]
  BY <1>1, TextIs
<1>3. Chain(s, i, w) => i + Len(w) - 1 <= Len(s)
  <2>1. Len(w) \in 0 .. Len(w)
    BY <1>1
  <2>2. Chain(s, i, w) => i + Len(w) \in 1 .. Len(s) + 1
    BY <2>1, AgreesInside DEF Chain
  <2> QED BY <2>2, <1>1
<1>4. Chain(s, i, w) <=> \A k \in 1 .. Len(w) : charIs(At(s, i + k - 1), w[k])
  BY DEF Chain, Agrees
<1>5. \A k \in 1 .. Len(w) :
         charIs(At(s, i + k - 1), w[k]) <=> Lowercase(At(s, i + k - 1)) = Lowercase(w[k])
  BY <1>1, CaseIsIgnored
<1> QED
  BY <1>2, <1>3, <1>4, <1>5

(* A chain that ends where the text does: the text is the word. *)
LEMMA ChainToTheEnd ==
    ASSUME NEW s \in Texts, NEW w \in Seq(Letters)
    PROVE  Chain(s, 1, w) /\ Ends(s, Len(w) + 1) <=> Lowered(s) = Lowered(w)
<1>1. Len(s) \in Nat /\ Len(w) \in Nat /\ 1 \in 1 .. Len(s) + 1
  BY TextIs
<1>2. Chain(s, 1, w) <=>
         Len(w) <= Len(s) /\ \A k \in 1 .. Len(w) : Lowercase(s[k]) = Lowercase(w[k])
  <2>1. 1 + Len(w) - 1 = Len(w) /\ \A k \in 1 .. Len(w) : 1 + k - 1 = k
    BY <1>1
  <2>2. (\A k \in 1 .. Len(w) : Lowercase(s[1 + k - 1]) = Lowercase(w[k]))
           <=> \A k \in 1 .. Len(w) : Lowercase(s[k]) = Lowercase(w[k])
    BY <2>1, Zenon
  <2>3. Chain(s, 1, w) <=>
           /\ 1 + Len(w) - 1 <= Len(s)
           /\ \A k \in 1 .. Len(w) : Lowercase(s[1 + k - 1]) = Lowercase(w[k])
    BY <1>1, ChainIs, Zenon
  <2> QED BY <2>1, <2>2, <2>3, Zenon
<1>3. Ends(s, Len(w) + 1) <=> ~ (Len(w) + 1 <= Len(s))
  BY <1>1, TextIs DEF Ends
<1>4. Chain(s, 1, w) /\ Ends(s, Len(w) + 1) <=>
         Len(w) = Len(s) /\ \A k \in 1 .. Len(w) : Lowercase(s[k]) = Lowercase(w[k])
  BY <1>1, <1>2, <1>3
<1>5. /\ Lowered(s) = [k \in 1 .. Len(s) |-> Lowercase(s[k])] /\ Len(Lowered(s)) = Len(s)
      /\ Lowered(w) = [k \in 1 .. Len(w) |-> Lowercase(w[k])] /\ Len(Lowered(w)) = Len(w)
  BY LoweredIs DEF Texts
<1>6. ASSUME Lowered(s) = Lowered(w)
      PROVE  Len(w) = Len(s) /\ \A k \in 1 .. Len(w) : Lowercase(s[k]) = Lowercase(w[k])
  <2>1. Len(w) = Len(s)
    BY <1>5, <1>6
  <2>2. \A k \in 1 .. Len(w) : Lowered(s)[k] = Lowercase(s[k]) /\ Lowered(w)[k] = Lowercase(w[k])
    BY <2>1, <1>5
  <2> QED BY <2>1, <2>2, <1>6
<1>7. ASSUME Len(w) = Len(s), \A k \in 1 .. Len(w) : Lowercase(s[k]) = Lowercase(w[k])
      PROVE  Lowered(s) = Lowered(w)
  BY <1>5, <1>7
<1> QED
  BY <1>4, <1>6, <1>7

(* One chain after another is the chain of both words. *)
LEMMA ChainsJoin ==
    ASSUME NEW s \in Texts, NEW u \in Seq(Letters), NEW w \in Seq(Letters)
    PROVE  /\ u \o w \in Seq(Letters) /\ Len(u \o w) = Len(u) + Len(w)
           /\ Chain(s, 1, u) /\ Chain(s, Len(u) + 1, w) <=> Chain(s, 1, u \o w)
<1>1. /\ u \o w \in Seq(Letters) /\ Len(u \o w) = Len(u) + Len(w)
      /\ \A k \in 1 .. Len(u) + Len(w) :
            (u \o w)[k] = IF k <= Len(u) THEN u[k] ELSE w[k - Len(u)]
  BY ConcatProperties
<1>2. Len(s) \in Nat /\ Len(u) \in Nat /\ Len(w) \in Nat
  BY TextIs
<1> DEFINE both == u \o w
           A(k, a) == charIs(At(s, k), a)
<1>3. Chain(s, 1, u) <=> \A k \in 1 .. Len(u) : A(k, u[k])
  <2>1. \A k \in 1 .. Len(u) : 1 + k - 1 = k
    BY <1>2
  <2> QED BY <2>1 DEF Chain, Agrees
<1>4. Chain(s, Len(u) + 1, w) <=> \A k \in 1 .. Len(w) : A(Len(u) + k, w[k])
  <2>1. \A k \in 1 .. Len(w) : Len(u) + 1 + k - 1 = Len(u) + k
    BY <1>2
  <2> QED BY <2>1 DEF Chain, Agrees
<1>5. Chain(s, 1, both) <=> \A k \in 1 .. Len(u) + Len(w) : A(k, both[k])
  <2>1. \A k \in 1 .. Len(u) + Len(w) : 1 + k - 1 = k
    BY <1>2
  <2> QED BY <1>1, <2>1 DEF Chain, Agrees
<1> HIDE DEF A
<1>6. \A k \in 1 .. Len(u) : both[k] = u[k] /\ k \in 1 .. Len(u) + Len(w)
  BY <1>1, <1>2
<1>7. \A k \in 1 .. Len(w) : both[Len(u) + k] = w[k] /\ Len(u) + k \in 1 .. Len(u) + Len(w)
  BY <1>1, <1>2
<1>8. \A k \in 1 .. Len(u) + Len(w) :
         k \in 1 .. Len(u) \/ (k - Len(u) \in 1 .. Len(w) /\ Len(u) + (k - Len(u)) = k)
  BY <1>2
<1> HIDE DEF both
<1>9. (\A k \in 1 .. Len(u) : A(k, u[k])) /\ (\A k \in 1 .. Len(w) : A(Len(u) + k, w[k]))
         <=> \A k \in 1 .. Len(u) + Len(w) : A(k, both[k])
  <2>1. ASSUME \A k \in 1 .. Len(u) + Len(w) : A(k, both[k])
        PROVE  (\A k \in 1 .. Len(u) : A(k, u[k])) /\ (\A k \in 1 .. Len(w) : A(Len(u) + k, w[k]))
    BY <1>6, <1>7, <2>1
  <2>2. ASSUME \A k \in 1 .. Len(u) : A(k, u[k]), \A k \in 1 .. Len(w) : A(Len(u) + k, w[k]),
               NEW k \in 1 .. Len(u) + Len(w)
        PROVE  A(k, both[k])
    <3>1. CASE k \in 1 .. Len(u)
      BY <2>2, <3>1, <1>6
    <3>2. CASE k - Len(u) \in 1 .. Len(w) /\ Len(u) + (k - Len(u)) = k
      <4>1. A(Len(u) + (k - Len(u)), w[k - Len(u)]) /\ both[Len(u) + (k - Len(u))] = w[k - Len(u)]
        BY <2>2, <3>2, <1>7
      <4> QED BY <4>1, <3>2
    <3> QED BY <1>8, <3>1, <3>2
  <2> QED BY <2>1, <2>2
<1>10. Chain(s, 1, u) /\ Chain(s, Len(u) + 1, w) <=> Chain(s, 1, both)
  BY <1>3, <1>4, <1>5, <1>9
<1> QED
  BY <1>1, <1>10 DEF both

(* The words of a branch, in capital letters *)
Short(j) == Branches[j].head \o Branches[j].chain
Long(j) == Short(j) \o Branches[j].more

Takes(s, j) == Chain(s, 1, Branches[j].head) /\ Accepts(s, Branches[j])

LEMMA TakesIs ==
    ASSUME NEW s \in Texts, NEW j \in DOMAIN Branches
    PROVE  Takes(s, j) <=>
              \/ Lowered(s) = Lowered(Short(j))
              \/ Branches[j].more # <<>> /\ Lowered(s) = Lowered(Long(j))
<1> DEFINE head == Branches[j].head
           chain == Branches[j].chain
           more == Branches[j].more
<1>1. head \in Seq(Letters) /\ chain \in Seq(Letters) /\ more \in Seq(Letters)
  BY BranchIs
<1> DEFINE short == Short(j)
           long == Long(j)
<1>2. /\ short = head \o chain /\ long = short \o more
      /\ ChainAt(Branches[j]) = Len(head) + 1
      /\ MoreAt(Branches[j]) = Len(head) + 1 + Len(chain)
  BY DEF Short, Long, ChainAt, MoreAt
<1>3. Takes(s, j) <=>
         /\ Chain(s, 1, head)
         /\ Chain(s, ChainAt(Branches[j]), chain)
         /\ \/ Ends(s, MoreAt(Branches[j]))
            \/ /\ more # <<>>
               /\ Chain(s, MoreAt(Branches[j]), more)
               /\ Ends(s, MoreAt(Branches[j]) + Len(more))
  BY DEF Takes, Accepts
<1> HIDE DEF head, chain, more, short, long
<1>4. /\ short \in Seq(Letters) /\ Len(short) = Len(head) + Len(chain)
      /\ Chain(s, 1, head) /\ Chain(s, Len(head) + 1, chain) <=> Chain(s, 1, short)
  BY <1>1, <1>2, ChainsJoin
<1>5. /\ long \in Seq(Letters) /\ Len(long) = Len(short) + Len(more)
      /\ Chain(s, 1, short) /\ Chain(s, Len(short) + 1, more) <=> Chain(s, 1, long)
  BY <1>1, <1>2, <1>4, ChainsJoin
<1>6. /\ ChainAt(Branches[j]) = Len(head) + 1
      /\ MoreAt(Branches[j]) = Len(short) + 1
      /\ MoreAt(Branches[j]) + Len(more) = Len(long) + 1
  <2>1. Len(head) \in Nat /\ Len(chain) \in Nat /\ Len(more) \in Nat
    BY <1>1
  <2>2. Len(short) = Len(head) + Len(chain) /\ Len(long) = Len(short) + Len(more)
    BY <1>4, <1>5
  <2>3. ChainAt(Branches[j]) = Len(head) + 1 /\ MoreAt(Branches[j]) = Len(head) + 1 + Len(chain)
    BY <1>2
  <2> QED BY <2>1, <2>2, <2>3
<1>7. Chain(s, 1, short) /\ Ends(s, Len(short) + 1) <=> Lowered(s) = Lowered(short)
  BY <1>4, ChainToTheEnd
<1>8. Chain(s, 1, long) /\ Ends(s, Len(long) + 1) <=> Lowered(s) = Lowered(long)
  BY <1>5, ChainToTheEnd
<1>9. Takes(s, j) <=>
         \/ Lowered(s) = Lowered(short)
         \/ more # <<>> /\ Lowered(s) = Lowered(long)
  BY <1>3, <1>4, <1>5, <1>6, <1>7, <1>8
<1> QED
  BY <1>9 DEF short, long, more

(* A word that is written as two *)
LEMMA Joined ==
    ASSUME NEW C, NEW u \in Seq(C), NEW v \in Seq(C), NEW w \in Seq(C),
           Len(w) = Len(u) + Len(v),
           \A k \in 1 .. Len(u) : w[k] = u[k],
           \A k \in 1 .. Len(v) : w[Len(u) + k] = v[k]
    PROVE  u \o v = w
<1>1. /\ u \o v \in Seq(C) /\ Len(u \o v) = Len(u) + Len(v)
      /\ \A k \in 1 .. Len(u) + Len(v) :
            (u \o v)[k] = IF k <= Len(u) THEN u[k] ELSE v[k - Len(u)]
  BY ConcatProperties
<1> DEFINE uv == u \o v
<1>2. uv \in Seq(C) /\ Len(uv) = Len(w)
  BY <1>1
<1>3. ASSUME NEW k \in 1 .. Len(w)
      PROVE  uv[k] = w[k]
  <2>1. Len(u) \in Nat /\ Len(v) \in Nat /\ k \in 1 .. Len(u) + Len(v)
    OBVIOUS
  <2>2. CASE k <= Len(u)
    BY <1>1, <2>1, <2>2
  <2>3. CASE ~ (k <= Len(u))
    <3>1. k - Len(u) \in 1 .. Len(v) /\ Len(u) + (k - Len(u)) = k
      BY <2>1, <2>3
    <3>2. w[Len(u) + (k - Len(u))] = v[k - Len(u)]
      BY <3>1
    <3> QED BY <1>1, <2>1, <2>3, <3>1, <3>2
  <2> QED BY <2>2, <2>3
<1> HIDE DEF uv
<1>4. uv = w
  BY <1>2, <1>3, SeqEqual
<1> QED
  BY <1>4 DEF uv

(* The words of the branches, written as one *)
LEMMA Capitalised ==
    /\ Short(1) = <<"F", "A", "T", "A", "L">>
    /\ Short(2) = <<"F", "U", "L", "L">>
    /\ Long(2) = <<"F", "U", "L", "L", "D", "E", "B", "U", "G">>
    /\ Short(3) = <<"E", "R", "R", "O", "R">>
    /\ Short(4) = <<"W", "A", "R", "N">>
    /\ Long(4) = <<"W", "A", "R", "N", "I", "N", "G">>
    /\ Short(5) = <<"N", "O", "R", "M", "A", "L">>
    /\ Short(6) = <<"I", "N", "F", "O">>
    /\ Short(7) = <<"D", "E", "B", "U", "G">>
<1>1. Short(1) = <<"F", "A", "T", "A", "L">>
  <2> DEFINE u == <<"F", "A">>
             v == <<"T", "A", "L">>
             w == <<"F", "A", "T", "A", "L">>
  <2>1. /\ u \in Seq(Letters) /\ v \in Seq(Letters) /\ w \in Seq(Letters)
        /\ Len(u) = 2 /\ Len(v) = 3 /\ Len(w) = 5
    BY LowercaseOf
  <2>2. (\A k \in 1 .. 2 : w[k] = u[k]) /\ (\A k \in 1 .. 3 : w[2 + k] = v[k])
    OBVIOUS
  <2>3. Short(1) = u \o v
    BY BranchesAre DEF Short
  <2> HIDE DEF u, v, w
  <2>4. /\ Len(w) = Len(u) + Len(v)
        /\ \A k \in 1 .. Len(u) : w[k] = u[k]
        /\ \A k \in 1 .. Len(v) : w[Len(u) + k] = v[k]
    BY <2>1, <2>2
  <2>5. u \o v = w
    BY <2>1, <2>4, Joined, Zenon
  <2> QED BY <2>3, <2>5 DEF w
<1>2. Short(2) = <<"F", "U", "L", "L">>
  <2> DEFINE u == <<"F", "U">>
             v == <<"L", "L">>
             w == <<"F", "U", "L", "L">>
  <2>1. /\ u \in Seq(Letters) /\ v \in Seq(Letters) /\ w \in Seq(Letters)
        /\ Len(u) = 2 /\ Len(v) = 2 /\ Len(w) = 4
    BY LowercaseOf
  <2>2. (\A k \in 1 .. 2 : w[k] = u[k]) /\ (\A k \in 1 .. 2 : w[2 + k] = v[k])
    OBVIOUS
  <2>3. Short(2) = u \o v
    BY BranchesAre DEF Short
  <2> HIDE DEF u, v, w
  <2>4. /\ Len(w) = Len(u) + Len(v)
        /\ \A k \in 1 .. Len(u) : w[k] = u[k]
        /\ \A k \in 1 .. Len(v) : w[Len(u) + k] = v[k]
    BY <2>1, <2>2
  <2>5. u \o v = w
    BY <2>1, <2>4, Joined, Zenon
  <2> QED BY <2>3, <2>5 DEF w
<1>3. Long(2) = <<"F", "U", "L", "L", "D", "E", "B", "U", "G">>
  <2> DEFINE u == <<"F", "U", "L", "L">>
             v == <<"D", "E", "B", "U", "G">>
             w == <<"F", "U", "L", "L", "D", "E", "B", "U", "G">>
  <2>1. /\ u \in Seq(Letters) /\ v \in Seq(Letters) /\ w \in Seq(Letters)
        /\ Len(u) = 4 /\ Len(v) = 5 /\ Len(w) = 9
    BY LowercaseOf
  <2>2. (\A k \in 1 .. 4 : w[k] = u[k]) /\ (\A k \in 1 .. 5 : w[4 + k] = v[k])
    OBVIOUS
  <2>3. Long(2) = u \o v
    BY BranchesAre, <1>2 DEF Long
  <2> HIDE DEF u, v, w
  <2>4. /\ Len(w) = Len(u) + Len(v)
        /\ \A k \in 1 .. Len(u) : w[k] = u[k]
        /\ \A k \in 1 .. Len(v) : w[Len(u) + k] = v[k]
    BY <2>1, <2>2
  <2>5. u \o v = w
    BY <2>1, <2>4, Joined, Zenon
  <2> QED BY <2>3, <2>5 DEF w
<1>4. Short(3) = <<"E", "R", "R", "O", "R">>
  <2> DEFINE u == <<"E">>
             v == <<"R", "R", "O", "R">>
             w == <<"E", "R", "R", "O", "R">>
  <2>1. /\ u \in Seq(Letters) /\ v \in Seq(Letters) /\ w \in Seq(Letters)
        /\ Len(u) = 1 /\ Len(v) = 4 /\ Len(w) = 5
    BY LowercaseOf
  <2>2. (\A k \in 1 .. 1 : w[k] = u[k]) /\ (\A k \in 1 .. 4 : w[1 + k] = v[k])
    OBVIOUS
  <2>3. Short(3) = u \o v
    BY BranchesAre DEF Short
  <2> HIDE DEF u, v, w
  <2>4. /\ Len(w) = Len(u) + Len(v)
        /\ \A k \in 1 .. Len(u) : w[k] = u[k]
        /\ \A k \in 1 .. Len(v) : w[Len(u) + k] = v[k]
    BY <2>1, <2>2
  <2>5. u \o v = w
    BY <2>1, <2>4, Joined, Zenon
  <2> QED BY <2>3, <2>5 DEF w
<1>5. Short(4) = <<"W", "A", "R", "N">>
  <2> DEFINE u == <<"W">>
             v == <<"A", "R", "N">>
             w == <<"W", "A", "R", "N">>
  <2>1. /\ u \in Seq(Letters) /\ v \in Seq(Letters) /\ w \in Seq(Letters)
        /\ Len(u) = 1 /\ Len(v) = 3 /\ Len(w) = 4
    BY LowercaseOf
  <2>2. (\A k \in 1 .. 1 : w[k] = u[k]) /\ (\A k \in 1 .. 3 : w[1 + k] = v[k])
    OBVIOUS
  <2>3. Short(4) = u \o v
    BY BranchesAre DEF Short
  <2> HIDE DEF u, v, w
  <2>4. /\ Len(w) = Len(u) + Len(v)
        /\ \A k \in 1 .. Len(u) : w[k] = u[k]
        /\ \A k \in 1 .. Len(v) : w[Len(u) + k] = v[k]
    BY <2>1, <2>2
  <2>5. u \o v = w
    BY <2>1, <2>4, Joined, Zenon
  <2> QED BY <2>3, <2>5 DEF w
<1>6. Long(4) = <<"W", "A", "R", "N", "I", "N", "G">>
  <2> DEFINE u == <<"W", "A", "R", "N">>
             v == <<"I", "N", "G">>
             w == <<"W", "A", "R", "N", "I", "N", "G">>
  <2>1. /\ u \in Seq(Letters) /\ v \in Seq(Letters) /\ w \in Seq(Letters)
        /\ Len(u) = 4 /\ Len(v) = 3 /\ Len(w) = 7
    BY LowercaseOf
  <2>2. (\A k \in 1 .. 4 : w[k] = u[k]) /\ (\A k \in 1 .. 3 : w[4 + k] = v[k])
    OBVIOUS
  <2>3. Long(4) = u \o v
    BY BranchesAre, <1>5 DEF Long
  <2> HIDE DEF u, v, w
  <2>4. /\ Len(w) = Len(u) + Len(v)
        /\ \A k \in 1 .. Len(u) : w[k] = u[k]
        /\ \A k \in 1 .. Len(v) : w[Len(u) + k] = v[k]
    BY <2>1, <2>2
  <2>5. u \o v = w
    BY <2>1, <2>4, Joined, Zenon
  <2> QED BY <2>3, <2>5 DEF w
<1>7. Short(5) = <<"N", "O", "R", "M", "A", "L">>
  <2> DEFINE u == <<"N">>
             v == <<"O", "R", "M", "A", "L">>
             w == <<"N", "O", "R", "M", "A", "L">>
  <2>1. /\ u \in Seq(Letters) /\ v \in Seq(Letters) /\ w \in Seq(Letters)
        /\ Len(u) = 1 /\ Len(v) = 5 /\ Len(w) = 6
    BY LowercaseOf
  <2>2. (\A k \in 1 .. 1 : w[k] = u[k]) /\ (\A k \in 1 .. 5 : w[1 + k] = v[k])
    OBVIOUS
  <2>3. Short(5) = u \o v
    BY BranchesAre DEF Short
  <2> HIDE DEF u, v, w
  <2>4. /\ Len(w) = Len(u) + Len(v)
        /\ \A k \in 1 .. Len(u) : w[k] = u[k]
        /\ \A k \in 1 .. Len(v) : w[Len(u) + k] = v[k]
    BY <2>1, <2>2
  <2>5. u \o v = w
    BY <2>1, <2>4, Joined, Zenon
  <2> QED BY <2>3, <2>5 DEF w
<1>8. Short(6) = <<"I", "N", "F", "O">>
  <2> DEFINE u == <<"I">>
             v == <<"N", "F", "O">>
             w == <<"I", "N", "F", "O">>
  <2>1. /\ u \in Seq(Letters) /\ v \in Seq(Letters) /\ w \in Seq(Letters)
        /\ Len(u) = 1 /\ Len(v) = 3 /\ Len(w) = 4
    BY LowercaseOf
  <2>2. (\A k \in 1 .. 1 : w[k] = u[k]) /\ (\A k \in 1 .. 3 : w[1 + k] = v[k])
    OBVIOUS
  <2>3. Short(6) = u \o v
    BY BranchesAre DEF Short
  <2> HIDE DEF u, v, w
  <2>4. /\ Len(w) = Len(u) + Len(v)
        /\ \A k \in 1 .. Len(u) : w[k] = u[k]
        /\ \A k \in 1 .. Len(v) : w[Len(u) + k] = v[k]
    BY <2>1, <2>2
  <2>5. u \o v = w
    BY <2>1, <2>4, Joined, Zenon
  <2> QED BY <2>3, <2>5 DEF w
<1>9. Short(7) = <<"D", "E", "B", "U", "G">>
  <2> DEFINE u == <<"D">>
             v == <<"E", "B", "U", "G">>
             w == <<"D", "E", "B", "U", "G">>
  <2>1. /\ u \in Seq(Letters) /\ v \in Seq(Letters) /\ w \in Seq(Letters)
        /\ Len(u) = 1 /\ Len(v) = 4 /\ Len(w) = 5
    BY LowercaseOf
  <2>2. (\A k \in 1 .. 1 : w[k] = u[k]) /\ (\A k \in 1 .. 4 : w[1 + k] = v[k])
    OBVIOUS
  <2>3. Short(7) = u \o v
    BY BranchesAre DEF Short
  <2> HIDE DEF u, v, w
  <2>4. /\ Len(w) = Len(u) + Len(v)
        /\ \A k \in 1 .. Len(u) : w[k] = u[k]
        /\ \A k \in 1 .. Len(v) : w[Len(u) + k] = v[k]
    BY <2>1, <2>2
  <2>5. u \o v = w
    BY <2>1, <2>4, Joined, Zenon
  <2> QED BY <2>3, <2>5 DEF w
<1> QED
  BY <1>1, <1>2, <1>3, <1>4, <1>5, <1>6, <1>7, <1>8, <1>9

LEMMA WordsOfBranches ==
    /\ Lowered(Short(1)) = <<"f", "a", "t", "a", "l">>
    /\ Lowered(Short(2)) = <<"f", "u", "l", "l">>
    /\ Lowered(Long(2)) = <<"f", "u", "l", "l", "d", "e", "b", "u", "g">>
    /\ Lowered(Short(3)) = <<"e", "r", "r", "o", "r">>
    /\ Lowered(Short(4)) = <<"w", "a", "r", "n">>
    /\ Lowered(Long(4)) = <<"w", "a", "r", "n", "i", "n", "g">>
    /\ Lowered(Short(5)) = <<"n", "o", "r", "m", "a", "l">>
    /\ Lowered(Short(6)) = <<"i", "n", "f", "o">>
    /\ Lowered(Short(7)) = <<"d", "e", "b", "u", "g">>
<1>1. Lowered(Short(1)) = <<"f", "a", "t", "a", "l">>
  <2>1. Lowered(<<"F", "A", "T", "A", "L">>) = <<"f", "a", "t", "a", "l">>
    BY LowercaseOf DEF Lowered
  <2> QED BY <2>1, Capitalised
<1>2. Lowered(Short(2)) = <<"f", "u", "l", "l">>
  <2>1. Lowered(<<"F", "U", "L", "L">>) = <<"f", "u", "l", "l">>
    BY LowercaseOf DEF Lowered
  <2> QED BY <2>1, Capitalised
<1>3. Lowered(Long(2)) = <<"f", "u", "l", "l", "d", "e", "b", "u", "g">>
  <2>1. Lowered(<<"F", "U", "L", "L", "D", "E", "B", "U", "G">>) = <<"f", "u", "l", "l", "d", "e", "b", "u", "g">>
    BY LowercaseOf DEF Lowered
  <2> QED BY <2>1, Capitalised
<1>4. Lowered(Short(3)) = <<"e", "r", "r", "o", "r">>
  <2>1. Lowered(<<"E", "R", "R", "O", "R">>) = <<"e", "r", "r", "o", "r">>
    BY LowercaseOf DEF Lowered
  <2> QED BY <2>1, Capitalised
<1>5. Lowered(Short(4)) = <<"w", "a", "r", "n">>
  <2>1. Lowered(<<"W", "A", "R", "N">>) = <<"w", "a", "r", "n">>
    BY LowercaseOf DEF Lowered
  <2> QED BY <2>1, Capitalised
<1>6. Lowered(Long(4)) = <<"w", "a", "r", "n", "i", "n", "g">>
  <2>1. Lowered(<<"W", "A", "R", "N", "I", "N", "G">>) = <<"w", "a", "r", "n", "i", "n", "g">>
    BY LowercaseOf DEF Lowered
  <2> QED BY <2>1, Capitalised
<1>7. Lowered(Short(5)) = <<"n", "o", "r", "m", "a", "l">>
  <2>1. Lowered(<<"N", "O", "R", "M", "A", "L">>) = <<"n", "o", "r", "m", "a", "l">>
    BY LowercaseOf DEF Lowered
  <2> QED BY <2>1, Capitalised
<1>8. Lowered(Short(6)) = <<"i", "n", "f", "o">>
  <2>1. Lowered(<<"I", "N", "F", "O">>) = <<"i", "n", "f", "o">>
    BY LowercaseOf DEF Lowered
  <2> QED BY <2>1, Capitalised
<1>9. Lowered(Short(7)) = <<"d", "e", "b", "u", "g">>
  <2>1. Lowered(<<"D", "E", "B", "U", "G">>) = <<"d", "e", "b", "u", "g">>
    BY LowercaseOf DEF Lowered
  <2> QED BY <2>1, Capitalised
<1> QED
  BY <1>1, <1>2, <1>3, <1>4, <1>5, <1>6, <1>7, <1>8, <1>9

-----------------------------------------------------------------------------
(* The table of words *)

LEMMA EntryIs ==
    ASSUME NEW w, NEW p
    PROVE  Entry(w, p).word = w /\ Entry(w, p).priority = p
  BY DEF Entry

DigitEntries ==
    {Entry(<<"0">>, Fatal), Entry(<<"1">>, Error), Entry(<<"2">>, Warning),
     Entry(<<"3">>, Normal), Entry(<<"4">>, Debug), Entry(<<"5">>, FullDebug)}

ShortEntry(j) == Entry(Lowered(Short(j)), Branches[j].priority)
LongEntry(j) == Entry(Lowered(Long(j)), Branches[j].priority)

LEMMA TableIs ==
    \A e : e \in Words <=>
              \/ e \in DigitEntries
              \/ \E j \in DOMAIN Branches :
                    e = ShortEntry(j) \/ (Branches[j].more # <<>> /\ e = LongEntry(j))
<1>1. /\ ShortEntry(1) = Entry(<<"f", "a", "t", "a", "l">>, Fatal)
      /\ ShortEntry(2) = Entry(<<"f", "u", "l", "l">>, FullDebug)
      /\ LongEntry(2) = Entry(<<"f", "u", "l", "l", "d", "e", "b", "u", "g">>, FullDebug)
      /\ ShortEntry(3) = Entry(<<"e", "r", "r", "o", "r">>, Error)
      /\ ShortEntry(4) = Entry(<<"w", "a", "r", "n">>, Warning)
      /\ LongEntry(4) = Entry(<<"w", "a", "r", "n", "i", "n", "g">>, Warning)
      /\ ShortEntry(5) = Entry(<<"n", "o", "r", "m", "a", "l">>, Normal)
      /\ ShortEntry(6) = Entry(<<"i", "n", "f", "o">>, Normal)
      /\ ShortEntry(7) = Entry(<<"d", "e", "b", "u", "g">>, Debug)
  BY WordsOfBranches, BranchesAre DEF ShortEntry, LongEntry
<1>2. /\ Branches[1].more = <<>> /\ Branches[3].more = <<>> /\ Branches[5].more = <<>>
      /\ Branches[6].more = <<>> /\ Branches[7].more = <<>>
      /\ Branches[2].more # <<>> /\ Branches[4].more # <<>>
  BY BranchesAre
<1>3. DOMAIN Branches = {1, 2, 3, 4, 5, 6, 7}
  BY BranchesAre
<1> DEFINE Of(e, j) == e = ShortEntry(j) \/ (Branches[j].more # <<>> /\ e = LongEntry(j))
<1>4. ASSUME NEW e
      PROVE  (\E j \in DOMAIN Branches : Of(e, j)) <=>
                \/ e = ShortEntry(1) \/ e = ShortEntry(2) \/ e = LongEntry(2)
                \/ e = ShortEntry(3) \/ e = ShortEntry(4) \/ e = LongEntry(4)
                \/ e = ShortEntry(5) \/ e = ShortEntry(6) \/ e = ShortEntry(7)
  <2>1. /\ Of(e, 1) <=> e = ShortEntry(1)
        /\ Of(e, 2) <=> e = ShortEntry(2) \/ e = LongEntry(2)
        /\ Of(e, 3) <=> e = ShortEntry(3)
        /\ Of(e, 4) <=> e = ShortEntry(4) \/ e = LongEntry(4)
        /\ Of(e, 5) <=> e = ShortEntry(5)
        /\ Of(e, 6) <=> e = ShortEntry(6)
        /\ Of(e, 7) <=> e = ShortEntry(7)
    <3>1. \A j : Of(e, j) <=> e = ShortEntry(j) \/ (Branches[j].more # <<>> /\ e = LongEntry(j))
      OBVIOUS
    <3> HIDE DEF Of
    <3> QED BY <1>2, <3>1, Zenon
  <2> HIDE DEF Of
  <2>2. (\E j \in DOMAIN Branches : Of(e, j)) <=>
           \/ Of(e, 1) \/ Of(e, 2) \/ Of(e, 3) \/ Of(e, 4) \/ Of(e, 5) \/ Of(e, 6) \/ Of(e, 7)
    <3>1. ASSUME NEW j \in DOMAIN Branches, Of(e, j)
          PROVE  Of(e, 1) \/ Of(e, 2) \/ Of(e, 3) \/ Of(e, 4) \/ Of(e, 5) \/ Of(e, 6) \/ Of(e, 7)
      <4>1. j = 1 \/ j = 2 \/ j = 3 \/ j = 4 \/ j = 5 \/ j = 6 \/ j = 7
        BY <1>3
      <4> QED BY <3>1, <4>1, Zenon
    <3>2. /\ 1 \in DOMAIN Branches /\ 2 \in DOMAIN Branches /\ 3 \in DOMAIN Branches
          /\ 4 \in DOMAIN Branches /\ 5 \in DOMAIN Branches /\ 6 \in DOMAIN Branches
          /\ 7 \in DOMAIN Branches
      BY <1>3
    <3> QED BY <3>1, <3>2, Zenon
  <2> QED BY <2>1, <2>2
<1> QED
  BY <1>1, <1>4, ZenonT(40) DEF Words, DigitEntries

LEMMA OneMeaning == \A e, f \in Words : e.word = f.word => e = f
  BY DEF Words, Entry

LEMMA MeaningIs ==
    ASSUME NEW s
    PROVE  /\ \A e \in Words : e.word = Lowered(s) => Meaning(s) = e.priority
           /\ (\A e \in Words : e.word # Lowered(s)) => Meaning(s) = Failure
<1>1. ASSUME NEW e \in Words, e.word = Lowered(s)
      PROVE  Meaning(s) = e.priority
  <2>1. e \in Matching(s)
    BY <1>1 DEF Matching
  <2>2. (CHOOSE f \in Matching(s) : TRUE) \in Matching(s)
    BY <2>1
  <2>3. \A f \in Matching(s) : f = e
    BY <1>1, OneMeaning DEF Matching
  <2> QED BY <2>1, <2>2, <2>3 DEF Meaning
<1>2. ASSUME \A e \in Words : e.word # Lowered(s)
      PROVE  Meaning(s) = Failure
  <2>1. Matching(s) = {}
    BY <1>2 DEF Matching
  <2> QED BY <2>1 DEF Meaning
<1> QED
  BY <1>1, <1>2

(* The words have at least two letters. *)
LEMMA WordLengths ==
    /\ \A e \in DigitEntries : Len(e.word) = 1
    /\ \A j \in DOMAIN Branches :
          /\ Len(ShortEntry(j).word) >= 2
          /\ Branches[j].more # <<>> => Len(LongEntry(j).word) >= 2
<1>1. \A e \in DigitEntries : Len(e.word) = 1
  BY DEF DigitEntries, Entry
<1>2. ASSUME NEW j \in DOMAIN Branches
      PROVE  /\ Len(ShortEntry(j).word) >= 2
             /\ Branches[j].more # <<>> => Len(LongEntry(j).word) >= 2
  <2>1. j = 1 \/ j = 2 \/ j = 3 \/ j = 4 \/ j = 5 \/ j = 6 \/ j = 7
    BY BranchesAre
  <2>2. Len(Lowered(Short(j))) >= 2
    BY <2>1, WordsOfBranches, SMTT(20)
  <2>3. Branches[j].more # <<>> => Len(Lowered(Long(j))) >= 2
    BY <2>1, WordsOfBranches, BranchesAre, SMTT(20)
  <2> QED BY <2>2, <2>3, EntryIs DEF ShortEntry, LongEntry
<1> QED
  BY <1>1, <1>2

(* The last case of the switch: a text of one character *)
LEMMA DigitIs ==
    ASSUME NEW c
    PROVE  /\ \A e \in DigitEntries : e.word = <<Lowercase(c)>> => Digit(c) = e.priority
           /\ (\A e \in DigitEntries : e.word # <<Lowercase(c)>>) => Digit(c) = Failure
<1>1. /\ DOMAIN digits = 1 .. 10
      /\ digits[1] = "0" /\ digits[2] = "1" /\ digits[3] = "2" /\ digits[4] = "3"
      /\ digits[5] = "4" /\ digits[6] = "5"
      /\ \A i, j \in DOMAIN digits : digits[i] = digits[j] => i = j
  BY DEF digits
<1>2. \A i \in DOMAIN digits : i - 1 \in Priorities <=> i \in 1 .. 6
  BY <1>1 DEF Priorities, Fatal, FullDebug
<1>3. ASSUME NEW i \in 1 .. 6
      PROVE  Lowercase(c) = digits[i] <=> c = digits[i]
  <2>1. \A j \in DOMAIN Upper : Upper[j] # digits[i]
    BY <1>1 DEF Upper
  <2>2. \A j \in DOMAIN Lower : Lower[j] # digits[i]
    BY <1>1 DEF Lower
  <2>3. CASE c \in Range(Upper)
    <3>1. PICK j \in 1 .. 26 : c = Upper[j]
      BY <2>3, Capitals DEF Range
    <3>2. Lowercase(c) = Lower[j]
      BY <3>1, Capitals DEF Lowercase
    <3> QED BY <2>1, <2>2, <3>1, <3>2, Capitals
  <2>4. CASE c \notin Range(Upper)
    BY <2>4 DEF Lowercase
  <2> QED BY <2>3, <2>4
<1>4. ASSUME NEW i \in 1 .. 6, c = digits[i]
      PROVE  Digit(c) = i - 1
  <2>1. i \in DOMAIN digits /\ i - 1 \in Priorities
    BY <1>1, <1>2
  <2>2. (CHOOSE k \in DOMAIN digits : digits[k] = c) = i
    BY <1>1, <1>4, <2>1
  <2> QED BY <1>4, <2>1, <2>2 DEF Digit
<1>5. ASSUME \A i \in 1 .. 6 : c # digits[i]
      PROVE  Digit(c) = Failure
  BY <1>1, <1>2, <1>5 DEF Digit
<1>6. /\ \A e \in DigitEntries : \E i \in 1 .. 6 : e = Entry(<<digits[i]>>, i - 1)
      /\ \A i \in 1 .. 6 : Entry(<<digits[i]>>, i - 1) \in DigitEntries
  BY <1>1 DEF DigitEntries, Fatal, Error, Warning, Normal, Debug, FullDebug
<1>7. ASSUME NEW e \in DigitEntries, e.word = <<Lowercase(c)>>
      PROVE  Digit(c) = e.priority
  <2>1. PICK i \in 1 .. 6 : e = Entry(<<digits[i]>>, i - 1)
    BY <1>6
  <2>2. e.word = <<digits[i]>> /\ e.priority = i - 1
    BY <2>1, EntryIs
  <2>3. Lowercase(c) = digits[i]
    BY <1>7, <2>2
  <2> QED BY <1>3, <1>4, <2>2, <2>3
<1>8. ASSUME \A e \in DigitEntries : e.word # <<Lowercase(c)>>
      PROVE  Digit(c) = Failure
  <2>1. ASSUME NEW i \in 1 .. 6
        PROVE  c # digits[i]
    <3>1. Entry(<<digits[i]>>, i - 1).word = <<digits[i]>>
      BY EntryIs
    <3>2. <<digits[i]>> # <<Lowercase(c)>>
      BY <1>6, <1>8, <3>1
    <3> QED BY <1>3, <3>2
  <2> QED BY <1>5, <2>1
<1> QED
  BY <1>7, <1>8

LEMMA ParsesWords ==
    ASSUME NEW s \in Texts
    PROVE  parsePriority(s) = Meaning(s)
<1>1. Len(s) \in Nat /\ DOMAIN s = 1 .. Len(s)
  BY TextIs
<1>2. Len(Lowered(s)) = Len(s) /\ Lowered(s) = [i \in 1 .. Len(s) |-> Lowercase(s[i])]
  BY LoweredIs DEF Texts
<1>3. /\ At(s, 1) = NUL <=> Len(s) = 0
      /\ Len(s) # 0 => (At(s, 2) = NUL <=> Len(s) = 1)
  BY <1>1, TextIs
<1>4. \A e \in Words : \/ e \in DigitEntries /\ Len(e.word) = 1
                       \/ e \notin DigitEntries /\ Len(e.word) >= 2
  BY TableIs, WordLengths
<1>5. CASE Len(s) = 0
  <2>1. \A e \in Words : e.word # Lowered(s)
    BY <1>2, <1>4, <1>5
  <2> QED BY <1>3, <1>5, <2>1, MeaningIs DEF parsePriority
<1>6. CASE Len(s) = 1
  <2>1. parsePriority(s) = Digit(s[1])
    BY <1>3, <1>6, TextIs DEF parsePriority
  <2>2. Lowered(s) = <<Lowercase(s[1])>>
    BY <1>2, <1>6
  <2>3. CASE \E e \in DigitEntries : e.word = Lowered(s)
    <3>1. PICK e \in DigitEntries : e.word = Lowered(s)
      BY <2>3
    <3>2. e \in Words
      BY TableIs
    <3> QED BY <2>1, <2>2, <3>1, <3>2, DigitIs, MeaningIs
  <2>4. CASE \A e \in DigitEntries : e.word # Lowered(s)
    <3>1. \A e \in Words : e.word # Lowered(s)
      <4>1. Len(Lowered(s)) = 1
        BY <1>2, <1>6
      <4>2. \A e \in Words : e.word = Lowered(s) => e \in DigitEntries
        <5> SUFFICES ASSUME NEW e \in Words, e.word = Lowered(s)
                     PROVE  e \in DigitEntries
          OBVIOUS
        <5>1. Len(e.word) = 1
          BY <4>1, Zenon
        <5>2. ~ (Len(e.word) >= 2)
          BY <5>1
        <5> QED BY <1>4, <5>2, Zenon
      <4> QED BY <2>4, <4>2
    <3> QED BY <2>1, <2>2, <2>4, <3>1, DigitIs, MeaningIs
  <2> QED BY <2>3, <2>4
<1>7. CASE Len(s) >= 2
  <2>1. parsePriority(s) =
           IF \E i \in Taken(s) : Accepts(s, Branches[i])
           THEN Branches[CHOOSE i \in Taken(s) : Accepts(s, Branches[i])].priority
           ELSE Failure
    <3>1. Len(s) # 0 /\ Len(s) # 1
      BY <1>1, <1>7
    <3>2. At(s, 1) # NUL /\ At(s, 2) # NUL
      BY <1>3, <3>1
    <3> QED BY <3>2, Zenon DEF parsePriority
  <2>2. \A j : j \in Taken(s) /\ Accepts(s, Branches[j]) <=> j \in DOMAIN Branches /\ Takes(s, j)
    BY DEF Taken, Takes
  <2>3. ASSUME NEW j \in DOMAIN Branches, Takes(s, j)
        PROVE  Meaning(s) = Branches[j].priority
    <3>1. CASE Lowered(s) = Lowered(Short(j))
      <4>1. ShortEntry(j) \in Words
        BY TableIs
      <4> QED BY <3>1, <4>1, EntryIs, MeaningIs DEF ShortEntry
    <3>2. CASE Branches[j].more # <<>> /\ Lowered(s) = Lowered(Long(j))
      <4>1. LongEntry(j) \in Words
        BY <3>2, TableIs
      <4> QED BY <3>2, <4>1, EntryIs, MeaningIs DEF LongEntry
    <3> QED BY <2>3, <3>1, <3>2, TakesIs
  <2>4. CASE \E j \in DOMAIN Branches : Takes(s, j)
    <3> DEFINE i == CHOOSE k \in Taken(s) : Accepts(s, Branches[k])
    <3>1. i \in Taken(s) /\ Accepts(s, Branches[i])
      BY <2>2, <2>4
    <3>2. parsePriority(s) = Branches[i].priority
      BY <2>1, <3>1
    <3> HIDE DEF i
    <3> QED BY <2>2, <2>3, <3>1, <3>2
  <2>5. CASE \A j \in DOMAIN Branches : ~ Takes(s, j)
    <3>1. parsePriority(s) = Failure
      BY <2>1, <2>2, <2>5
    <3>2. ASSUME NEW e \in Words, e.word = Lowered(s)
          PROVE  FALSE
      <4>1. e \notin DigitEntries
        BY <1>2, <1>4, <1>7, <3>2
      <4>2. PICK j \in DOMAIN Branches :
               e = ShortEntry(j) \/ (Branches[j].more # <<>> /\ e = LongEntry(j))
        BY <4>1, TableIs
      <4>3. \/ Lowered(s) = Lowered(Short(j))
            \/ Branches[j].more # <<>> /\ Lowered(s) = Lowered(Long(j))
        BY <3>2, <4>2, EntryIs DEF ShortEntry, LongEntry
      <4> QED BY <2>5, <4>3, TakesIs
    <3> QED BY <3>1, <3>2, MeaningIs
  <2> QED BY <2>4, <2>5
<1> QED
  BY <1>1, <1>5, <1>6, <1>7

(***************************************************************************)
(* Of every text, of any length, parsePriority (PriorityParser.cpp:52)     *)
(* returns the priority of the word of the table that it is, in any case,  *)
(* and it throws for every text that is none of them; so for all that is   *)
(* typed.                                                                  *)
(***************************************************************************)
THEOREM TakesTheWordsAndNothingElse ==
    /\ \A s \in Texts : parsePriority(s) = Meaning(s)
    /\ Spec => []KnowsTheWords
<1>1. \A s \in Texts : parsePriority(s) = Meaning(s)
  BY ParsesWords
<1>2. Typed => KnowsTheWords
  BY <1>1 DEF KnowsTheWords, Typed
<1>3. Spec => []KnowsTheWords
  BY <1>2, TextIsTyped, PTL
<1> QED
  BY <1>1, <1>3

-----------------------------------------------------------------------------
(* Exceptions *)

(* An exception is made while an older one is handled, or none. *)
Made ==
    /\ made \in Seq(Exceptions)
    /\ \A e \in DOMAIN made : made[e].ptr < e

LEMMA ExceptionIs ==
    ASSUME Made, NEW e \in DOMAIN made
    PROVE  /\ e \in Nat /\ e >= 1 /\ Len(made) \in Nat /\ DOMAIN made = 1 .. Len(made)
           /\ made[e].std \in BOOLEAN /\ made[e].ptr \in Nat
           /\ HasCause(made, e) => made[e].ptr \in DOMAIN made /\ made[e].ptr < e
<1>1. made \in Seq(Exceptions) /\ made[e].ptr < e
  BY DEF Made
<1>2. Len(made) \in Nat /\ DOMAIN made = 1 .. Len(made) /\ made[e] \in Exceptions
  BY <1>1
<1>3. made[e].std \in BOOLEAN /\ made[e].ptr \in Nat
  BY <1>2 DEF Exceptions
<1>4. HasCause(made, e) => made[e].ptr # 0
  BY DEF HasCause
<1> QED
  BY <1>1, <1>2, <1>3, <1>4

LEMMA MadeIsMade == Spec => []Made
<1>1. Init => Made
  BY DEF Init, Made
<1>2. Made /\ [Next]_<<text, made>> => Made'
  <2> SUFFICES ASSUME Made, [Next]_<<text, made>>
               PROVE  Made'
    OBVIOUS
  <2>1. ASSUME NEW c \in Characters, Type(c)
        PROVE  Made'
    BY <2>1 DEF Type, Made
  <2>2. ASSUME NEW std \in BOOLEAN, NEW nested \in BOOLEAN, NEW e \in 0 .. Len(made),
               Throw(std, nested, e)
        PROVE  Made'
    <3> DEFINE x == [std |-> std, nested |-> nested, ptr |-> e]
    <3>1. made' = Append(made, x)
      BY <2>2 DEF Throw
    <3>2. x \in Exceptions /\ x.ptr = e
      <4>1. Len(made) \in Nat
        BY DEF Made
      <4> QED BY <4>1 DEF Exceptions
    <3> HIDE DEF x
    <3>3. /\ made' \in Seq(Exceptions) /\ Len(made') = Len(made) + 1 /\ Len(made) \in Nat
          /\ \A i \in 1 .. Len(made) : made'[i] = made[i]
          /\ made'[Len(made) + 1] = x
          /\ DOMAIN made = 1 .. Len(made)
      BY <3>1, <3>2, AppendProperties DEF Made
    <3>4. ASSUME NEW i \in 1 .. Len(made) + 1
          PROVE  made'[i].ptr < i
      <4>1. CASE i \in 1 .. Len(made)
        BY <3>3, <4>1 DEF Made
      <4>2. CASE i = Len(made) + 1
        BY <3>2, <3>3, <4>2
      <4> QED BY <3>3, <4>1, <4>2
    <3> QED BY <3>3, <3>4 DEF Made
  <2>3. CASE UNCHANGED <<text, made>>
    BY <2>3 DEF Made
  <2> QED BY <2>1, <2>2, <2>3 DEF Next
<1> QED
  BY <1>1, <1>2, PTL DEF Spec

(* With an exception its cause *)
Closed(S) == \A x \in S : HasCause(made, x) => made[x].ptr \in S

LEMMA CausesAre ==
    \A e, c : c \in Causes(e) <=>
                 /\ c \in DOMAIN made
                 /\ \A S \in SUBSET DOMAIN made : e \in S /\ Closed(S) => c \in S
  BY DEF Causes, Closed

LEMMA CausesOf ==
    ASSUME Made, NEW e \in DOMAIN made
    PROVE  /\ e \in Causes(e) /\ Causes(e) \subseteq 1 .. e
           /\ HasCause(made, e) => Causes(e) = Causes(made[e].ptr) \cup {e}
           /\ ~ HasCause(made, e) => Causes(e) = {e}
<1>1. e \in Causes(e)
  BY CausesAre
<1>2. ASSUME NEW q \in DOMAIN made
      PROVE  Causes(q) \in SUBSET DOMAIN made /\ Closed(Causes(q))
  <2>1. ASSUME NEW x \in Causes(q), HasCause(made, x)
        PROVE  made[x].ptr \in Causes(q)
    <3>1. x \in DOMAIN made /\ made[x].ptr \in DOMAIN made
      BY <2>1, CausesAre, ExceptionIs
    <3>2. ASSUME NEW S \in SUBSET DOMAIN made, q \in S, Closed(S)
          PROVE  made[x].ptr \in S
      BY <2>1, <3>2, CausesAre DEF Closed
    <3> QED BY <3>1, <3>2, CausesAre
  <2> QED BY <2>1, CausesAre DEF Closed
<1>3. ASSUME NEW S \in SUBSET DOMAIN made, e \in S, Closed(S)
      PROVE  Causes(e) \subseteq S
  BY <1>3, CausesAre
<1>4. Causes(e) \subseteq 1 .. e
  <2>1. 1 .. e \in SUBSET DOMAIN made /\ e \in 1 .. e
    BY ExceptionIs
  <2>2. Closed(1 .. e)
    <3> SUFFICES ASSUME NEW x \in 1 .. e, HasCause(made, x)
                 PROVE  made[x].ptr \in 1 .. e
      BY DEF Closed
    <3>1. x \in DOMAIN made
      BY <2>1
    <3>2. made[x].ptr \in DOMAIN made /\ made[x].ptr < x /\ DOMAIN made = 1 .. Len(made)
          /\ Len(made) \in Nat /\ e \in Nat /\ x \in Nat
      BY <3>1, ExceptionIs
    <3> QED BY <3>2
  <2> QED BY <1>3, <2>1, <2>2
<1>5. ASSUME HasCause(made, e)
      PROVE  Causes(e) = Causes(made[e].ptr) \cup {e}
  <2> DEFINE p == made[e].ptr
  <2>1. p \in DOMAIN made
    BY <1>5, ExceptionIs
  <2>2. Causes(p) \subseteq Causes(e)
    <3>1. p \in Causes(e) /\ Causes(e) \in SUBSET DOMAIN made /\ Closed(Causes(e))
      BY <1>1, <1>2, <1>5 DEF Closed
    <3> HIDE DEF p
    <3> QED BY <3>1, CausesAre
  <2>3. Causes(e) \subseteq Causes(p) \cup {e}
    <3>1. p \in Causes(p)
      BY <2>1, CausesAre
    <3>2. Causes(p) \in SUBSET DOMAIN made /\ Closed(Causes(p))
      BY <1>2, <2>1
    <3>3. Closed(Causes(p) \cup {e})
      BY <3>1, <3>2 DEF Closed
    <3> QED BY <1>3, <3>2, <3>3
  <2> QED BY <1>1, <2>2, <2>3
<1>6. ASSUME ~ HasCause(made, e)
      PROVE  Causes(e) = {e}
  <2>1. Closed({e})
    BY <1>6 DEF Closed
  <2> QED BY <1>1, <1>3, <2>1
<1> QED
  BY <1>1, <1>4, <1>5, <1>6

Many(e) == Cardinality(Causes(e))
UpTo(e, c) == {d \in Causes(e) : d <= c}
Place(e, c) == Cardinality(UpTo(e, c))

LEMMA ManyIs ==
    ASSUME Made, NEW e \in DOMAIN made
    PROVE  /\ IsFiniteSet(Causes(e)) /\ Many(e) \in Nat /\ Many(e) >= 1
           /\ \A c : IsFiniteSet(UpTo(e, c)) /\ Place(e, c) \in Nat /\ Place(e, c) <= Many(e)
           /\ \A c \in Causes(e) : Place(e, c) >= 1
           /\ Place(e, e) = Many(e)
<1>1. e \in Nat /\ e \in Causes(e) /\ Causes(e) \subseteq 1 .. e
  BY CausesOf, ExceptionIs
<1>2. IsFiniteSet(1 .. e)
  BY <1>1, FS_Interval
<1>3. IsFiniteSet(Causes(e)) /\ Many(e) \in Nat
  BY <1>1, <1>2, FS_Subset, FS_CardinalityType DEF Many
<1>4. Many(e) # 0
  BY <1>1, <1>3, FS_EmptySet DEF Many
<1>5. ASSUME NEW c
      PROVE  IsFiniteSet(UpTo(e, c)) /\ Place(e, c) \in Nat /\ Place(e, c) <= Many(e)
  <2>1. UpTo(e, c) \in SUBSET Causes(e)
    BY DEF UpTo
  <2> QED BY <1>3, <2>1, FS_Subset, FS_CardinalityType DEF Place, Many
<1>6. ASSUME NEW c \in Causes(e)
      PROVE  Place(e, c) # 0
  <2>1. c \in UpTo(e, c)
    BY <1>1 DEF UpTo
  <2> QED BY <1>5, <2>1, FS_EmptySet DEF Place
<1>7. Place(e, e) = Many(e)
  <2>1. UpTo(e, e) = Causes(e)
    BY <1>1 DEF UpTo
  <2> QED BY <2>1 DEF Place, Many
<1> QED
  BY <1>3, <1>4, <1>5, <1>6, <1>7

(* An exception comes after all that is behind it. *)
LEMMA PlaceOf ==
    ASSUME Made, NEW e \in DOMAIN made
    PROVE  /\ HasCause(made, e) =>
                 /\ Many(e) = Many(made[e].ptr) + 1
                 /\ \A c \in Causes(made[e].ptr) : Place(e, c) = Place(made[e].ptr, c)
           /\ ~ HasCause(made, e) => Many(e) = 1
<1>1. ASSUME HasCause(made, e)
      PROVE  /\ Many(e) = Many(made[e].ptr) + 1
             /\ \A c \in Causes(made[e].ptr) : Place(e, c) = Place(made[e].ptr, c)
  <2> DEFINE p == made[e].ptr
  <2>1. p \in DOMAIN made /\ p < e /\ p \in Nat /\ e \in Nat
    BY <1>1, ExceptionIs
  <2>2. Causes(e) = Causes(p) \cup {e}
    BY <1>1, CausesOf
  <2> HIDE DEF p
  <2>3. Causes(p) \subseteq 1 .. p
    BY <2>1, CausesOf
  <2>4. e \notin Causes(p)
    BY <2>1, <2>3
  <2>5. Many(e) = Many(p) + 1
    BY <2>1, <2>2, <2>4, ManyIs, FS_AddElement DEF Many
  <2>6. ASSUME NEW c \in Causes(p)
        PROVE  UpTo(e, c) = UpTo(p, c)
    <3>1. c \in Nat /\ c <= p
      BY <2>1, <2>3
    <3>2. ~ (e <= c)
      BY <2>1, <3>1
    <3> QED BY <2>2, <3>2 DEF UpTo
  <2> QED BY <2>5, <2>6 DEF p, Place
<1>2. ASSUME ~ HasCause(made, e)
      PROVE  Many(e) = 1
  <2>1. Causes(e) = {e}
    BY <1>2, CausesOf
  <2> QED BY <2>1, FS_Singleton DEF Many
<1> QED
  BY <1>1, <1>2

-----------------------------------------------------------------------------
(* The recursion of printException_ ends: a cause is older. *)

LEMMA LeastFailure ==
    ASSUME NEW S \in SUBSET Nat, S # {}
    PROVE  \E i \in S : \A j \in S : i <= j
<1> DEFINE R == {p \in Nat \X Nat : p[1] < p[2]}
<1>1. IsWellFoundedOn(R, Nat)
  BY NatLessThanWellFounded DEF OpToRel
<1> HIDE DEF R
<1>2. PICK i \in S : \A j \in S : ~ (<<j, i>> \in R)
  BY <1>1, WFMin
<1>3. \A j, k \in S : <<j, k>> \in R <=> j < k
  BY DEF R
<1>4. \A j \in S : ~ (j < i)
  BY <1>2, <1>3
<1>5. \A j \in S : i <= j
  BY <1>4
<1> QED
  BY <1>5

(* The calls about the first n exceptions *)
CallsUpTo(n) == (1 .. n) \X Nat \X Nat

Unfolds(f, C) == f = [call \in C |-> Returns(f, made, call[1], call[2], call[3])]

LEMMA CallIs ==
    ASSUME NEW n \in Nat, NEW call \in CallsUpTo(n)
    PROVE  /\ call[1] \in 1 .. n /\ call[2] \in Nat /\ call[3] \in Nat
           /\ call = <<call[1], call[2], call[3]>>
  BY DEF CallsUpTo

(* What a call returns depends only on the calls about older exceptions. *)
LEMMA ReturnsByCauses ==
    ASSUME Made, NEW f, NEW g, NEW e \in DOMAIN made, NEW l \in Nat, NEW t \in Nat,
           \A call \in CallsUpTo(e - 1) : f[call] = g[call]
    PROVE  Returns(f, made, e, l, t) = Returns(g, made, e, l, t)
<1>1. CASE HasCause(made, e)
  <2>1. made[e].ptr \in 1 .. e - 1
    BY <1>1, ExceptionIs
  <2>2. <<made[e].ptr, l + 1, t + 1>> \in CallsUpTo(e - 1)
    BY <2>1 DEF CallsUpTo
  <2>3. f[<<made[e].ptr, l + 1, t + 1>>] = g[<<made[e].ptr, l + 1, t + 1>>]
    BY <2>2
  <2> QED BY <1>1, <2>3 DEF Returns
<1>2. CASE ~ HasCause(made, e)
  BY <1>2 DEF Returns
<1> QED
  BY <1>1, <1>2

LEMMA PrintingExists ==
    ASSUME Made
    PROVE  \A n \in 0 .. Len(made) : \E f : Unfolds(f, CallsUpTo(n))
<1> DEFINE Missing == {n \in 0 .. Len(made) : ~ \E f : Unfolds(f, CallsUpTo(n))}
<1>1. Len(made) \in Nat /\ DOMAIN made = 1 .. Len(made)
  BY DEF Made
<1>2. SUFFICES ASSUME Missing # {}
               PROVE  FALSE
  OBVIOUS
<1>3. Missing \in SUBSET Nat
  BY <1>1
<1>4. PICK n \in Missing : \A m \in Missing : n <= m
  BY <1>2, <1>3, LeastFailure
<1>5. n \in Nat /\ n <= Len(made) /\ ~ \E f : Unfolds(f, CallsUpTo(n))
  BY <1>1, <1>4
<1>6. CASE n = 0
  <2>1. CallsUpTo(n) = {}
    BY <1>6 DEF CallsUpTo
  <2> DEFINE f == [call \in {} |-> 0]
  <2>2. f = [call \in {} |-> Returns(f, made, call[1], call[2], call[3])]
    OBVIOUS
  <2>3. Unfolds(f, CallsUpTo(n))
    BY <2>1, <2>2 DEF Unfolds
  <2> QED BY <1>5, <2>3
<1>7. CASE n # 0
  <2>1. n - 1 \in 0 .. Len(made) /\ n - 1 \notin Missing
    BY <1>1, <1>4, <1>5, <1>7
  <2>2. PICK g : Unfolds(g, CallsUpTo(n - 1))
    BY <2>1
  <2> DEFINE f == [call \in CallsUpTo(n) |->
                      IF call[1] <= n - 1 THEN g[call]
                      ELSE Returns(g, made, call[1], call[2], call[3])]
  <2>3. \A call \in CallsUpTo(n - 1) : g[call] = Returns(g, made, call[1], call[2], call[3])
    BY <2>2, Zenon DEF Unfolds
  <2>4. ASSUME NEW call \in CallsUpTo(n)
        PROVE  f[call] = Returns(g, made, call[1], call[2], call[3])
    <3>1. call[1] \in 1 .. n /\ call[2] \in Nat /\ call[3] \in Nat
          /\ call = <<call[1], call[2], call[3]>>
      BY <1>5, CallIs
    <3>2. CASE call[1] <= n - 1
      <4>1. call[1] \in 1 .. n - 1
        BY <1>5, <3>1, <3>2
      <4>2. call \in CallsUpTo(n - 1)
        BY <3>1, <4>1 DEF CallsUpTo
      <4> QED BY <2>3, <3>2, <4>2
    <3>3. CASE ~ (call[1] <= n - 1)
      BY <3>3
    <3> QED BY <3>2, <3>3
  <2>5. f = [call \in CallsUpTo(n) |-> f[call]]
    OBVIOUS
  <2>6. ASSUME NEW call \in CallsUpTo(n)
        PROVE  f[call] = Returns(f, made, call[1], call[2], call[3])
    <3>1. call[1] \in 1 .. n /\ call[2] \in Nat /\ call[3] \in Nat
      BY <1>5, CallIs
    <3>2. call[1] \in DOMAIN made
      BY <1>1, <1>5, <3>1
    <3>3. ASSUME NEW other \in CallsUpTo(call[1] - 1)
          PROVE  f[other] = g[other]
      <4>1. /\ other[1] \in 1 .. call[1] - 1 /\ other[2] \in Nat /\ other[3] \in Nat
            /\ other = <<other[1], other[2], other[3]>>
        <5>1. call[1] - 1 \in Nat
          BY <3>1
        <5> QED BY <5>1, CallIs
      <4>2. other[1] \in 1 .. n /\ other[1] <= n - 1
        BY <1>5, <3>1, <4>1
      <4>3. other \in CallsUpTo(n)
        BY <4>1, <4>2 DEF CallsUpTo
      <4> QED BY <4>2, <4>3
    <3> HIDE DEF f
    <3>4. Returns(f, made, call[1], call[2], call[3]) = Returns(g, made, call[1], call[2], call[3])
      <4> DEFINE e == call[1]
                 l == call[2]
                 t == call[3]
      <4>1. e \in DOMAIN made /\ l \in Nat /\ t \in Nat
        BY <3>1, <3>2
      <4>2. \A other \in CallsUpTo(e - 1) : f[other] = g[other]
        BY <3>3
      <4> HIDE DEF e, l, t
      <4>3. Returns(f, made, e, l, t) = Returns(g, made, e, l, t)
        BY <4>1, <4>2, ReturnsByCauses
      <4> QED BY <4>3 DEF e, l, t
    <3> QED BY <2>4, <3>4
  <2> HIDE DEF f
  <2>7. f = [call \in CallsUpTo(n) |-> Returns(f, made, call[1], call[2], call[3])]
    BY <2>5, <2>6, Zenon
  <2> QED BY <1>5, <2>7 DEF Unfolds
<1> QED
  BY <1>6, <1>7

LEMMA PrintingIs ==
    ASSUME Made, NEW e \in DOMAIN made, NEW l \in Nat, NEW t \in Nat
    PROVE  Printing(made)[<<e, l, t>>] = Returns(Printing(made), made, e, l, t)
<1>1. Len(made) \in Nat /\ Calls(made) = CallsUpTo(Len(made))
  BY DEF Made, Calls, CallsUpTo
<1>2. \E f : Unfolds(f, Calls(made))
  <2>1. Len(made) \in 0 .. Len(made)
    BY <1>1
  <2> QED BY <1>1, <2>1, PrintingExists
<1>3. Printing(made) = CHOOSE f : Unfolds(f, Calls(made))
  BY DEF Printing, Unfolds
<1>4. Unfolds(Printing(made), Calls(made))
  BY <1>2, <1>3, Zenon
<1>5. <<e, l, t>> \in Calls(made)
  BY DEF Calls
<1> DEFINE f == Printing(made)
<1> HIDE DEF f
<1>6. f = [call \in Calls(made) |-> Returns(f, made, call[1], call[2], call[3])]
  BY <1>4 DEF Unfolds, f
<1>7. f[<<e, l, t>>] = Returns(f, made, <<e, l, t>>[1], <<e, l, t>>[2], <<e, l, t>>[3])
  BY <1>5, <1>6, Zenon
<1> QED
  BY <1>7 DEF f

-----------------------------------------------------------------------------
(* What printException_ prints *)

Messages == [number : Nat, total : Nat, what : Nat]

(* r is what the call about e returns that is given levelNow = l and       *)
(* totalLevels = t.                                                        *)
PrintsAll(r, e, l, t) ==
    /\ r.lines \in Seq(Messages) /\ Len(r.lines) = Many(e)
    /\ r.total = t + Many(e) - 1
    /\ \A c \in Causes(e) : r.lines[Place(e, c)].what = IF made[c].std THEN c ELSE 0
    /\ \A i \in 1 .. Many(e) : /\ r.lines[i].number = l + Many(e) - i
                               /\ r.lines[i].total = t + Many(e) - 1

LEMMA FormattedIs ==
    ASSUME Made, NEW e \in DOMAIN made, NEW l \in Nat, NEW t \in Nat
    PROVE  LET m == Formatted(made, e, l, t)
           IN  /\ m \in Messages /\ m.number = l /\ m.total = t
               /\ m.what = IF made[e].std THEN e ELSE 0
  BY ExceptionIs DEF Formatted, Messages

LEMMA PrintsStep ==
    ASSUME Made, NEW e \in DOMAIN made, NEW l \in Nat, NEW t \in Nat,
           HasCause(made, e) =>
              PrintsAll(Printing(made)[<<made[e].ptr, l + 1, t + 1>>],
                        made[e].ptr, l + 1, t + 1)
    PROVE  PrintsAll(Printing(made)[<<e, l, t>>], e, l, t)
<1> DEFINE r == Printing(made)[<<e, l, t>>]
<1>1. r = Returns(Printing(made), made, e, l, t)
  BY PrintingIs
<1> HIDE DEF r
<1>2. /\ e \in Nat /\ Many(e) \in Nat /\ Place(e, e) = Many(e)
  BY ExceptionIs, ManyIs
<1>3. CASE ~ HasCause(made, e)
  <2> DEFINE m == Formatted(made, e, l, t)
  <2>1. r.lines = Append(<<>>, m) /\ r.total = t
    BY <1>1, <1>3 DEF Returns
  <2>2. m \in Messages /\ m.number = l /\ m.total = t /\ m.what = IF made[e].std THEN e ELSE 0
    BY FormattedIs
  <2> HIDE DEF m
  <2>3. r.lines = <<m>>
    BY <2>1
  <2>4. Many(e) = 1 /\ Causes(e) = {e}
    BY <1>3, CausesOf, PlaceOf
  <2>5. r.lines \in Seq(Messages) /\ Len(r.lines) = 1 /\ r.lines[1] = m
    BY <2>2, <2>3
  <2>6. \A c \in Causes(e) : r.lines[Place(e, c)].what = IF made[c].std THEN c ELSE 0
    BY <1>2, <2>2, <2>4, <2>5
  <2>7. r.total = t + Many(e) - 1
    BY <2>1, <2>4
  <2>8. \A i \in 1 .. Many(e) : /\ r.lines[i].number = l + Many(e) - i
                                /\ r.lines[i].total = t + Many(e) - 1
    BY <2>2, <2>4, <2>5
  <2>9. PrintsAll(r, e, l, t)
    BY <2>4, <2>5, <2>6, <2>7, <2>8 DEF PrintsAll
  <2> QED BY <2>9 DEF r
<1>4. CASE HasCause(made, e)
  <2> DEFINE p == made[e].ptr
             inner == Printing(made)[<<p, l + 1, t + 1>>]
             n == Many(p)
             m == Formatted(made, e, l, inner.total)
  <2>1. r.lines = Append(inner.lines, m) /\ r.total = inner.total
    BY <1>1, <1>4 DEF Returns
  <2>2. PrintsAll(inner, p, l + 1, t + 1)
    BY <1>4
  <2>3. p \in DOMAIN made /\ Many(e) = n + 1 /\ Causes(e) = Causes(p) \cup {e}
        /\ \A c \in Causes(p) : Place(e, c) = Place(p, c)
    BY <1>4, ExceptionIs, PlaceOf, CausesOf
  <2> HIDE DEF p, inner
  <2>4. n \in Nat /\ n >= 1 /\ \A c \in Causes(p) : Place(p, c) \in 1 .. n
    BY <2>3, ManyIs
  <2> HIDE DEF n
  <2>5. /\ inner.lines \in Seq(Messages) /\ Len(inner.lines) = n
        /\ inner.total = t + n
        /\ \A c \in Causes(p) : inner.lines[Place(p, c)].what = IF made[c].std THEN c ELSE 0
        /\ \A i \in 1 .. n : /\ inner.lines[i].number = l + 1 + n - i
                             /\ inner.lines[i].total = t + n
    <3>1. t + 1 + n - 1 = t + n
      BY <2>4
    <3> QED BY <2>2, <3>1 DEF PrintsAll, n
  <2>6. m \in Messages /\ m.number = l /\ m.total = t + n /\ m.what = IF made[e].std THEN e ELSE 0
    <3>1. inner.total \in Nat
      BY <2>4, <2>5
    <3> QED BY <2>5, <3>1, FormattedIs
  <2> HIDE DEF m
  <2> DEFINE lines == r.lines
             before == inner.lines
  <2>7. lines = Append(before, m)
    BY <2>1
  <2>8. before \in Seq(Messages) /\ Len(before) = n
    BY <2>5
  <2>9. /\ lines \in Seq(Messages) /\ Len(lines) = n + 1
        /\ \A i \in 1 .. n : lines[i] = before[i]
        /\ lines[n + 1] = m
    <3> HIDE DEF lines, before
    <3> QED BY <2>6, <2>7, <2>8, AppendProperties
  <2>10. ASSUME NEW c \in Causes(e)
         PROVE  lines[Place(e, c)].what = IF made[c].std THEN c ELSE 0
    <3>1. CASE c = e
      BY <1>2, <2>3, <2>6, <2>9, <3>1
    <3>2. CASE c # e
      <4>1. c \in Causes(p) /\ Place(e, c) = Place(p, c) /\ Place(p, c) \in 1 .. n
        BY <2>3, <2>4, <3>2
      <4>2. lines[Place(e, c)] = before[Place(p, c)]
        BY <2>9, <4>1
      <4> QED BY <2>5, <4>1, <4>2
    <3> QED BY <3>1, <3>2
  <2>11. ASSUME NEW i \in 1 .. n + 1
         PROVE  lines[i].number = l + (n + 1) - i /\ lines[i].total = t + (n + 1) - 1
    <3>1. CASE i \in 1 .. n
      <4>1. before[i].number = l + 1 + n - i /\ before[i].total = t + n
        BY <2>5, <3>1
      <4>2. l + 1 + n - i = l + (n + 1) - i /\ t + n = t + (n + 1) - 1
        BY <2>4
      <4> QED BY <2>9, <3>1, <4>1, <4>2
    <3>2. CASE i = n + 1
      <4>1. l + (n + 1) - i = l /\ t + (n + 1) - 1 = t + n
        BY <2>4, <3>2
      <4> QED BY <2>6, <2>9, <3>2, <4>1
    <3> QED BY <2>4, <3>1, <3>2
  <2>12. r.total = t + (n + 1) - 1
    BY <2>1, <2>4, <2>5
  <2>13. PrintsAll(r, e, l, t)
    BY <2>3, <2>9, <2>10, <2>11, <2>12 DEF PrintsAll
  <2> QED BY <2>13 DEF r
<1> QED
  BY <1>3, <1>4

(* By induction over the age of the exceptions *)
LEMMA PrintsAllOf ==
    ASSUME Made
    PROVE  \A e \in DOMAIN made : \A l, t \in Nat :
              PrintsAll(Printing(made)[<<e, l, t>>], e, l, t)
<1> DEFINE Ok(e) == \A l, t \in Nat : PrintsAll(Printing(made)[<<e, l, t>>], e, l, t)
           Wrong == {e \in DOMAIN made : ~ Ok(e)}
<1>1. SUFFICES ASSUME Wrong # {}
               PROVE  FALSE
  BY Zenon
<1>2. Wrong \in SUBSET Nat
  BY ExceptionIs
<1>3. PICK e \in Wrong : \A q \in Wrong : e <= q
  BY <1>1, <1>2, LeastFailure
<1>4. ASSUME NEW l \in Nat, NEW t \in Nat
      PROVE  PrintsAll(Printing(made)[<<e, l, t>>], e, l, t)
  <2>1. ASSUME HasCause(made, e)
        PROVE  PrintsAll(Printing(made)[<<made[e].ptr, l + 1, t + 1>>],
                         made[e].ptr, l + 1, t + 1)
    <3>1. made[e].ptr \in DOMAIN made /\ made[e].ptr < e /\ e \in Nat /\ made[e].ptr \in Nat
      BY <1>3, <2>1, ExceptionIs
    <3>2. made[e].ptr \notin Wrong
      <4>1. ~ (e <= made[e].ptr)
        BY <3>1
      <4> QED BY <1>3, <4>1
    <3>3. Ok(made[e].ptr)
      BY <3>1, <3>2
    <3>4. l + 1 \in Nat /\ t + 1 \in Nat
      OBVIOUS
    <3> QED BY <3>3, <3>4
  <2> QED BY <1>3, <2>1, PrintsStep
<1>5. Ok(e)
  BY <1>4
<1> QED
  BY <1>3, <1>5

(***************************************************************************)
(* Of whatever exceptions a program nests, printException (Logger.h:283)   *)
(* prints the one it is given and every one behind it once, the first      *)
(* cause first, numbered down to 1, and each with the number of all.       *)
(***************************************************************************)
THEOREM EveryCauseIsPrinted == Spec => []PrintsEveryCause
<1>1. Made => PrintsEveryCause
  <2> SUFFICES ASSUME Made, NEW e \in DOMAIN made
               PROVE  LET lines == printException(made, e)
                          causes == Causes(e)
                          Rank(c) == Cardinality({d \in causes : d <= c})
                      IN  /\ Len(lines) = Cardinality(causes)
                          /\ \A c \in causes :
                                lines[Rank(c)].what = IF made[c].std THEN c ELSE 0
                          /\ \A i \in DOMAIN lines :
                                /\ lines[i].number = Cardinality(causes) + 1 - i
                                /\ lines[i].total = Cardinality(causes)
    BY DEF PrintsEveryCause
  <2> DEFINE r == Printing(made)[<<e, 1, 1>>]
             lines == r.lines
  <2>1. printException(made, e) = lines
    BY ExceptionIs DEF printException
  <2>2. PrintsAll(r, e, 1, 1)
    BY PrintsAllOf
  <2>3. Many(e) \in Nat
    BY ManyIs
  <2> HIDE DEF r
  <2>4. /\ lines \in Seq(Messages) /\ Len(lines) = Many(e)
        /\ \A c \in Causes(e) : lines[Place(e, c)].what = IF made[c].std THEN c ELSE 0
        /\ \A i \in 1 .. Many(e) : /\ lines[i].number = 1 + Many(e) - i
                                   /\ lines[i].total = 1 + Many(e) - 1
    BY <2>2, Zenon DEF PrintsAll
  <2> HIDE DEF lines
  <2>5. DOMAIN lines = 1 .. Many(e)
    BY <2>4
  <2>6. \A i \in DOMAIN lines : lines[i].number = Many(e) + 1 - i /\ lines[i].total = Many(e)
    BY <2>3, <2>4, <2>5
  <2>7. Many(e) = Cardinality(Causes(e))
        /\ \A c : Place(e, c) = Cardinality({d \in Causes(e) : d <= c})
    BY DEF Many, Place, UpTo
  <2> QED BY <2>1, <2>4, <2>6, <2>7
<1> QED
  BY <1>1, MadeIsMade, PTL
=============================================================================
