--------------------------- MODULE PriorityParser ---------------------------
(***************************************************************************)
(* LogHard::parsePriority: the priority a user wrote as a digit or as a    *)
(* word, in any case.  The code walks a pointer through the C string; the  *)
(* model keeps the walk, so that what it reads can be told apart from what *)
(* it returns.                                                             *)
(***************************************************************************)
EXTENDS Naturals, Sequences, SequencesExt

(* enum Priority *)
Fatal == 0
Error == 1
Warning == 2
Normal == 3
Debug == 4
FullDebug == 5
Priorities == Fatal .. FullDebug

(* PriorityParseException is thrown: an outcome that is no priority *)
Failure == 6

(* A text is the sequence of its characters, without the NUL that ends it. *)
NUL == "NUL"

-----------------------------------------------------------------------------

Upper == <<"A", "B", "C", "D", "E", "F", "G", "H", "I", "J", "K", "L", "M",
           "N", "O", "P", "Q", "R", "S", "T", "U", "V", "W", "X", "Y", "Z">>
Lower == <<"a", "b", "c", "d", "e", "f", "g", "h", "i", "j", "k", "l", "m",
           "n", "o", "p", "q", "r", "s", "t", "u", "v", "w", "x", "y", "z">>

ToLower == [c \in Range(Upper) |-> Lower[CHOOSE i \in DOMAIN Upper : Upper[i] = c]]

asciiToLower(v) == IF v \in DOMAIN ToLower THEN ToLower[v] ELSE v

(* Mutant: only the letter as it is written in the code *)
charIsExactly(v, a) == v = a

(* Does the letter v of the text stand for the capital letter a? *)
charIs(v, a) == v = a \/ v = asciiToLower(a)

(* What c[i] reads: there is nothing to be read after the NUL. *)
At(s, i) == IF i <= Len(s) THEN s[i] ELSE NUL

(***************************************************************************)
(* A chain of charIs, joined by && and each moving the pointer first, that *)
(* reads from i on, stops at the first character that differs from w.      *)
(***************************************************************************)
Agrees(s, i, w, n) == \A k \in 1 .. n : charIs(At(s, i + k - 1), w[k])

Chain(s, i, w) == Agrees(s, i, w, Len(w))

(* Mutant: "&" in place of "&&" *)
ChainReadsAll(s, i, w) == i .. i + Len(w) - 1

(* The positions the chain reads *)
ChainReads(s, i, w) ==
    {i + k - 1 : k \in {n \in 1 .. Len(w) : Agrees(s, i, w, n - 1)}}

(* Mutant: the end is not checked *)
EndsAnywhere(s, i) == TRUE

(* Is the character read the NUL? *)
Ends(s, i) == At(s, i) = NUL

digits == <<"0", "1", "2", "3", "4", "5", "6", "7", "8", "9">>

Digit(c) ==
    IF \E i \in DOMAIN digits : digits[i] = c /\ i - 1 \in Priorities
    THEN (CHOOSE i \in DOMAIN digits : digits[i] = c) - 1
    ELSE Failure

(***************************************************************************)
(* The branches of the switch on the first character, the one on the       *)
(* second for "F", and the && and || in each: the first character, what    *)
(* the chain asks for next, what it may go on with (the alternative of     *)
(* "warn" is "warning", of "full" "fulldebug"), and the result.            *)
(***************************************************************************)
Branches == <<
    [head |-> <<"F", "A">>, chain |-> <<"T", "A", "L">>, more |-> <<>>,
     priority |-> Fatal],
    [head |-> <<"F", "U">>, chain |-> <<"L", "L">>,
     more |-> <<"D", "E", "B", "U", "G">>, priority |-> FullDebug],
    [head |-> <<"E">>, chain |-> <<"R", "R", "O", "R">>, more |-> <<>>,
     priority |-> Error],
    [head |-> <<"W">>, chain |-> <<"A", "R", "N">>,
     more |-> <<"I", "N", "G">>, priority |-> Warning],
    [head |-> <<"N">>, chain |-> <<"O", "R", "M", "A", "L">>, more |-> <<>>,
     priority |-> Normal],
    [head |-> <<"I">>, chain |-> <<"N", "F", "O">>, more |-> <<>>,
     priority |-> Normal],
    [head |-> <<"D">>, chain |-> <<"E", "B", "U", "G">>, more |-> <<>>,
     priority |-> Debug]>>

(* Where the chain of a branch, and what it may go on with, begin *)
ChainAt(b) == Len(b.head) + 1
MoreAt(b) == ChainAt(b) + Len(b.chain)

Taken(s) == {i \in DOMAIN Branches : Chain(s, 1, Branches[i].head)}

Accepts(s, b) ==
    /\ Chain(s, ChainAt(b), b.chain)
    /\ \/ Ends(s, MoreAt(b))
       \/ /\ b.more # <<>>
          /\ Chain(s, MoreAt(b), b.more)
          /\ Ends(s, MoreAt(b) + Len(b.more))

parsePriority(s) ==
    IF At(s, 1) = NUL
    THEN Failure
    ELSE IF At(s, 2) = NUL
    THEN Digit(At(s, 1))
    ELSE IF \E i \in Taken(s) : Accepts(s, Branches[i])
    THEN Branches[CHOOSE i \in Taken(s) : Accepts(s, Branches[i])].priority
    ELSE Failure

(***************************************************************************)
(* The positions parsePriority reads: the first and, of a text that is not *)
(* empty, the second character, and those its chains read.                 *)
(***************************************************************************)
MoreReads(s, b) ==
    IF Ends(s, MoreAt(b)) \/ b.more = <<>> THEN {}
    ELSE ChainReads(s, MoreAt(b), b.more)
         \cup {i \in {MoreAt(b) + Len(b.more)} : Chain(s, MoreAt(b), b.more)}

BranchReads(s, b) ==
    IF ~ Chain(s, 1, b.head) THEN {}
    ELSE ChainReads(s, ChainAt(b), b.chain)
         \cup (IF Chain(s, ChainAt(b), b.chain)
               THEN {MoreAt(b)} \cup MoreReads(s, b) ELSE {})

Reads(s) ==
    IF At(s, 1) = NUL THEN {1}
    ELSE {1, 2} \cup (IF At(s, 2) = NUL THEN {}
                      ELSE UNION {BranchReads(s, Branches[i]) : i \in DOMAIN Branches})
=============================================================================
