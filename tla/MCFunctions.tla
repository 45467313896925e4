---------------------------- MODULE MCFunctions ----------------------------
(***************************************************************************)
(* The functions that keep no state, against what they are to compute.     *)
(*                                                                         *)
(* parsePriority, against a table of the words it is to know, for all      *)
(* texts that are such a word, in any case, a word cut short anywhere, or  *)
(* one of these with a wrong character at its end; they are typed one      *)
(* character at a time.                                                    *)
(*                                                                         *)
(* printException, against the causes of an exception, for all exceptions  *)
(* that a program can make by throwing while it handles any earlier one.   *)
(***************************************************************************)
EXTENDS PriorityParser, ExceptionPrinter, FiniteSets, TLC

CONSTANTS
    Characters,    \* the characters that are typed
    MaxExceptions  \* bound: exceptions made

ASSUME MCFunctionsAssumption == NUL \notin Characters

VARIABLES
    text,  \* what has been typed
    made   \* the exceptions made

Lowercase(c) == IF c \in Range(Upper) THEN ToLower[c] ELSE c

Entry(word, priority) == [word |-> word, priority |-> priority]

(* The words, in lower case *)
Words ==
    {Entry(<<"f", "a", "t", "a", "l">>, Fatal),
     Entry(<<"e", "r", "r", "o", "r">>, Error),
     Entry(<<"w", "a", "r", "n">>, Warning),
     Entry(<<"w", "a", "r", "n", "i", "n", "g">>, Warning),
     Entry(<<"n", "o", "r", "m", "a", "l">>, Normal),
     Entry(<<"i", "n", "f", "o">>, Normal),
     Entry(<<"d", "e", "b", "u", "g">>, Debug),
     Entry(<<"f", "u", "l", "l">>, FullDebug),
     Entry(<<"f", "u", "l", "l", "d", "e", "b", "u", "g">>, FullDebug),
     Entry(<<"0">>, Fatal),
     Entry(<<"1">>, Error),
     Entry(<<"2">>, Warning),
     Entry(<<"3">>, Normal),
     Entry(<<"4">>, Debug),
     Entry(<<"5">>, FullDebug)}

Lowered(s) == [i \in DOMAIN s |-> Lowercase(s[i])]

Matching(s) == {e \in Words : e.word = Lowered(s)}

Meaning(s) ==
    IF Matching(s) # {} THEN (CHOOSE e \in Matching(s) : TRUE).priority ELSE Failure

(* Everything a word begins with *)
Beginnings ==
    UNION {{SubSeq(e.word, 1, n) : n \in 0 .. Len(e.word)} : e \in Words}

-----------------------------------------------------------------------------

(* Only what has begun as a word is continued (the bound). *)
Type(c) ==
    /\ made = <<>>
    /\ Lowered(text) \in Beginnings
    /\ text' = Append(text, c)
    /\ UNCHANGED made

(* An exception is thrown while the exception e, or none, is handled. *)
Throw(std, nested, e) ==
    /\ text = <<>>
    /\ Len(made) < MaxExceptions
    /\ nested \/ e = 0
    /\ made' = Append(made, [std |-> std, nested |-> nested, ptr |-> e])
    /\ UNCHANGED text

Init == text = <<>> /\ made = <<>>

Next ==
    \/ \E c \in Characters : Type(c)
    \/ \E std, nested \in BOOLEAN : \E e \in 0 .. Len(made) : Throw(std, nested, e)

Spec == Init /\ [][Next]_<<text, made>>

-----------------------------------------------------------------------------

(***************************************************************************)
(* parsePriority (PriorityParser.cpp:52) returns the priority of exactly   *)
(* the words and digits of the table and throws for every other text: no   *)
(* word is taken for one it begins with ("full" for "fulldebug", "warn"    *)
(* for "warning") or for one with something after it.                      *)
(***************************************************************************)
KnowsTheWords == parsePriority(text) = Meaning(text)

(***************************************************************************)
(* The pointer the chains of "*++c" move never reads past the NUL that     *)
(* ends the text.                                                          *)
(***************************************************************************)
ReadsInside == Reads(text) \subseteq 1 .. Len(text) + 1

(* e, its cause, the cause of that and so on: what is in every set that    *)
(* has e and with an exception its cause.                                  *)
Causes(e) ==
    {c \in DOMAIN made :
        \A S \in SUBSET DOMAIN made :
           e \in S /\ (\A x \in S : HasCause(made, x) => made[x].ptr \in S) => c \in S}

(***************************************************************************)
(* printException (Logger.h:283) prints an exception and every exception   *)
(* behind it once, the first cause first, numbered down to 1, and each     *)
(* with the number of all of them, though the first line is printed when   *)
(* the recursion is at its deepest; a null pointer, or an exception that   *)
(* was nested in none, ends the chain.                                     *)
(***************************************************************************)
PrintsEveryCause ==
    \A e \in DOMAIN made :
       LET lines == printException(made, e)
           causes == Causes(e)
           Place(c) == Cardinality({d \in causes : d <= c})
       IN  /\ Len(lines) = Cardinality(causes)
           /\ \A c \in causes :
                 lines[Place(c)].what = IF made[c].std THEN c ELSE 0
           /\ \A i \in DOMAIN lines :
                 /\ lines[i].number = Cardinality(causes) + 1 - i
                 /\ lines[i].total = Cardinality(causes)
=============================================================================
