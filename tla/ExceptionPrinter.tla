-------------------------- MODULE ExceptionPrinter --------------------------
(***************************************************************************)
(* Logger::printException: one message for each exception of a chain of    *)
(* nested ones, numbered from the outermost, that of the cause first.      *)
(*                                                                         *)
(* An exception is known by its number in the sequence of the exceptions   *)
(* that have been made: whether it is a std::exception, whether it is a    *)
(* std::nested_exception, and what its nested_ptr() is, the exception that *)
(* was being handled when it was made.  0 is the null exception_ptr.       *)
(***************************************************************************)
EXTENDS Naturals, Sequences

Exceptions == [std : BOOLEAN, nested : BOOLEAN, ptr : Nat]

(* StandardExceptionFormatter: the message says which of how many this is, *)
(* and what() where it can (0: "is not an std::exception!").               *)
Formatted(made, e, number, total) ==
    [number |-> number, total |-> total, what |-> IF made[e].std THEN e ELSE 0]

HasCause(made, e) == made[e].nested /\ made[e].ptr # 0

(* The calls of printException_: the exception, levelNow and totalLevels *)
Calls(made) == (DOMAIN made) \X Nat \X Nat

(* Mutant: totalLevels is a parameter by value *)
ReturnsByValue(printException_, made, e, levelNow, totalLevels) ==
    LET inner == IF HasCause(made, e)
                 THEN printException_[<<made[e].ptr, levelNow + 1, totalLevels + 1>>]
                 ELSE [lines |-> <<>>, total |-> totalLevels]
    IN  [lines |-> Append(inner.lines, Formatted(made, e, levelNow, totalLevels)),
         total |-> inner.total]

(* What a call of printException_ has printed when it returns, and         *)
(* totalLevels as it is then: the calls of one printException share it by  *)
(* reference.                                                              *)
Returns(printException_, made, e, levelNow, totalLevels) ==
    LET inner == IF HasCause(made, e)
                 THEN printException_[<<made[e].ptr, levelNow + 1, totalLevels + 1>>]
                 ELSE [lines |-> <<>>, total |-> totalLevels]
    IN  [lines |-> Append(inner.lines, Formatted(made, e, levelNow, inner.total)),
         total |-> inner.total]

Printing(made) ==
    LET printException_[call \in Calls(made)] ==
          Returns(printException_, made, call[1], call[2], call[3])
    IN  printException_

(* The messages of printException(e) *)
printException(made, e) == IF e # 0 THEN Printing(made)[<<e, 1, 1>>].lines ELSE <<>>
=============================================================================
