--------------------------------- MODULE Sums --------------------------------
(***************************************************************************)
(* Adding up what a function gives: sheets of jobs, sides of documents,    *)
(* parts of a price.                                                       *)
(***************************************************************************)
EXTENDS Integers, Functions

SumOver(f, S) == SumFunctionOnSet(f, S)
Sum(f) == SumOver(f, DOMAIN f)
=============================================================================
