---------------------------- MODULE PaperXorMoney ----------------------------
(***************************************************************************)
(* What one paid print promises the customer and the operator, with no     *)
(* leases, agents, queues or clocks: the printer is given the work at most *)
(* once; a print called delivered was given to the printer; money goes     *)
(* back only for a job from which no paper came and none will come; and    *)
(* whatever nobody can prove is left to a person.                          *)
(***************************************************************************)
EXTENDS Naturals

VARIABLES
  outcome, \* what the customer has been told
  taken,   \* how often the printer has been given the work
  paper    \* whether a sheet has come out

abstractVars == <<outcome, taken, paper>>

PromiseInit ==
  /\ outcome = "none"
  /\ taken = 0
  /\ paper = FALSE

\* The customer starts the print.
Order ==
  /\ outcome = "none"
  /\ outcome' = "open"
  /\ UNCHANGED <<taken, paper>>

\* The printer is given the work: once, and never after a refund.
Take ==
  /\ outcome \in {"open", "recovery"}
  /\ taken = 0
  /\ taken' = 1
  /\ UNCHANGED <<outcome, paper>>

\* A sheet comes out; the customer may already have been told of success or
\* referred to a person, but not been given the money back.
Emit ==
  /\ outcome \in {"open", "delivered", "recovery"}
  /\ taken = 1
  /\ paper' = TRUE
  /\ UNCHANGED <<outcome, taken>>

Deliver ==
  /\ outcome = "open"
  /\ taken = 1
  /\ outcome' = "delivered"
  /\ UNCHANGED <<taken, paper>>

Refund ==
  /\ outcome = "open"
  /\ ~paper
  /\ outcome' = "refunded"
  /\ UNCHANGED <<taken, paper>>

Recover ==
  /\ outcome = "open"
  /\ outcome' = "recovery"
  /\ UNCHANGED <<taken, paper>>

PromiseNext == Order \/ Take \/ Emit \/ Deliver \/ Refund \/ Recover

Promise == PromiseInit /\ [][PromiseNext]_abstractVars
=============================================================================
