----------------------------- MODULE BackOffice -----------------------------
(***************************************************************************)
(* The control plane's parts for one run: the accounts (AdminIdentity) the *)
(* three desks (AdminDesk) and the reads (AdminReads).  They write         *)
(* disjoint rows, so a behaviour works at one part only and the run        *)
(* explores them side by side.                                             *)
(***************************************************************************)
EXTENDS AdminIdentity, AdminDesk, AdminReads

VARIABLE part

backOfficeVars == <<identityVars, deskVars, readVars, part>>

ReadParts == {"lists", "panel", "overview"}

\* An operator signs in with a password alone: where the newcomer is one, no key is
\* left to enrol.
BackOfficeInit ==
  /\ part \in {"identity", "tariff", "recovery", "paper"} \cup ReadParts
  /\ IdentityInit /\ DeskInit /\ ReadsInit
  /\ part # "identity" => role[Newcomer] = "OPERATOR"
  /\ role[Newcomer] = "OPERATOR" <=> spent = Keys
  /\ part # "lists" => PanelInit

BackOfficeNext ==
  /\ UNCHANGED part
  /\ \/ part = "identity" /\ IdentityNext /\ UNCHANGED <<deskVars, readVars>>
     \/ part = "tariff" /\ TariffNext /\ UNCHANGED <<identityVars, readVars>>
     \/ part = "recovery" /\ RecoveryNext /\ UNCHANGED <<identityVars, readVars>>
     \/ part = "paper" /\ PaperNext /\ UNCHANGED <<identityVars, readVars>>
     \/ part = "lists" /\ ListsNext /\ UNCHANGED <<identityVars, deskVars>>
     \/ part = "panel" /\ PanelNext /\ UNCHANGED <<identityVars, deskVars>>
     \/ part = "overview" /\ OverviewNext /\ UNCHANGED <<identityVars, deskVars>>

BackOfficeSpec == BackOfficeInit /\ [][BackOfficeNext]_backOfficeVars

\* The founder is privileged; the newcomer may hold any role.
BackOfficeAppointments ==
  {<<"ADMIN", "OPERATOR">>, <<"ADMIN", "TECHNICAL_ADMIN">>}

\* A refill that fits an untracked tray once, and a correction.
BackOfficePaper == {<<"REFILL", 2>>, <<"CORRECTION", 1>>}

\* Callers east, at and west of the server's clock.
BackOfficeOffsets == {-1, 0, 1}

BackOfficeSymmetry == Permutations(Sessions) \cup Permutations(Clerks \ Operators)
=============================================================================
