---------------------------- MODULE AdminPolicy -----------------------------
(***************************************************************************)
(* The policy tables and decisions of packages/admin-access: who may ask   *)
(* for what, how fresh the proof of identity must be, which factors a role *)
(* signs in with, and which account states may follow which.  Everything   *)
(* here is a pure function of its arguments.                               *)
(***************************************************************************)
EXTENDS Naturals

Roles == {"OPERATOR", "ADMIN", "TECHNICAL_ADMIN"}
PRIVILEGED_ADMIN_ROLES == {"ADMIN", "TECHNICAL_ADMIN"}
Statuses == {"PROVISIONING", "ACTIVE", "SUSPENDED", "DISABLED"}

-----------------------------------------------------------------------------
(* Capabilities and their risk *)

ReadCapabilities ==
  {"dashboard.read", "kiosk.read", "kiosk.liveness.read", "session.read",
   "session.timeline.read", "document.metadata.read",
   "document.retention.read", "print.read", "print.diagnostics.read",
   "payment.read", "payment.reconcile.read", "payment.mismatch.read",
   "refund.obligation.read", "error.read", "audit.read", "audit.read.self",
   "pricing.read", "change.read", "operator.read", "account.sessions.read",
   "invitation.read"}
RoutineCapabilities ==
  {"kiosk.paper.manage", "document.retention.retry", "incident.acknowledge",
   "account.sessions.revoke"}
SteppedUpCapabilities ==
  {"kiosk.maintenance_mode", "print.recovery.resolve",
   "print.recovery.correct", "refund.authorize", "pricing.publish",
   "operator.manage", "authenticator.manage.self",
   "authenticator.manage.operator", "account.password.change",
   "invitation.manage", "recovery.manage"}
ADMIN_CAPABILITIES ==
  ReadCapabilities \cup RoutineCapabilities \cup SteppedUpCapabilities

\* CAPABILITY_RISK; nothing is classified R3 today.
riskOfCapability(c) ==
  IF c \in ReadCapabilities THEN "R0"
  ELSE IF c \in RoutineCapabilities THEN "R1" ELSE "R2"

requiresStepUp(risk) == risk \in {"R2", "R3"}

OperatorCapabilities ==
  {"dashboard.read", "kiosk.read", "kiosk.liveness.read",
   "kiosk.paper.manage", "session.read", "session.timeline.read",
   "document.metadata.read", "document.retention.read", "print.read",
   "print.recovery.resolve", "payment.read", "error.read",
   "incident.acknowledge", "audit.read.self", "authenticator.manage.self",
   "account.sessions.read", "account.sessions.revoke",
   "account.password.change"}

\* ROLE_CAPABILITIES: each privileged role is written as what it lacks.
capabilitiesForRole(role) ==
  CASE role = "OPERATOR" -> OperatorCapabilities
    [] role = "ADMIN" -> ADMIN_CAPABILITIES \ {"print.diagnostics.read"}
    [] role = "TECHNICAL_ADMIN" ->
         ADMIN_CAPABILITIES
           \ {"refund.authorize", "pricing.publish", "operator.manage"}

-----------------------------------------------------------------------------
(* Factors *)

requiresWebAuthn(role) == role \in PRIVILEGED_ADMIN_ROLES

strongAuthMethodForRole(role) ==
  IF requiresWebAuthn(role) THEN "WEBAUTHN" ELSE "PASSWORD"

minimumAuthenticators(role) == IF role \in PRIVILEGED_ADMIN_ROLES THEN 1 ELSE 0

evaluateActivation(role, status, usable, hasPassword) ==
  /\ status = "PROVISIONING"
  /\ hasPassword
  /\ requiresWebAuthn(role) => usable >= minimumAuthenticators(role)

canRevokeAuthenticator(role, status, usable) ==
  status = "ACTIVE" => usable - 1 >= minimumAuthenticators(role)

-----------------------------------------------------------------------------
(* People *)

mayInviteRole(actor, target) ==
  \/ actor = "TECHNICAL_ADMIN"
  \/ actor = "ADMIN" /\ target = "OPERATOR"

mayResetPassword(actor, target) ==
  \/ actor = "TECHNICAL_ADMIN" /\ target \in {"OPERATOR", "ADMIN"}
  \/ actor = "ADMIN" /\ target = "OPERATOR"

\* NEVER_ACTIVATED cannot be met: SUSPENDED is entered only from ACTIVE.
evaluateStatusTransition(current, requested) ==
  \/ current = "ACTIVE" /\ requested \in {"SUSPENDED", "DISABLED"}
  \/ current = "SUSPENDED" /\ requested \in {"ACTIVE", "DISABLED"}
  \/ current = "PROVISIONING" /\ requested = "DISABLED"

revokesSessions(requested) == requested # "ACTIVE"
=============================================================================
