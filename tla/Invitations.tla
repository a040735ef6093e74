---------------------------- MODULE Invitations ----------------------------
(***************************************************************************)
(* The invitations of a shared space, as values: the class Invitation, the *)
(* guards the aggregate Space puts on its invitation commands, and what a  *)
(* command leaves in the tables.  They are used by SpaceInvitations, where *)
(* a command is a transaction of several statements, and by                *)
(* InvitationCommands, where it is one step.                               *)
(*                                                                         *)
(* Invitations are numbered in the order they are issued.  The link of an  *)
(* invitation, which carries a secret token, is its number.  Times are     *)
(* ticks, and an invitation is valid for Validity ticks (72 hours).        *)
(***************************************************************************)
EXTENDS Naturals, Sequences, FiniteSets

CONSTANTS Persons,   \* the people who may answer an invitation
          Creator,   \* the one who created the space and alone invites
          Keys,      \* idempotency keys
          Validity   \* for how long an invitation can be answered

ASSUME InvitationsAssumption ==
    /\ Creator \in Persons
    /\ Validity \in Nat \ {0}

NoTime       == 0
NoInvitation == 0

Issued(at) == [status |-> "PENDING", issuedAt |-> at, resolvedAt |-> NoTime]

ExpiresAt(invitation) == invitation.issuedAt + Validity

\* Expiry is a matter of the clock: the row keeps saying PENDING.
StatusAt(invitation, at) ==
    IF invitation.status = "PENDING" /\ at >= ExpiresAt(invitation)
    THEN "EXPIRED" ELSE invitation.status

ExpireIfDue(invitation, at) ==
    IF invitation.status = "PENDING" /\ StatusAt(invitation, at) = "EXPIRED"
    THEN [invitation EXCEPT !.status = "EXPIRED",
                            !.resolvedAt = ExpiresAt(invitation)]
    ELSE invitation

\* replaceWith, accept and reject, once the invitation is known to be pending.
Resolved(invitation, status, at) ==
    [invitation EXCEPT !.status = status, !.resolvedAt = at]

CancelForClosure(invitation, at) ==
    LET current == ExpireIfDue(invitation, at)
    IN  IF current.status = "PENDING"
        THEN Resolved(current, "CANCELLED", at)
        ELSE current

-----------------------------------------------------------------------------
(***************************************************************************)
(* Commands.  ACCEPT and REJECT are two decisions of one operation: a key  *)
(* is spent by an actor for an operation.                                  *)
(***************************************************************************)
Operations == {"ISSUE", "REPLACE", "ACCEPT", "REJECT"}
Responses  == {"ACCEPT", "REJECT"}

Operation(command) ==
    IF command.operation \in Responses THEN "RESPOND" ELSE command.operation

SameKey(c1, c2) ==
    /\ c1.actor = c2.actor
    /\ c1.key = c2.key
    /\ Operation(c1) = Operation(c2)

\* The receipts that a command would find, its own or those its key was spent on.
Found(receipts, command) == {r \in receipts : SameKey(r.command, command)}

-----------------------------------------------------------------------------
(***************************************************************************)
(* A loaded space: its row, its members and one invitation.  findById      *)
(* loads the pending invitation, else the latest; the response handler     *)
(* loads the one of its link.                                              *)
(***************************************************************************)
Loaded(status, version, members, invitations, id) ==
    [status |-> status, version |-> version, members |-> members,
     id |-> id, invitation |-> invitations[id]]

LatestInvitation(invitations) ==
    IF \E i \in DOMAIN invitations : invitations[i].status = "PENDING"
    THEN CHOOSE i \in DOMAIN invitations : invitations[i].status = "PENDING"
    ELSE Len(invitations)

\* requireIssuer, in the service and again in the aggregate.
IsIssuer(members, actor) == actor \in members /\ actor = Creator

\* issueInvitation and replaceInvitation.
CanInvite(space, command, at) ==
    /\ IsIssuer(space.members, command.actor)
    /\ space.status = "ACTIVE"
    /\ Cardinality(space.members) < 2
    /\ IF command.operation = "ISSUE"
       THEN StatusAt(space.invitation, at) # "PENDING"
       ELSE /\ space.id = command.invitation
            /\ StatusAt(space.invitation, at) = "PENDING"

\* acceptInvitation and rejectInvitation.
CanRespond(space, command, at) ==
    /\ StatusAt(space.invitation, at) = "PENDING"
    /\ space.status = "ACTIVE"
    /\ command.actor # Creator
    /\ command.actor \notin space.members
    /\ Cardinality(space.members) < 2

Allowed(space, command, at) ==
    IF command.operation \in Responses
    THEN CanRespond(space, command, at)
    ELSE CanInvite(space, command, at)

\* The invitation a command is about, as the command leaves it.
Settled(space, command, at) ==
    CASE command.operation = "ISSUE"   -> ExpireIfDue(space.invitation, at)
      [] command.operation = "REPLACE" ->
             Resolved(space.invitation, "CANCELLED", at)
      [] command.operation = "ACCEPT"  ->
             Resolved(space.invitation, "ACCEPTED", at)
      [] command.operation = "REJECT"  ->
             Resolved(space.invitation, "REJECTED", at)

\* The table of invitations after the command: saveInvitationChange adds one.
Written(invitations, space, command, at) ==
    LET settled == [invitations EXCEPT ![space.id] =
                                           Settled(space, command, at)]
    IN  IF command.operation \in Responses
        THEN settled
        ELSE Append(settled, Issued(at))

\* The invitation its receipt names: the one answered, or the one issued.
Result(invitations, command) ==
    IF command.operation \in Responses THEN command.invitation
                                       ELSE Len(invitations) + 1

Joined(members, command) ==
    IF command.operation = "ACCEPT" THEN members \cup {command.actor}
                                    ELSE members
=============================================================================
