------------------------- MODULE InvitationCommands ------------------------
(***************************************************************************)
(* What the invitation commands of a shared space promise, as if each was  *)
(* carried out in one step: it is carried out at most once, on the version *)
(* of the space its client had seen, at the time its receipt bears.        *)
(***************************************************************************)
EXTENDS Invitations

VARIABLES status, version, members, invitations, receipts

commandVars == <<status, version, members, invitations, receipts>>

CommandsInit ==
    /\ status = "ACTIVE"
    /\ version = 1
    /\ members = {Creator}
    /\ invitations = <<Issued(invitations[1].issuedAt)>>
    /\ receipts = {}

\* The target of a command: its link, or whatever invitation is the latest.
Target(command) ==
    IF command.operation \in Responses THEN command.invitation
                                       ELSE LatestInvitation(invitations)

Perform(receipt) ==
    LET command == receipt.command
        at      == receipt.createdAt
        space   == Loaded(status, version, members, invitations,
                          Target(command))
    IN  /\ Found(receipts, command) = {}
        /\ command.version = version
        /\ Allowed(space, command, at)
        /\ receipt.invitation = Result(invitations, command)
        /\ version' = version + 1
        /\ members' = Joined(members, command)
        /\ invitations' = Written(invitations, space, command, at)
        /\ receipts' = receipts \cup {receipt}
        /\ UNCHANGED status

\* A closure starts, and no invitation survives it, or it is called off.
Suspend ==
    /\ status = "ACTIVE"
    /\ status' = "CLOSING"
    /\ version' = version + 1
    /\ DOMAIN invitations' = DOMAIN invitations
    /\ \A i \in DOMAIN invitations :
           IF invitations[i].status = "PENDING"
           THEN invitations'[i].status \in {"CANCELLED", "EXPIRED"}
           ELSE invitations'[i] = invitations[i]
    /\ UNCHANGED <<members, receipts>>

Resume ==
    /\ status = "CLOSING"
    /\ status' = "ACTIVE"
    /\ version' = version + 1
    /\ UNCHANGED <<members, invitations, receipts>>

CommandsNext ==
    \/ \E receipt \in receipts' \ receipts : Perform(receipt)
    \/ Suspend
    \/ Resume

CommandsSpec == CommandsInit /\ [][CommandsNext]_commandVars
=============================================================================
