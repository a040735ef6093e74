-------------------------- MODULE SpaceInvitations -------------------------
(***************************************************************************)
(* The invitation commands of a shared space as they are executed: each    *)
(* request is a transaction of several statements under READ COMMITTED.    *)
(* It reads the space without locking it, decides on what it has read, and *)
(* writes with UPDATE ... WHERE version = expected, which takes the lock   *)
(* of the row until the commit.  A request that loses the race looks for   *)
(* its own receipt in a second transaction, as its twin may have won.      *)
(*                                                                         *)
(* A client may send a request again, with the same key, whether or not    *)
(* the first one is still running: its answer was lost, or it timed out.   *)
(* The commands of a closure lock the row first and are one step here; of  *)
(* those only the ones that touch invitations are modelled.                *)
(***************************************************************************)
EXTENDS Invitations

CONSTANTS Requests,    \* the requests that can run at the same time
          MaxVersion,  \* bound on the version of the space
          MaxTime      \* bound on the clock

ASSUME RequestBoundsAssumption ==
    /\ MaxVersion \in Nat
    /\ MaxTime \in Nat \ {0}

VARIABLES
    status,       \* spaces.status
    version,      \* spaces.version
    members,      \* space_members
    invitations,  \* space_invitations, in the order of issue
    receipts,     \* space_command_receipts
    clock,        \* the time of the server
    requests      \* the state of each request

tables == <<status, version, members, invitations, receipts>>
vars   == <<tables, clock, requests>>

\* What a request holds: the command, whether the very command had been carried
\* out before it was sent, and what the transaction has read or answered so far.
NoKey == "none"

Running(q) == requests[q].at \notin {"idle", "answered", "refused"}

NoSpace   == Loaded("ACTIVE", 0, {}, <<Issued(NoTime)>>, 1)
NoCommand == [actor |-> Creator, key |-> NoKey, operation |-> "ISSUE",
              invitation |-> NoInvitation, version |-> 0]

Idle == [at |-> "idle", command |-> NoCommand, repeated |-> FALSE,
         space |-> NoSpace, time |-> NoTime, invitation |-> NoInvitation]

\* The first invitation, sent with a key of its own, came with the space.
Init ==
    /\ status = "ACTIVE"
    /\ version = 1
    /\ members = {Creator}
    /\ invitations = <<Issued(1)>>
    /\ receipts = {}
    /\ clock = 1
    /\ requests = [q \in Requests |-> Idle]

-----------------------------------------------------------------------------
\* What a client sends: a command for the version of the space it has just seen
\* (it may be out of date by the time it arrives), or the same command again.
NewCommands ==
    [actor : {Creator}, key : Keys, operation : {"ISSUE"},
     invitation : {NoInvitation}, version : {version}]
        \cup
    [actor : {Creator}, key : Keys, operation : {"REPLACE"},
     invitation : DOMAIN invitations, version : {version}]
        \cup
    [actor : Persons, key : Keys, operation : Responses,
     invitation : DOMAIN invitations, version : {version}]

SentCommands ==
    {r.command : r \in receipts}
        \cup {requests[q].command : q \in {q \in Requests : Running(q)}}

Goes(q, record) == requests' = [requests EXCEPT ![q] = record]
GoesOn(q, at)   == Goes(q, [requests[q] EXCEPT !.at = at])

\* A request that is over keeps no more than what the client is told.
Refuse(q) == Goes(q, [Idle EXCEPT !.at = "refused",
                                  !.repeated = requests[q].repeated])

Answer(q, id) == Goes(q, [Idle EXCEPT !.at = "answered", !.invitation = id])

Conflict(q) == Goes(q, [requests[q] EXCEPT !.at = "conflict", !.space = NoSpace,
                                           !.time = NoTime])

Send(q) ==
    /\ ~ Running(q)
    /\ \E command \in NewCommands \cup SentCommands :
           Goes(q, [Idle EXCEPT
                       !.at       = "sent",
                       !.command  = command,
                       !.repeated = \E r \in receipts : r.command = command])
    /\ UNCHANGED <<tables, clock>>

\* Mistake: what was asked for under the key is not compared.
ReplayByKey(q) ==
    \E r \in Found(receipts, requests[q].command) : Answer(q, r.invitation)

\* Mistake: an answer is told again to members only.
ReplayToMembers(q) ==
    LET command == requests[q].command
    IN  \E r \in Found(receipts, command) :
            IF r.command = command /\ command.actor \in members
            THEN Answer(q, r.invitation)
            ELSE Refuse(q)

\* The receipt of the key tells the answer, unless the key was spent on another
\* command.  A response is told again only if the tables still bear it out.
Replay(q) ==
    LET command == requests[q].command
    IN  \E r \in Found(receipts, command) :
            IF /\ r.command = command
               /\ command.operation = "ACCEPT" =>
                      /\ invitations[r.invitation].status = "ACCEPTED"
                      /\ command.actor \in members
               /\ command.operation = "REJECT" =>
                      invitations[r.invitation].status = "REJECTED"
            THEN Answer(q, r.invitation)
            ELSE Refuse(q)

-----------------------------------------------------------------------------
(***************************************************************************)
(* SpaceInvitationCommandService.perform: the space is read, the receipt   *)
(* is looked for, and only then the version is compared and time is read.  *)
(***************************************************************************)
LoadSpace(q) ==
    LET command == requests[q].command
    IN  /\ requests[q].at = "sent"
        /\ command.operation \notin Responses
        /\ IF IsIssuer(members, command.actor)
           THEN Goes(q, [requests[q] EXCEPT
                           !.at    = "loaded",
                           !.space = Loaded(status, version, members,
                                            invitations,
                                            LatestInvitation(invitations))])
           ELSE Refuse(q)
        /\ UNCHANGED <<tables, clock>>

FindIssuerReceipt(q) ==
    LET command == requests[q].command
    IN  /\ requests[q].at = "loaded"
        /\ IF Found(receipts, command) # {}
           THEN Replay(q)
           ELSE IF requests[q].space.version # command.version
           THEN Conflict(q)
           ELSE Goes(q, [requests[q] EXCEPT !.at = "timed", !.time = clock])
        /\ UNCHANGED <<tables, clock>>

\* assertCanWrite reads the row again; the aggregate decides on the loaded one.
AssertCanWrite(q) ==
    /\ requests[q].at = "timed"
    /\ IF /\ status = "ACTIVE"
          /\ CanInvite(requests[q].space, requests[q].command, requests[q].time)
       THEN GoesOn(q, "decided")
       ELSE Refuse(q)
    /\ UNCHANGED <<tables, clock>>

(***************************************************************************)
(* RespondToSharedSpaceInvitationHandler.perform: the receipt is looked    *)
(* for first, then the space and the invitation of the link are read.      *)
(***************************************************************************)
FindResponseReceipt(q) ==
    LET command == requests[q].command
    IN  /\ requests[q].at = "sent"
        /\ command.operation \in Responses
        /\ IF Found(receipts, command) # {}
           THEN Replay(q)
           ELSE GoesOn(q, "unreceipted")
        /\ UNCHANGED <<tables, clock>>

LoadByLink(q) ==
    LET command == requests[q].command
        space   == Loaded(status, version, members, invitations,
                          command.invitation)
    IN  /\ requests[q].at = "unreceipted"
        /\ IF \/ StatusAt(space.invitation, clock) # "PENDING"
              \/ space.version # command.version
           THEN Conflict(q)
           ELSE IF CanRespond(space, command, clock)
           THEN Goes(q, [requests[q] EXCEPT !.at = "decided", !.space = space,
                                            !.time = clock])
           ELSE Refuse(q)
        /\ UNCHANGED <<tables, clock>>

(***************************************************************************)
(* The write of either, to the commit: the conditional update of the root, *)
(* the rows of the invitations and of the member, and the receipt.         *)
(***************************************************************************)
\* Mistake: the update does not ask for the version the client expects.
WritableIfOpen(command, space, time) ==
    command.operation \in Responses =>
        /\ status = "ACTIVE"
        /\ StatusAt(invitations[space.id], time) = "PENDING"

\* saveInvitationChange asks for the version alone, saveInvitationResponse also
\* for an active space and a pending, unexpired invitation.
Writable(command, space, time) ==
    /\ version = command.version
    /\ command.operation \in Responses =>
           /\ status = "ACTIVE"
           /\ StatusAt(invitations[space.id], time) = "PENDING"
    /\ command.operation = "ACCEPT" => Cardinality(members) = 1

Commit(q) ==
    LET command == requests[q].command
        space   == requests[q].space
        time    == requests[q].time
        result  == Result(invitations, command)
    IN  /\ requests[q].at = "decided"
        /\ version < MaxVersion
        /\ Writable(command, space, time)
        /\ Found(receipts, command) = {}
        /\ version' = version + 1
        /\ invitations' = Written(invitations, space, command, time)
        /\ members' = Joined(members, command)
        /\ receipts' = receipts \cup {[command |-> command,
                                       invitation |-> result,
                                       createdAt |-> time]}
        /\ Answer(q, result)
        /\ UNCHANGED <<status, clock>>

\* The update matched no row, or the key of the receipt exists: rolled back.
Rollback(q) ==
    LET command == requests[q].command
    IN  /\ requests[q].at = "decided"
        /\ \/ ~ Writable(command, requests[q].space, requests[q].time)
           \/ Found(receipts, command) # {}
        /\ Conflict(q)
        /\ UNCHANGED <<tables, clock>>

\* The second transaction: the conflict is an answer if a twin has succeeded.
Recover(q) ==
    LET command == requests[q].command
    IN  /\ requests[q].at = "conflict"
        /\ IF /\ Found(receipts, command) # {}
              /\ command.operation \notin Responses =>
                     IsIssuer(members, command.actor)
           THEN Replay(q)
           ELSE Refuse(q)
        /\ UNCHANGED <<tables, clock>>

-----------------------------------------------------------------------------
(***************************************************************************)
(* A closure starts, cancelling what is pending, or is called off.         *)
(***************************************************************************)
StartClosure ==
    /\ status = "ACTIVE"
    /\ version < MaxVersion
    /\ status' = "CLOSING"
    /\ version' = version + 1
    /\ LET latest == LatestInvitation(invitations)
       IN  invitations' =
               [invitations EXCEPT ![latest] = CancelForClosure(@, clock)]
    /\ UNCHANGED <<members, receipts, clock, requests>>

CancelClosure ==
    /\ status = "CLOSING"
    /\ version < MaxVersion
    /\ status' = "ACTIVE"
    /\ version' = version + 1
    /\ UNCHANGED <<members, invitations, receipts, clock, requests>>

Tick ==
    /\ clock < MaxTime
    /\ clock' = clock + 1
    /\ UNCHANGED <<tables, requests>>

Step(q) ==
    \/ Send(q)
    \/ LoadSpace(q) \/ FindIssuerReceipt(q) \/ AssertCanWrite(q)
    \/ FindResponseReceipt(q) \/ LoadByLink(q)
    \/ Commit(q) \/ Rollback(q) \/ Recover(q)

Next ==
    \/ \E q \in Requests : Step(q)
    \/ StartClosure
    \/ CancelClosure
    \/ Tick

Spec == Init /\ [][Next]_vars
-----------------------------------------------------------------------------
(***************************************************************************)
(* Types.                                                                  *)
(***************************************************************************)
InvitationStates == {"PENDING", "ACCEPTED", "REJECTED", "CANCELLED", "EXPIRED"}
InvitationRows   == [status : InvitationStates, issuedAt : Nat, resolvedAt : Nat]
SpaceStates      == {"ACTIVE", "CLOSING"}
CommandTypes     == [actor : Persons, key : Keys \cup {NoKey},
                     operation : Operations, invitation : Nat, version : Nat]
LoadedTypes      == [status : SpaceStates, version : Nat,
                     members : SUBSET Persons, id : Nat,
                     invitation : InvitationRows]
Places == {"idle", "sent", "loaded", "timed", "unreceipted", "decided",
           "conflict", "answered", "refused"}

\* The types of the columns and of what a request holds.
TypeOK ==
    /\ status \in SpaceStates
    /\ version \in Nat
    /\ members \in SUBSET Persons
    /\ invitations \in Seq(InvitationRows)
    /\ receipts \subseteq [command : CommandTypes, invitation : Nat,
                           createdAt : Nat]
    /\ clock \in Nat
    /\ requests \in [Requests -> [at : Places, command : CommandTypes,
                                 repeated : BOOLEAN, space : LoadedTypes,
                                 time : Nat, invitation : Nat]]

(***************************************************************************)
(* Safety.                                                                 *)
(***************************************************************************)
\* Of all invitations only the latest can still be open, and none is while the
\* space is closing: a link that was replaced, or that a closure has cancelled,
\* leads nowhere.
OneOpenInvitation ==
    \A i \in DOMAIN invitations :
        invitations[i].status = "PENDING" =>
            i = Len(invitations) /\ status = "ACTIVE"

\* A client that sends again what has been carried out is told so, never that
\* its command was refused.
RetryIsAnswered ==
    \A q \in Requests : requests[q].at = "refused" => ~ requests[q].repeated

\* A request is answered with the invitation its own command dealt with: not
\* with that of another command under the same key, nor before the commit.
AnswersAreTrue ==
    [][\A q \in Requests :
           (requests'[q].at = "answered" /\ Running(q)) =>
               \E r \in receipts' :
                   /\ r.command = requests[q].command
                   /\ r.invitation = requests'[q].invitation]_vars

\* Transactions that interleave have the effect of commands carried out one by
\* one, each on the tables as they are at that moment.
OneByOne == INSTANCE InvitationCommands

CommandsAreAtomic == OneByOne!CommandsSpec
=============================================================================
