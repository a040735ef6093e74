---------------------- MODULE SpaceInvitationsProofs -----------------------
(***************************************************************************)
(* Proofs about SpaceInvitations, for any persons, keys, validity and      *)
(* bounds, and any number of requests that run at the same time.           *)
(***************************************************************************)
EXTENDS SpaceInvitations, SequenceTheorems, TLAPS

-----------------------------------------------------------------------------
(***************************************************************************)
(* The invariant.                                                          *)
(***************************************************************************)
\* A command answers an invitation there is, or is the creator's.
CommandOK(command) ==
    IF command.operation \in Responses
    THEN command.invitation \in DOMAIN invitations
    ELSE command.actor = Creator

\* The tables bear out the answer of a receipt.
BorneOut(receipt) ==
    /\ receipt.command.operation = "ACCEPT" =>
           /\ invitations[receipt.invitation].status = "ACCEPTED"
           /\ receipt.command.actor \in members
    /\ receipt.command.operation = "REJECT" =>
           invitations[receipt.invitation].status = "REJECTED"

ReceiptOK(receipt) ==
    /\ CommandOK(receipt.command)
    /\ receipt.invitation \in DOMAIN invitations
    /\ BorneOut(receipt)

OneReceipt ==
    \A r1, r2 \in receipts : SameKey(r1.command, r2.command) => r1 = r2

\* The invitation a command is about.
LinkOf(command) ==
    IF command.operation \in Responses THEN command.invitation
                                       ELSE LatestInvitation(invitations)

\* What a request has loaded is what the tables hold, unless the version moved.
SeenAs(command, space) ==
    /\ space.version <= version
    /\ space.version = version =>
           space = Loaded(status, version, members, invitations,
                          LinkOf(command))

RequestOK(request) ==
    /\ request.at \notin {"idle", "answered", "refused"} =>
           CommandOK(request.command)
    /\ request.repeated =>
           /\ request.at \in {"sent", "loaded"}
           /\ \E r \in receipts : r.command = request.command
    /\ request.at \in {"loaded", "timed"} =>
           request.command.operation \notin Responses
    /\ request.at = "unreceipted" => request.command.operation \in Responses
    /\ request.at \in {"loaded", "timed", "decided"} =>
           SeenAs(request.command, request.space)
    /\ request.at \in {"timed", "decided"} =>
           request.space.version = request.command.version
    /\ request.at = "decided" =>
           Allowed(request.space, request.command, request.time)

Inv ==
    /\ TypeOK
    /\ Creator \in members
    /\ invitations # <<>>
    /\ OneOpenInvitation
    /\ \A r \in receipts : ReceiptOK(r)
    /\ OneReceipt
    /\ \A q \in Requests : RequestOK(requests[q])

-----------------------------------------------------------------------------
(***************************************************************************)
(* Types of the values.                                                    *)
(***************************************************************************)
Rows == [at : Places, command : CommandTypes, repeated : BOOLEAN,
         space : LoadedTypes, time : Nat, invitation : Nat]

\* Nothing is held by a request that was never sent.
LEMMA IdleType ==
    /\ Idle \in Rows
    /\ Idle.command = NoCommand /\ Idle.space = NoSpace
    /\ Idle.repeated = FALSE
    /\ NoCommand \in CommandTypes
    /\ NoSpace \in LoadedTypes
<1>1. NoCommand \in CommandTypes
  BY InvitationsAssumption
  DEF NoCommand, CommandTypes, Operations, NoInvitation
<1>2. NoSpace \in LoadedTypes
  BY DEF NoSpace, Loaded, LoadedTypes, SpaceStates, Issued, NoTime,
         InvitationRows, InvitationStates
<1> QED
  BY <1>1, <1>2 DEF Idle, Rows, Places, NoTime, NoInvitation

\* An invitation stays one, whatever is done to it.
LEMMA InvitationTypes ==
    ASSUME NEW i \in InvitationRows, NEW at \in Nat
    PROVE  /\ Issued(at) \in InvitationRows
           /\ ExpireIfDue(i, at) \in InvitationRows
           /\ CancelForClosure(i, at) \in InvitationRows
           /\ \A s \in InvitationStates : Resolved(i, s, at) \in InvitationRows
<1>1. Issued(at) \in InvitationRows
  BY DEF Issued, NoTime, InvitationRows, InvitationStates
<1>2. ExpiresAt(i) \in Nat
  BY InvitationsAssumption DEF ExpiresAt, InvitationRows
<1>3. ExpireIfDue(i, at) \in InvitationRows
  BY <1>2 DEF ExpireIfDue, InvitationRows, InvitationStates
<1>4. ASSUME NEW j \in InvitationRows, NEW s \in InvitationStates
      PROVE  Resolved(j, s, at) \in InvitationRows
  BY DEF Resolved, InvitationRows
<1>5. CancelForClosure(i, at) \in InvitationRows
  BY <1>3, <1>4 DEF CancelForClosure, InvitationStates
<1> QED
  BY <1>1, <1>3, <1>4, <1>5

\* The table of invitations is a function on the numbers up to its length.
LEMMA Table ==
    ASSUME TypeOK, invitations # <<>>
    PROVE  /\ Len(invitations) \in Nat \ {0}
           /\ DOMAIN invitations = 1 .. Len(invitations)
           /\ \A i \in DOMAIN invitations : invitations[i] \in InvitationRows
<1>1. invitations \in Seq(InvitationRows)
  BY DEF TypeOK
<1>2. /\ Len(invitations) \in Nat
      /\ DOMAIN invitations = 1 .. Len(invitations)
  BY <1>1, LenProperties
<1>3. Len(invitations) \in Nat \ {0}
  BY <1>1, EmptySeq
<1>4. \A i \in 1 .. Len(invitations) : invitations[i] \in InvitationRows
  BY <1>1, ElementOfSeq
<1> QED
  BY <1>2, <1>3, <1>4

\* The latest invitation is the pending one, if there is any.
LEMMA Latest ==
    ASSUME TypeOK, invitations # <<>>, OneOpenInvitation
    PROVE  LET latest == LatestInvitation(invitations)
           IN  /\ latest \in DOMAIN invitations
               /\ \A i \in DOMAIN invitations :
                      invitations[i].status = "PENDING" => i = latest
               /\ invitations[latest].status = "PENDING" => status = "ACTIVE"
<1>1. Len(invitations) \in DOMAIN invitations
  BY Table
<1>2. CASE \E i \in DOMAIN invitations : invitations[i].status = "PENDING"
  <2>1. PICK i \in DOMAIN invitations : invitations[i].status = "PENDING"
    BY <1>2
  <2>2. /\ LatestInvitation(invitations) \in DOMAIN invitations
        /\ invitations[LatestInvitation(invitations)].status = "PENDING"
    BY <1>2 DEF LatestInvitation
  <2> QED
    BY <2>2 DEF OneOpenInvitation
<1>3. CASE ~ \E i \in DOMAIN invitations : invitations[i].status = "PENDING"
  BY <1>1, <1>3 DEF LatestInvitation
<1> QED
  BY <1>2, <1>3

\* A space is loaded with an invitation there is.
LEMMA LoadedType ==
    ASSUME TypeOK, invitations # <<>>, NEW i \in DOMAIN invitations
    PROVE  Loaded(status, version, members, invitations, i) \in LoadedTypes
<1>1. i \in Nat /\ invitations[i] \in InvitationRows
  BY Table
<1> QED
  BY <1>1 DEF Loaded, LoadedTypes, TypeOK

-----------------------------------------------------------------------------
(***************************************************************************)
(* A step of a request that writes no table: it goes on, with what it now  *)
(* holds, to a place where it may be.                                      *)
(***************************************************************************)
Moves(q) == \E row \in Rows : Goes(q, row) /\ RequestOK(row)

\* What a request holds.
LEMMA Held ==
    ASSUME Inv, NEW q \in Requests
    PROVE  /\ requests[q] \in Rows
           /\ RequestOK(requests[q])
           /\ requests[q].command \in CommandTypes
           /\ requests[q].repeated \in BOOLEAN
BY DEF Inv, TypeOK, Rows

\* A request is refused whose command had not been carried out before.
LEMMA RefuseMoves ==
    ASSUME Inv, NEW q \in Requests, ~ requests[q].repeated, Refuse(q)
    PROVE  Moves(q)
<1> DEFINE row == [Idle EXCEPT !.at = "refused",
                               !.repeated = requests[q].repeated]
<1>1. row \in Rows /\ row.at = "refused" /\ row.repeated = requests[q].repeated
  BY Held, IdleType DEF Rows, Places
<1>2. Goes(q, row)
  BY DEF Refuse
<1> HIDE DEF row
<1>3. RequestOK(row)
  BY <1>1 DEF RequestOK
<1> QED
  BY <1>1, <1>2, <1>3 DEF Moves

\* An answer is told.
LEMMA AnswerMoves ==
    ASSUME Inv, NEW q \in Requests, NEW id \in Nat, Answer(q, id)
    PROVE  Moves(q)
<1> DEFINE row == [Idle EXCEPT !.at = "answered", !.invitation = id]
<1>1. row \in Rows /\ row.at = "answered" /\ row.repeated = FALSE
  BY IdleType DEF Rows, Places
<1>2. Goes(q, row)
  BY DEF Answer
<1> HIDE DEF row
<1>3. RequestOK(row)
  BY <1>1 DEF RequestOK
<1> QED
  BY <1>1, <1>2, <1>3 DEF Moves

\* A request that has lost the race keeps its command.
LEMMA ConflictMoves ==
    ASSUME Inv, NEW q \in Requests, Running(q), ~ requests[q].repeated,
           Conflict(q)
    PROVE  Moves(q)
<1> DEFINE row == [requests[q] EXCEPT !.at = "conflict", !.space = NoSpace,
                                      !.time = NoTime]
<1>1. /\ row \in Rows /\ row.at = "conflict"
      /\ row.repeated = requests[q].repeated
      /\ row.command = requests[q].command
  BY Held, IdleType DEF Rows, Places, NoTime
<1>2. Goes(q, row)
  BY DEF Conflict
<1> HIDE DEF row
<1>3. RequestOK(row)
  BY <1>1, Held DEF RequestOK, Running
<1> QED
  BY <1>1, <1>2, <1>3 DEF Moves

\* A command that had been carried out is told its answer, as its receipt is the
\* only one of its key and the tables still bear it out.
LEMMA ReplayMoves ==
    ASSUME Inv, NEW q \in Requests, Replay(q)
    PROVE  Moves(q)
<1> DEFINE command == requests[q].command
           Told(r) == /\ r.command = command
                      /\ command.operation = "ACCEPT" =>
                             /\ invitations[r.invitation].status = "ACCEPTED"
                             /\ command.actor \in members
                      /\ command.operation = "REJECT" =>
                             invitations[r.invitation].status = "REJECTED"
<1>1. PICK r \in Found(receipts, command) :
               IF Told(r) THEN Answer(q, r.invitation) ELSE Refuse(q)
  BY DEF Replay
<1>2. r \in receipts /\ SameKey(r.command, command)
  BY DEF Found
<1>3. r.invitation \in Nat /\ ReceiptOK(r)
  BY <1>2 DEF Inv, TypeOK
<1>4. ASSUME requests[q].repeated
      PROVE  Told(r)
  <2>1. PICK s \in receipts : s.command = command
    BY <1>4, Held DEF RequestOK
  <2>2. s = r
    BY <1>2, <2>1 DEF Inv, OneReceipt, SameKey
  <2> QED
    BY <1>3, <2>1, <2>2 DEF ReceiptOK, BorneOut
<1> HIDE DEF Told
<1> QED
  BY <1>1, <1>3, <1>4, AnswerMoves, RefuseMoves

\* A command that had been carried out finds its receipt.
LEMMA FoundAgain ==
    ASSUME Inv, NEW q \in Requests, requests[q].repeated
    PROVE  /\ requests[q].at \in {"sent", "loaded"}
           /\ Found(receipts, requests[q].command) # {}
<1>1. PICK r \in receipts : r.command = requests[q].command
  BY Held DEF RequestOK
<1>2. r \in Found(receipts, requests[q].command)
  BY <1>1 DEF Found, SameKey
<1> QED
  BY <1>2, Held DEF RequestOK

\* The commands a client sends are commands.
LEMMA SentType ==
    ASSUME Inv, NEW c \in NewCommands \cup SentCommands
    PROVE  c \in CommandTypes /\ CommandOK(c)
<1>t. /\ version \in Nat /\ Creator \in Persons
      /\ DOMAIN invitations \subseteq Nat
  BY InvitationsAssumption, Table DEF Inv, TypeOK
<1>1. CASE c \in NewCommands
  BY <1>1, <1>t
  DEF NewCommands, CommandTypes, CommandOK, Operations, Responses, NoInvitation
<1>2. CASE c \in {r.command : r \in receipts}
  BY <1>2 DEF Inv, TypeOK, ReceiptOK
<1>3. CASE c \in {requests[q].command : q \in {q \in Requests : Running(q)}}
  BY <1>3, Held DEF RequestOK, Running
<1> QED
  BY <1>1, <1>2, <1>3 DEF SentCommands

\* A request is sent.
LEMMA SendMoves ==
    ASSUME Inv, NEW q \in Requests, Send(q)
    PROVE  Moves(q)
<1>1. PICK c \in NewCommands \cup SentCommands :
               Goes(q, [Idle EXCEPT
                           !.at       = "sent",
                           !.command  = c,
                           !.repeated = \E r \in receipts : r.command = c])
  BY DEF Send
<1> DEFINE again == \E r \in receipts : r.command = c
           row   == [Idle EXCEPT !.at = "sent", !.command = c,
                                 !.repeated = again]
<1>2. c \in CommandTypes /\ CommandOK(c)
  BY SentType
<1>3. again \in BOOLEAN
  OBVIOUS
<1>4. Goes(q, row)
  BY <1>1
<1>5. again => \E r \in receipts : r.command = c
  OBVIOUS
<1> HIDE DEF again
<1>6. row \in Rows /\ row.at = "sent" /\ row.command = c /\ row.repeated = again
  BY <1>2, <1>3, IdleType DEF Rows, Places
<1> HIDE DEF row
<1>7. RequestOK(row)
  BY <1>2, <1>5, <1>6 DEF RequestOK
<1> QED
  BY <1>4, <1>6, <1>7 DEF Moves

\* The creator's requests read the space, look for a receipt and decide.
LEMMA IssuerMoves ==
    ASSUME Inv, NEW q \in Requests,
           LoadSpace(q) \/ FindIssuerReceipt(q) \/ AssertCanWrite(q)
    PROVE  Moves(q)
<1> DEFINE held    == requests[q]
           command == held.command
           latest  == LatestInvitation(invitations)
           space   == Loaded(status, version, members, invitations, latest)
<1>t. held \in Rows /\ RequestOK(held)
  BY Held
<1>1. CASE LoadSpace(q)
  <2>1. /\ held.at = "sent" /\ command.operation \notin Responses
        /\ CommandOK(command)
    BY <1>1, <1>t DEF LoadSpace, RequestOK
  <2>2. IsIssuer(members, command.actor)
    BY <2>1 DEF CommandOK, IsIssuer, Inv
  <2> DEFINE row == [held EXCEPT !.at = "loaded", !.space = space]
  <2>3. Goes(q, row)
    BY <1>1, <2>2 DEF LoadSpace
  <2>4. space \in LoadedTypes
    BY Latest, LoadedType DEF Inv
  <2>5. space.version = version /\ version \in Nat
    BY DEF Loaded, Inv, TypeOK
  <2>6. space = Loaded(status, version, members, invitations, LinkOf(command))
    BY <2>1 DEF LinkOf
  <2> HIDE DEF space
  <2>7. /\ row \in Rows /\ row.at = "loaded" /\ row.command = command
        /\ row.space = space /\ row.repeated = held.repeated
    BY <1>t, <2>4 DEF Rows, Places
  <2>8. SeenAs(command, space)
    BY <2>5, <2>6 DEF SeenAs
  <2> HIDE DEF row
  <2>9. RequestOK(row)
    BY <1>t, <2>1, <2>7, <2>8 DEF RequestOK
  <2> QED
    BY <2>3, <2>7, <2>9 DEF Moves
<1>2. CASE FindIssuerReceipt(q)
  <2>1. held.at = "loaded"
    BY <1>2 DEF FindIssuerReceipt
  <2>2. CASE Found(receipts, command) # {}
    BY <1>2, <2>2, ReplayMoves DEF FindIssuerReceipt
  <2>3. CASE /\ Found(receipts, command) = {}
             /\ held.space.version # command.version
    BY <1>2, <2>1, <2>3, FoundAgain, ConflictMoves
    DEF FindIssuerReceipt, Running
  <2>4. CASE /\ Found(receipts, command) = {}
             /\ held.space.version = command.version
    <3> DEFINE row == [held EXCEPT !.at = "timed", !.time = clock]
    <3>1. Goes(q, row)
      BY <1>2, <2>4 DEF FindIssuerReceipt
    <3>2. clock \in Nat
      BY DEF Inv, TypeOK
    <3>3. /\ row \in Rows /\ row.at = "timed" /\ row.command = command
          /\ row.space = held.space /\ row.repeated = held.repeated
      BY <1>t, <3>2 DEF Rows, Places
    <3> HIDE DEF row
    <3>4. ~ held.repeated
      BY <2>4, FoundAgain
    <3>5. RequestOK(row)
      BY <1>t, <2>1, <2>4, <3>3, <3>4 DEF RequestOK
    <3> QED
      BY <3>1, <3>3, <3>5 DEF Moves
  <2> QED
    BY <2>2, <2>3, <2>4
<1>3. CASE AssertCanWrite(q)
  <2>1. held.at = "timed" /\ ~ held.repeated
    BY <1>3, FoundAgain DEF AssertCanWrite
  <2>2. CASE GoesOn(q, "decided")
             /\ CanInvite(held.space, command, held.time)
    <3> DEFINE row == [held EXCEPT !.at = "decided"]
    <3>1. Goes(q, row)
      BY <2>2 DEF GoesOn
    <3>2. /\ row \in Rows /\ row.at = "decided" /\ row.command = command
          /\ row.space = held.space /\ row.repeated = held.repeated
          /\ row.time = held.time
      BY <1>t DEF Rows, Places
    <3> HIDE DEF row
    <3>3. RequestOK(row)
      BY <1>t, <2>1, <2>2, <3>2 DEF RequestOK, Allowed
    <3> QED
      BY <3>1, <3>2, <3>3 DEF Moves
  <2>3. CASE Refuse(q)
    BY <2>1, <2>3, RefuseMoves
  <2> QED
    BY <1>3, <2>2, <2>3 DEF AssertCanWrite
<1> QED
  BY <1>1, <1>2, <1>3

\* A response looks for its receipt, reads the space of its link and decides.
LEMMA ResponseMoves ==
    ASSUME Inv, NEW q \in Requests, FindResponseReceipt(q) \/ LoadByLink(q)
    PROVE  Moves(q)
<1> DEFINE held    == requests[q]
           command == held.command
           space   == Loaded(status, version, members, invitations,
                             command.invitation)
<1>t. held \in Rows /\ RequestOK(held)
  BY Held
<1>1. CASE FindResponseReceipt(q)
  <2>1. held.at = "sent" /\ command.operation \in Responses
    BY <1>1 DEF FindResponseReceipt
  <2>2. CASE Found(receipts, command) # {}
    BY <1>1, <2>2, ReplayMoves DEF FindResponseReceipt
  <2>3. CASE Found(receipts, command) = {}
    <3> DEFINE row == [held EXCEPT !.at = "unreceipted"]
    <3>1. Goes(q, row)
      BY <1>1, <2>3 DEF FindResponseReceipt, GoesOn
    <3>2. /\ row \in Rows /\ row.at = "unreceipted" /\ row.command = command
          /\ row.repeated = held.repeated
      BY <1>t DEF Rows, Places
    <3> HIDE DEF row
    <3>3. RequestOK(row)
      BY <1>t, <2>1, <2>3, <3>2, FoundAgain DEF RequestOK
    <3> QED
      BY <3>1, <3>2, <3>3 DEF Moves
  <2> QED
    BY <2>2, <2>3
<1>2. CASE LoadByLink(q)
  <2>1. held.at = "unreceipted" /\ ~ held.repeated
    BY <1>2, FoundAgain DEF LoadByLink
  <2>2. CASE Conflict(q)
    BY <2>1, <2>2, ConflictMoves DEF Running
  <2>3. CASE Refuse(q)
    BY <2>1, <2>3, RefuseMoves
  <2>4. CASE /\ space.version = command.version
             /\ CanRespond(space, command, clock)
             /\ Goes(q, [held EXCEPT !.at = "decided", !.space = space,
                                     !.time = clock])
    <3> DEFINE row == [held EXCEPT !.at = "decided", !.space = space,
                                   !.time = clock]
    <3>1. Goes(q, row)
      BY <2>4
    <3>2. CommandOK(command) /\ command.operation \in Responses
      BY <1>t, <2>1 DEF RequestOK
    <3>3. space \in LoadedTypes /\ clock \in Nat
      BY <3>2, LoadedType DEF CommandOK, Inv, TypeOK
    <3>4. space.version = version /\ version \in Nat
      BY DEF Loaded, Inv, TypeOK
    <3>5. space = Loaded(status, version, members, invitations,
                         LinkOf(command))
      BY <3>2 DEF LinkOf
    <3>6. SeenAs(command, space)
      BY <3>4, <3>5 DEF SeenAs
    <3>7. space.version = command.version /\ Allowed(space, command, clock)
      BY <2>4, <3>2 DEF Allowed
    <3> HIDE DEF space
    <3>8. /\ row \in Rows /\ row.at = "decided" /\ row.command = command
          /\ row.space = space /\ row.repeated = held.repeated
          /\ row.time = clock
      BY <1>t, <3>3 DEF Rows, Places
    <3> HIDE DEF row
    <3>9. RequestOK(row)
      BY <2>1, <3>2, <3>6, <3>7, <3>8 DEF RequestOK
    <3> QED
      BY <3>1, <3>8, <3>9 DEF Moves
  <2> QED
    BY <1>2, <2>2, <2>3, <2>4 DEF LoadByLink
<1> QED
  BY <1>1, <1>2

-----------------------------------------------------------------------------
(***************************************************************************)
(* A step that writes the tables moves the version on, and leaves what was *)
(* resolved, received or joined as it is.                                  *)
(***************************************************************************)
Advances ==
    /\ version' = version + 1
    /\ members \subseteq members'
    /\ receipts \subseteq receipts'
    /\ DOMAIN invitations \subseteq DOMAIN invitations'
    /\ \A i \in DOMAIN invitations :
           invitations[i].status # "PENDING" => invitations'[i] = invitations[i]

\* What a request had seen is then out of date, which is no harm.
LEMMA AdvancesRequest ==
    ASSUME Inv, Advances, NEW row \in Rows, RequestOK(row)
    PROVE  RequestOK(row)'
<1>1. version \in Nat /\ row.space.version \in Nat
  BY DEF Inv, TypeOK, Rows, LoadedTypes
<1>2. CommandOK(row.command) => CommandOK(row.command)'
  BY DEF CommandOK, Advances
<1>3. SeenAs(row.command, row.space) => SeenAs(row.command, row.space)'
  BY <1>1 DEF SeenAs, Advances
<1> QED
  BY <1>2, <1>3 DEF RequestOK, Advances

\* Receipts stay as good as they were.
LEMMA AdvancesReceipt ==
    ASSUME Advances, NEW r, ReceiptOK(r)
    PROVE  ReceiptOK(r)'
BY DEF Advances, ReceiptOK, CommandOK, BorneOut

\* A request that goes on without writing keeps the invariant.
LEMMA InvMoves ==
    ASSUME Inv, NEW q \in Requests, Moves(q), UNCHANGED <<tables, clock>>
    PROVE  Inv'
<1>1. PICK row \in Rows : Goes(q, row) /\ RequestOK(row)
  BY DEF Moves
<1>2. requests \in [Requests -> Rows]
  BY DEF Inv, TypeOK, Rows
<1>3. /\ requests' \in [Requests -> Rows]
      /\ \A p \in Requests : RequestOK(requests'[p])
  BY <1>1, <1>2 DEF Goes, Inv
<1>4. UNCHANGED <<status, version, members, invitations, receipts, clock>>
  BY DEF tables
<1>5. TypeOK'
  BY <1>3, <1>4 DEF Inv, TypeOK, Rows
<1>6. \A p \in Requests : RequestOK(requests[p])'
  BY <1>3, <1>4 DEF RequestOK, CommandOK, SeenAs, LinkOf
<1>7. OneOpenInvitation' /\ OneReceipt' /\ \A r \in receipts' : ReceiptOK(r)'
  BY <1>4 DEF Inv, OneOpenInvitation, OneReceipt, ReceiptOK, CommandOK, BorneOut
<1> QED
  BY <1>4, <1>5, <1>6, <1>7 DEF Inv

-----------------------------------------------------------------------------
(***************************************************************************)
(* The commit.                                                             *)
(***************************************************************************)
\* As the version is still the one the client had seen, a request that commits
\* has decided on the tables as they are.
LEMMA CommitSeen ==
    ASSUME Inv, NEW q \in Requests, Commit(q)
    PROVE  LET command == requests[q].command
               space   == requests[q].space
               time    == requests[q].time
           IN  /\ command \in CommandTypes /\ time \in Nat
               /\ CommandOK(command)
               /\ command.version = version
               /\ LinkOf(command) \in DOMAIN invitations
               /\ space = Loaded(status, version, members, invitations,
                                 LinkOf(command))
               /\ Allowed(space, command, time)
               /\ ~ requests[q].repeated
<1>1. requests[q].at = "decided" /\ version = requests[q].command.version
  BY DEF Commit, Writable
<1>2. requests[q] \in Rows /\ RequestOK(requests[q])
  BY Held
<1>3. CommandOK(requests[q].command)
  BY <1>1, <1>2 DEF RequestOK
<1>4. LinkOf(requests[q].command) \in DOMAIN invitations
  BY <1>3, Latest DEF Inv, LinkOf, CommandOK
<1> QED
  BY <1>1, <1>2, <1>3, <1>4 DEF RequestOK, SeenAs, Rows

\* An invitation that a command settles was pending and is no more, or it was
\* settled before.
LEMMA SettledOnce ==
    ASSUME NEW space, NEW command \in CommandTypes, NEW at \in Nat,
           space.invitation \in InvitationRows, Allowed(space, command, at)
    PROVE  LET i == Settled(space, command, at)
           IN  /\ i \in InvitationRows
               /\ i.status # "PENDING"
               /\ space.invitation.status # "PENDING" => i = space.invitation
               /\ command.operation = "ACCEPT" => i.status = "ACCEPTED"
               /\ command.operation = "REJECT" => i.status = "REJECTED"
               /\ space.status = "ACTIVE"
<1> DEFINE old == space.invitation
           i   == Settled(space, command, at)
<1>1. command.operation \in Operations
  BY DEF CommandTypes
<1>2. StatusAt(old, at) = "PENDING" => old.status = "PENDING"
  BY DEF StatusAt
<1>3. \A s \in InvitationStates : /\ Resolved(old, s, at) \in InvitationRows
                                 /\ Resolved(old, s, at).status = s
  BY InvitationTypes DEF Resolved, InvitationRows
<1>4. CASE command.operation = "ISSUE"
  <2>1. i = ExpireIfDue(old, at) /\ StatusAt(old, at) # "PENDING"
        /\ space.status = "ACTIVE"
    BY <1>4 DEF Settled, Allowed, CanInvite, Responses
  <2>2. i \in InvitationRows
    BY <2>1, InvitationTypes
  <2>3. old.status = "PENDING" => i.status = "EXPIRED"
    BY <2>1 DEF ExpireIfDue, StatusAt, InvitationRows
  <2>4. old.status # "PENDING" => i = old
    BY <2>1 DEF ExpireIfDue
  <2> QED
    BY <1>4, <2>1, <2>2, <2>3, <2>4
<1>5. CASE command.operation = "REPLACE"
  <2>1. i = Resolved(old, "CANCELLED", at) /\ StatusAt(old, at) = "PENDING"
        /\ space.status = "ACTIVE"
    BY <1>5 DEF Settled, Allowed, CanInvite, Responses
  <2> HIDE DEF i
  <2> QED
    BY <1>2, <1>3, <1>5, <2>1 DEF InvitationStates, i
<1>6. CASE command.operation = "ACCEPT"
  <2>1. i = Resolved(old, "ACCEPTED", at) /\ StatusAt(old, at) = "PENDING"
        /\ space.status = "ACTIVE"
    BY <1>6 DEF Settled, Allowed, CanRespond, Responses
  <2> HIDE DEF i
  <2> QED
    BY <1>2, <1>3, <1>6, <2>1 DEF InvitationStates, i
<1>7. CASE command.operation = "REJECT"
  <2>1. i = Resolved(old, "REJECTED", at) /\ StatusAt(old, at) = "PENDING"
        /\ space.status = "ACTIVE"
    BY <1>7 DEF Settled, Allowed, CanRespond, Responses
  <2> HIDE DEF i
  <2> QED
    BY <1>2, <1>3, <1>7, <2>1 DEF InvitationStates, i
<1> QED
  BY <1>1, <1>4, <1>5, <1>6, <1>7 DEF Operations

\* The table of invitations after a command: the settled one, and perhaps a new
\* one at the end.
LEMMA WrittenTable ==
    ASSUME TypeOK, invitations # <<>>, NEW space, NEW command, NEW at \in Nat,
           space.id \in DOMAIN invitations,
           Settled(space, command, at) \in InvitationRows
    PROVE  LET table == Written(invitations, space, command, at)
               n     == Len(invitations)
           IN  /\ table \in Seq(InvitationRows)
               /\ table # <<>>
               /\ Len(table) = IF command.operation \in Responses
                               THEN n ELSE n + 1
               /\ table[space.id] = Settled(space, command, at)
               /\ \A i \in 1 .. n : i # space.id => table[i] = invitations[i]
               /\ command.operation \notin Responses =>
                      table[n + 1] = Issued(at)
<1> DEFINE n == Len(invitations)
           new == Settled(space, command, at)
           kept == [invitations EXCEPT ![space.id] = new]
<1>1. /\ invitations \in Seq(InvitationRows) /\ n \in Nat \ {0}
      /\ space.id \in 1 .. n
  BY Table DEF TypeOK
<1> HIDE DEF new
<1>2. /\ kept \in Seq(InvitationRows) /\ Len(kept) = n
      /\ \A i \in 1 .. n : kept[i] = IF i = space.id THEN new
                                                     ELSE invitations[i]
  BY <1>1, ExceptSeq DEF new
<1>3. Issued(at) \in InvitationRows
  BY DEF Issued, NoTime, InvitationRows, InvitationStates
<1>4. Written(invitations, space, command, at) =
          IF command.operation \in Responses
          THEN kept ELSE Append(kept, Issued(at))
  BY DEF Written, new
<1> HIDE DEF kept, n
<1>5. kept # <<>>
  BY <1>1, <1>2, EmptySeq
<1>6. /\ Append(kept, Issued(at)) \in Seq(InvitationRows)
      /\ Append(kept, Issued(at)) # <<>>
      /\ Len(Append(kept, Issued(at))) = n + 1
      /\ \A i \in 1 .. n : Append(kept, Issued(at))[i] = kept[i]
      /\ Append(kept, Issued(at))[n + 1] = Issued(at)
  BY <1>2, <1>3, AppendProperties
<1> QED
  BY <1>1, <1>2, <1>4, <1>5, <1>6 DEF n, new

\* The tables after a commit, and what they say of its receipt.
CommitWrites(q, receipt) ==
    /\ Advances
    /\ status' = status /\ clock' = clock
    /\ members' \in SUBSET Persons
    /\ invitations' \in Seq(InvitationRows)
    /\ invitations' # <<>>
    /\ OneOpenInvitation'
    /\ receipts' = receipts \cup {receipt}
    /\ receipt \in [command : CommandTypes, invitation : Nat, createdAt : Nat]
    /\ ReceiptOK(receipt)'
    /\ Found(receipts, receipt.command) = {}
    /\ receipt.command = requests[q].command
    /\ Answer(q, receipt.invitation)

LEMMA CommitTables ==
    ASSUME Inv, NEW q \in Requests, Commit(q)
    PROVE  \E receipt : CommitWrites(q, receipt)
<1> DEFINE n == Len(invitations)
<1>p. PICK command, space, time, result :
               /\ command = requests[q].command /\ space = requests[q].space
               /\ time = requests[q].time /\ result = Result(invitations, command)
  OBVIOUS
<1>1. /\ command \in CommandTypes /\ time \in Nat /\ CommandOK(command)
      /\ LinkOf(command) \in DOMAIN invitations
      /\ space = Loaded(status, version, members, invitations, LinkOf(command))
      /\ Allowed(space, command, time)
  BY <1>p, CommitSeen
<1>2. /\ space.id = LinkOf(command) /\ space.id \in DOMAIN invitations
      /\ space.invitation = invitations[space.id] /\ space.status = status
  BY <1>1 DEF Loaded
<1>3. /\ TypeOK /\ invitations # <<>> /\ OneOpenInvitation
      /\ n \in Nat \ {0} /\ DOMAIN invitations = 1 .. n
      /\ space.invitation \in InvitationRows
  BY <1>2, Table DEF Inv
<1>c. /\ version' = version + 1
      /\ invitations' = Written(invitations, space, command, time)
      /\ members' = Joined(members, command)
      /\ receipts' = receipts \cup {[command |-> command, invitation |-> result,
                                     createdAt |-> time]}
      /\ Found(receipts, command) = {}
      /\ Answer(q, result)
      /\ status' = status /\ clock' = clock
  BY <1>p DEF Commit
<1>i. PICK new : new = Settled(space, command, time)
  OBVIOUS
<1>4. /\ new \in InvitationRows /\ new.status # "PENDING"
      /\ space.invitation.status # "PENDING" => new = space.invitation
      /\ command.operation = "ACCEPT" => new.status = "ACCEPTED"
      /\ command.operation = "REJECT" => new.status = "REJECTED"
      /\ status = "ACTIVE"
  BY <1>1, <1>2, <1>3, <1>i, SettledOnce
<1>5. /\ invitations' \in Seq(InvitationRows) /\ invitations' # <<>>
      /\ Len(invitations') = IF command.operation \in Responses
                             THEN n ELSE n + 1
      /\ invitations'[space.id] = new
      /\ \A i \in 1 .. n : i # space.id => invitations'[i] = invitations[i]
      /\ command.operation \notin Responses =>
             invitations'[n + 1] = Issued(time)
  BY <1>1, <1>2, <1>3, <1>4, <1>c, <1>i, WrittenTable
<1>6. DOMAIN invitations' = 1 .. Len(invitations')
  BY <1>5, LenProperties
<1> HIDE DEF n
<1>7. /\ members \subseteq members' /\ members' \in SUBSET Persons
      /\ command.operation = "ACCEPT" => command.actor \in members'
  BY <1>1, <1>3, <1>c DEF Joined, TypeOK, CommandTypes
<1>8. Advances
  <2>1. 1 .. n \subseteq DOMAIN invitations'
    BY <1>3, <1>5, <1>6
  <2>2. ASSUME NEW i \in 1 .. n, invitations[i].status # "PENDING"
        PROVE  invitations'[i] = invitations[i]
    BY <1>2, <1>4, <1>5, <2>2
  <2> QED
    BY <1>3, <1>7, <1>c, <2>1, <2>2 DEF Advances
<1>9. OneOpenInvitation'
  <2> SUFFICES ASSUME NEW i \in DOMAIN invitations',
                      invitations'[i].status = "PENDING"
               PROVE  i = Len(invitations') /\ status' = "ACTIVE"
    BY DEF OneOpenInvitation
  <2>1. i # space.id
    BY <1>4, <1>5
  <2>2. i \in 1 .. n => invitations[i].status = "PENDING"
    BY <1>5, <2>1
  <2>3. CASE command.operation \in Responses
    BY <1>3, <1>4, <1>5, <1>6, <1>c, <2>2, <2>3 DEF OneOpenInvitation, n
  <2>4. CASE command.operation \notin Responses
    <3>1. i \notin 1 .. n
      BY <1>2, <1>3, <2>1, <2>2, <2>4, Latest DEF LinkOf
    <3> QED
      BY <1>3, <1>4, <1>5, <1>6, <1>c, <2>4, <3>1
  <2> QED
    BY <2>3, <2>4
<1>10. result \in DOMAIN invitations' /\ result \in Nat
  <2>1. CASE command.operation \in Responses
    <3>1. result = space.id
      BY <1>p, <1>2, <2>1 DEF Result, LinkOf
    <3> QED
      BY <1>2, <1>3, <1>5, <1>6, <2>1, <3>1
  <2>2. CASE command.operation \notin Responses
    <3>1. result = n + 1
      BY <1>p, <2>2 DEF Result, n
    <3> QED
      BY <1>3, <1>5, <1>6, <2>2, <3>1
  <2> QED
    BY <2>1, <2>2
<1>r. PICK receipt : receipt = [command |-> command, invitation |-> result,
                                createdAt |-> time]
  OBVIOUS
<1>11. /\ receipt \in [command : CommandTypes, invitation : Nat,
                       createdAt : Nat]
       /\ receipt.command = command /\ receipt.invitation = result
  BY <1>r, <1>1, <1>10
<1>12. ReceiptOK(receipt)'
  <2>1. CommandOK(command)'
    BY <1>1, <1>8 DEF CommandOK, Advances
  <2>2. command.operation \in Responses => result = space.id
    BY <1>p, <1>2 DEF Result, LinkOf
  <2>3. BorneOut(receipt)'
    BY <1>4, <1>5, <1>7, <1>11, <2>2 DEF BorneOut, Responses
  <2> QED
    BY <1>10, <1>11, <2>1, <2>3 DEF ReceiptOK, CommandOK
<1>13. CommitWrites(q, receipt)
  BY <1>p, <1>5, <1>7, <1>8, <1>9, <1>11, <1>12, <1>c, <1>r DEF CommitWrites
<1> QED
  BY <1>13

\* A commit keeps the invariant.
LEMMA InvCommit ==
    ASSUME Inv, NEW q \in Requests, Commit(q)
    PROVE  Inv'
<1>1. PICK receipt : CommitWrites(q, receipt)
  BY CommitTables
<1>2. receipt.invitation \in Nat
  BY <1>1 DEF CommitWrites
<1>3. PICK row \in Rows : Goes(q, row) /\ RequestOK(row)
  BY <1>1, <1>2, AnswerMoves DEF Moves, CommitWrites
<1>4. requests \in [Requests -> Rows] /\ version \in Nat
  BY DEF Inv, TypeOK, Rows
<1>5. /\ requests' \in [Requests -> Rows]
      /\ \A p \in Requests : RequestOK(requests'[p])
  BY <1>3, <1>4 DEF Goes, Inv
<1>6. \A p \in Requests : RequestOK(requests[p])'
  <2> SUFFICES ASSUME NEW p \in Requests
               PROVE  RequestOK(requests[p])'
    OBVIOUS
  <2>1. PICK other : other = requests'[p]
    OBVIOUS
  <2>2. other \in Rows /\ RequestOK(other)
    BY <1>5, <2>1
  <2>3. RequestOK(other)'
    BY <1>1, <2>2, AdvancesRequest DEF CommitWrites
  <2> QED
    BY <2>1, <2>3 DEF RequestOK, CommandOK, SeenAs, LinkOf
<1>7. \A r \in receipts' : ReceiptOK(r)'
  BY <1>1, AdvancesReceipt DEF Inv, CommitWrites
<1>8. OneReceipt'
  BY <1>1 DEF Inv, OneReceipt, Found, SameKey, CommitWrites
<1>9. version' \in Nat
  BY <1>1, <1>4 DEF Advances, CommitWrites
<1>10. receipts' \subseteq [command : CommandTypes, invitation : Nat,
                            createdAt : Nat]
  BY <1>1 DEF Inv, TypeOK, CommitWrites
<1>11. TypeOK'
  BY <1>1, <1>5, <1>9, <1>10 DEF Inv, TypeOK, Rows, CommitWrites
<1>12. (Creator \in members)'
  BY <1>1 DEF Inv, Advances, CommitWrites
<1> QED
  BY <1>1, <1>6, <1>7, <1>8, <1>11, <1>12 DEF Inv, CommitWrites

-----------------------------------------------------------------------------
(***************************************************************************)
(* The other steps.                                                        *)
(***************************************************************************)
\* A closure that starts settles the only invitation that can be pending, and
\* touches no other.
LEMMA SuspendedTable ==
    ASSUME Inv, StartClosure
    PROVE  /\ invitations' \in Seq(InvitationRows)
           /\ Len(invitations') = Len(invitations)
           /\ DOMAIN invitations' = DOMAIN invitations
           /\ \A i \in DOMAIN invitations :
                  IF invitations[i].status = "PENDING"
                  THEN invitations'[i].status \in {"CANCELLED", "EXPIRED"}
                  ELSE invitations'[i] = invitations[i]
<1>1. PICK latest : latest = LatestInvitation(invitations)
  OBVIOUS
<1>2. PICK new : new = CancelForClosure(invitations[latest], clock)
  OBVIOUS
<1>3. /\ TypeOK /\ invitations # <<>> /\ OneOpenInvitation /\ clock \in Nat
      /\ invitations \in Seq(InvitationRows)
  BY DEF Inv, TypeOK
<1>4. /\ latest \in 1 .. Len(invitations)
      /\ DOMAIN invitations = 1 .. Len(invitations)
      /\ invitations[latest] \in InvitationRows
      /\ \A i \in DOMAIN invitations :
             invitations[i].status = "PENDING" => i = latest
  BY <1>1, <1>3, Latest, Table
<1>5. /\ new \in InvitationRows
      /\ IF invitations[latest].status = "PENDING"
         THEN new.status \in {"CANCELLED", "EXPIRED"}
         ELSE new = invitations[latest]
  <2>1. new \in InvitationRows
    BY <1>2, <1>3, <1>4, InvitationTypes
  <2>2. CASE invitations[latest].status = "PENDING"
    <3>1. PICK now : now = ExpireIfDue(invitations[latest], clock)
      OBVIOUS
    <3>2. now \in InvitationRows /\ now.status \in {"PENDING", "EXPIRED"}
      BY <1>3, <1>4, <2>2, <3>1, InvitationTypes
      DEF ExpireIfDue, InvitationRows
    <3>3. Resolved(now, "CANCELLED", clock).status = "CANCELLED"
      BY <3>2 DEF Resolved, InvitationRows
    <3> QED
      BY <1>2, <2>1, <2>2, <3>1, <3>2, <3>3 DEF CancelForClosure
  <2>3. CASE invitations[latest].status # "PENDING"
    BY <1>2, <2>1, <2>3 DEF CancelForClosure, ExpireIfDue
  <2> QED
    BY <2>2, <2>3
<1>6. invitations' = [invitations EXCEPT ![latest] = new]
  BY <1>1, <1>2, <1>4 DEF StartClosure
<1>7. /\ invitations' \in Seq(InvitationRows)
      /\ Len(invitations') = Len(invitations)
      /\ \A i \in 1 .. Len(invitations) :
             invitations'[i] = IF i = latest THEN new ELSE invitations[i]
  BY <1>3, <1>4, <1>5, <1>6, ExceptSeq
<1>8. DOMAIN invitations' = DOMAIN invitations
  BY <1>4, <1>7, LenProperties
<1> QED
  BY <1>4, <1>5, <1>7, <1>8

\* The closure starts or is called off.
LEMMA InvClosure ==
    ASSUME Inv, StartClosure \/ CancelClosure
    PROVE  Inv'
<1>1. /\ version' = version + 1 /\ version \in Nat /\ members' = members
      /\ receipts' = receipts /\ clock' = clock /\ requests' = requests
      /\ status' \in SpaceStates
  BY DEF StartClosure, CancelClosure, SpaceStates, Inv, TypeOK
<1>2. /\ invitations' \in Seq(InvitationRows) /\ invitations' # <<>>
      /\ DOMAIN invitations' = DOMAIN invitations
      /\ Len(invitations') = Len(invitations)
      /\ \A i \in DOMAIN invitations :
             \/ invitations'[i] = invitations[i]
             \/ /\ invitations[i].status = "PENDING"
                /\ invitations'[i].status # "PENDING"
      /\ OneOpenInvitation'
  <2>1. CASE StartClosure
    <3>1. Len(invitations) # 0
      BY Table DEF Inv
    <3>2. invitations' # <<>>
      BY <2>1, <3>1, SuspendedTable
    <3> QED
      BY <2>1, <3>2, SuspendedTable DEF OneOpenInvitation
  <2>2. CASE CancelClosure
    BY <2>2 DEF CancelClosure, Inv, TypeOK, OneOpenInvitation
  <2> QED
    BY <2>1, <2>2
<1>3. Advances
  BY <1>1, <1>2 DEF Advances
<1>4. \A q \in Requests : RequestOK(requests[q])'
  <2> SUFFICES ASSUME NEW q \in Requests
               PROVE  RequestOK(requests[q])'
    OBVIOUS
  <2>1. PICK row : row = requests[q]
    OBVIOUS
  <2>2. RequestOK(row)'
    BY <1>3, <2>1, Held, AdvancesRequest
  <2> QED
    BY <1>1, <2>1, <2>2
<1>5. \A r \in receipts' : ReceiptOK(r)'
  BY <1>1, <1>3, AdvancesReceipt DEF Inv
<1>6. TypeOK' /\ OneReceipt' /\ (Creator \in members)'
  BY <1>1, <1>2 DEF Inv, TypeOK, OneReceipt
<1> QED
  BY <1>2, <1>4, <1>5, <1>6 DEF Inv

\* The space begins with one invitation and no request.
LEMMA InvInit == Init => Inv
<1> SUFFICES ASSUME Init
             PROVE  Inv
  OBVIOUS
<1>1. Issued(1) \in InvitationRows
  BY DEF Issued, NoTime, InvitationRows, InvitationStates
<1>2. /\ invitations \in Seq(InvitationRows) /\ invitations # <<>>
      /\ Len(invitations) = 1 /\ DOMAIN invitations = {1}
  BY <1>1 DEF Init
<1>3. requests \in [Requests -> Rows]
  BY IdleType DEF Init
<1>4. TypeOK
  BY <1>2, <1>3, InvitationsAssumption DEF Init, TypeOK, SpaceStates, Rows
<1>5. RequestOK(Idle)
  BY DEF RequestOK, Idle
<1>6. \A q \in Requests : RequestOK(requests[q])
  BY <1>5 DEF Init
<1>7. OneOpenInvitation
  BY <1>2 DEF Init, OneOpenInvitation
<1> QED
  BY <1>2, <1>4, <1>6, <1>7 DEF Init, Inv, OneReceipt

\* A request that does not commit writes nothing and goes on.
LEMMA StepMoves ==
    ASSUME Inv, NEW q \in Requests, Step(q), ~ Commit(q)
    PROVE  Moves(q) /\ UNCHANGED <<tables, clock>>
<1>1. CASE Send(q)
  BY <1>1, SendMoves DEF Send
<1>2. CASE LoadSpace(q) \/ FindIssuerReceipt(q) \/ AssertCanWrite(q)
  BY <1>2, IssuerMoves DEF LoadSpace, FindIssuerReceipt, AssertCanWrite
<1>3. CASE FindResponseReceipt(q) \/ LoadByLink(q)
  BY <1>3, ResponseMoves DEF FindResponseReceipt, LoadByLink
<1>4. CASE Rollback(q)
  <2>1. requests[q].at = "decided" /\ Conflict(q)
    BY <1>4 DEF Rollback
  <2> QED
    BY <1>4, <2>1, FoundAgain, ConflictMoves, Held DEF Running, Rollback
<1>5. CASE Recover(q)
  <2>1. requests[q].at = "conflict" /\ (Replay(q) \/ Refuse(q))
    BY <1>5 DEF Recover
  <2>2. ~ requests[q].repeated
    BY <2>1, FoundAgain
  <2> QED
    BY <1>5, <2>1, <2>2, ReplayMoves, RefuseMoves DEF Recover
<1> QED
  BY <1>1, <1>2, <1>3, <1>4, <1>5 DEF Step

\* Every step keeps the invariant.
LEMMA InvNext == Inv /\ [Next]_vars => Inv'
<1> SUFFICES ASSUME Inv, [Next]_vars
             PROVE  Inv'
  OBVIOUS
<1>1. CASE \E q \in Requests : Step(q)
  BY <1>1, StepMoves, InvMoves, InvCommit
<1>2. CASE StartClosure \/ CancelClosure
  BY <1>2, InvClosure
<1>3. CASE Tick \/ UNCHANGED vars
  <2>1. /\ UNCHANGED <<status, version, members, invitations, receipts,
                       requests>>
        /\ clock' \in Nat
    BY <1>3 DEF Tick, vars, tables, Inv, TypeOK
  <2> QED
    BY <2>1 DEF Inv, TypeOK, OneOpenInvitation, ReceiptOK, CommandOK, BorneOut,
                OneReceipt, RequestOK, SeenAs, LinkOf
<1> QED
  BY <1>1, <1>2, <1>3 DEF Next

\* The invariant holds throughout.
LEMMA Invariant == Spec => []Inv
BY InvInit, InvNext, PTL DEF Spec

\* The tables and what the requests hold keep their types.
THEOREM TypeCorrect == Spec => []TypeOK
<1>1. Inv => TypeOK
  BY DEF Inv
<1> QED
  BY <1>1, Invariant, PTL

\* However many requests run at the same time, at most the latest invitation is
\* open, and none is while the space is closing.
THEOREM OneOpen == Spec => []OneOpenInvitation
<1>1. Inv => OneOpenInvitation
  BY DEF Inv
<1> QED
  BY <1>1, Invariant, PTL

\* No request is refused whose very command had been carried out when it was
\* sent, whichever of its reads meets which commit of another one.
THEOREM RetriesAnswered == Spec => []RetryIsAnswered
<1>1. Inv => RetryIsAnswered
  BY DEF Inv, RequestOK, RetryIsAnswered
<1> QED
  BY <1>1, Invariant, PTL

\* A request is answered with the invitation a receipt of its own command names,
\* one that is committed by then.
THEOREM AnswersTrue == Spec => AnswersAreTrue
<1> DEFINE Answered ==
        \A q \in Requests :
            (requests'[q].at = "answered" /\ Running(q)) =>
                \E r \in receipts' :
                    /\ r.command = requests[q].command
                    /\ r.invitation = requests'[q].invitation
<1>1. Inv /\ [Next]_vars => Answered
  <2> SUFFICES ASSUME Inv, [Next]_vars, NEW q \in Requests,
                      requests'[q].at = "answered", Running(q)
               PROVE  \E r \in receipts' :
                          /\ r.command = requests[q].command
                          /\ r.invitation = requests'[q].invitation
    OBVIOUS
  <2>1. requests \in [Requests -> Rows]
    BY DEF Inv, TypeOK, Rows
  <2>2. requests'[q] # requests[q]
    BY DEF Running
  <2>3. PICK p \in Requests : Step(p)
    BY <2>2 DEF Next, StartClosure, CancelClosure, Tick, vars
  <2>g. ASSUME NEW row, Goes(p, row)
        PROVE  p = q /\ requests'[q] = row
    BY <2>1, <2>2, <2>g DEF Goes
  <2>4. ASSUME NEW id, Answer(p, id)
        PROVE  p = q /\ requests'[q].invitation = id
    <3>1. [Idle EXCEPT !.at = "answered", !.invitation = id].invitation = id
      BY IdleType DEF Rows
    <3> QED
      BY <2>4, <2>g, <3>1 DEF Answer
  <2>5. ~ Refuse(p)
    <3>1. \A b : [Idle EXCEPT !.at = "refused", !.repeated = b].at = "refused"
      BY IdleType DEF Rows
    <3> QED
      BY <2>g, <3>1 DEF Refuse
  <2>6. CASE Replay(p)
    <3>1. PICK r \in Found(receipts, requests[p].command) :
                   IF /\ r.command = requests[p].command
                      /\ requests[p].command.operation = "ACCEPT" =>
                             /\ invitations[r.invitation].status = "ACCEPTED"
                             /\ requests[p].command.actor \in members
                      /\ requests[p].command.operation = "REJECT" =>
                             invitations[r.invitation].status = "REJECTED"
                   THEN Answer(p, r.invitation)
                   ELSE Refuse(p)
      BY <2>6 DEF Replay
    <3>2. r.command = requests[p].command /\ Answer(p, r.invitation)
      BY <2>5, <3>1
    <3>3. ~ Commit(p) => receipts' = receipts
      BY <2>3, StepMoves DEF tables
    <3>4. Commit(p) => receipts \subseteq receipts'
      BY CommitTables DEF CommitWrites
    <3> QED
      BY <2>4, <3>1, <3>2, <3>3, <3>4 DEF Found
  <2>7. CASE Commit(p)
    <3>1. PICK receipt : CommitWrites(p, receipt)
      BY <2>7, CommitTables
    <3> QED
      BY <2>4, <3>1 DEF CommitWrites
  <2>8. CASE ~ Replay(p) /\ ~ Commit(p)
    <3>1. ASSUME NEW at, at # "answered", GoesOn(p, at)
          PROVE  FALSE
      BY <2>1, <2>g, <3>1 DEF GoesOn, Rows
    <3>e. ASSUME NEW row, NEW at, at # "answered", Goes(p, row), row.at = at
          PROVE  FALSE
      BY <2>g, <3>e
    <3>h. requests[p] \in Rows
      BY <2>1
    <3>2. ~ Conflict(p)
      <4>1. PICK row : row = [requests[p] EXCEPT !.at = "conflict",
                                                 !.space = NoSpace,
                                                 !.time = NoTime]
        OBVIOUS
      <4>2. row.at = "conflict"
        BY <3>h, <4>1 DEF Rows
      <4> QED
        BY <3>e, <4>1, <4>2 DEF Conflict
    <3>3. ~ Send(p)
      <4>1. \A c, b : [Idle EXCEPT !.at = "sent", !.command = c,
                                   !.repeated = b].at = "sent"
        BY IdleType DEF Rows
      <4> QED
        BY <2>g, <4>1 DEF Send
    <3>4. ~ LoadSpace(p)
      <4>1. PICK row : row = [requests[p] EXCEPT
                                 !.at    = "loaded",
                                 !.space = Loaded(status, version, members,
                                                  invitations,
                                                  LatestInvitation(invitations))]
        OBVIOUS
      <4>2. row.at = "loaded"
        BY <3>h, <4>1 DEF Rows
      <4>3. LoadSpace(p) => Goes(p, row)
        BY <2>5, <4>1 DEF LoadSpace
      <4> QED
        BY <3>e, <4>2, <4>3
    <3>5. ~ FindIssuerReceipt(p)
      <4>1. PICK row : row = [requests[p] EXCEPT !.at = "timed", !.time = clock]
        OBVIOUS
      <4>2. row.at = "timed"
        BY <3>h, <4>1 DEF Rows
      <4>3. FindIssuerReceipt(p) => Goes(p, row)
        BY <2>8, <3>2, <4>1 DEF FindIssuerReceipt
      <4> QED
        BY <3>e, <4>2, <4>3
    <3>6. ~ AssertCanWrite(p)
      BY <2>5, <3>1 DEF AssertCanWrite
    <3>7. ~ FindResponseReceipt(p)
      BY <2>8, <3>1 DEF FindResponseReceipt
    <3>8. ~ LoadByLink(p)
      <4>1. PICK space : space = Loaded(status, version, members, invitations,
                                        requests[p].command.invitation)
        OBVIOUS
      <4>2. PICK row : row = [requests[p] EXCEPT !.at = "decided",
                                                 !.space = space, !.time = clock]
        OBVIOUS
      <4>3. row.at = "decided"
        BY <3>h, <4>2 DEF Rows
      <4>4. LoadByLink(p) => Goes(p, row)
        BY <2>5, <3>2, <4>1, <4>2 DEF LoadByLink
      <4> QED
        BY <3>e, <4>3, <4>4
    <3>9. ~ Rollback(p) /\ ~ Recover(p)
      BY <2>5, <2>8, <3>2 DEF Rollback, Recover
    <3> QED
      BY <2>3, <2>8, <3>3, <3>4, <3>5, <3>6, <3>7, <3>8, <3>9 DEF Step
  <2> QED
    BY <2>6, <2>7, <2>8
<1>2. Inv /\ [Next]_vars => [Answered]_vars
  BY <1>1
<1> QED
  BY <1>2, Invariant, PTL DEF Spec, AnswersAreTrue

-----------------------------------------------------------------------------
(***************************************************************************)
(* The transactions implement commands that are carried out in one step.   *)
(***************************************************************************)
\* Both modules mean the same values by a loaded space and by its commands.
LEMMA SameValues ==
    ASSUME NEW t, NEW table, NEW c, NEW space, NEW at, NEW i, NEW s, NEW v
    PROVE  /\ OneByOne!Found(t, c) = Found(t, c)
           /\ OneByOne!Issued(at) = Issued(at)
           /\ OneByOne!Loaded(s, v, t, table, i) = Loaded(s, v, t, table, i)
           /\ OneByOne!LatestInvitation(table) = LatestInvitation(table)
           /\ OneByOne!Allowed(space, c, at) = Allowed(space, c, at)
           /\ OneByOne!Result(table, c) = Result(table, c)
           /\ OneByOne!Written(table, space, c, at) =
                  Written(table, space, c, at)
           /\ OneByOne!Joined(t, c) = Joined(t, c)
           /\ OneByOne!Responses = Responses
<1>1. OneByOne!Responses = Responses
  BY DEF OneByOne!Responses, Responses
<1>2. OneByOne!Found(t, c) = Found(t, c)
  BY DEF OneByOne!Found, Found, OneByOne!SameKey, SameKey,
         OneByOne!Operation, Operation, OneByOne!Responses, Responses
<1>3. OneByOne!Issued(at) = Issued(at)
  BY DEF OneByOne!Issued, Issued, OneByOne!NoTime, NoTime
<1>4. OneByOne!Loaded(s, v, t, table, i) = Loaded(s, v, t, table, i)
  BY DEF OneByOne!Loaded, Loaded
<1>5. OneByOne!LatestInvitation(table) = LatestInvitation(table)
  BY DEF OneByOne!LatestInvitation, LatestInvitation
<1>6. /\ OneByOne!Result(table, c) = Result(table, c)
      /\ OneByOne!Joined(t, c) = Joined(t, c)
  BY <1>1 DEF OneByOne!Result, Result, OneByOne!Joined, Joined
<1>7. /\ \A x, y : OneByOne!StatusAt(x, y) = StatusAt(x, y)
      /\ \A x, y : OneByOne!IsIssuer(x, y) = IsIssuer(x, y)
  <2>1. \A x : OneByOne!ExpiresAt(x) = ExpiresAt(x)
    BY DEF OneByOne!ExpiresAt, ExpiresAt
  <2>2. \A x, y : OneByOne!StatusAt(x, y) = StatusAt(x, y)
    BY <2>1, Zenon DEF OneByOne!StatusAt, StatusAt
  <2>3. \A x, y : OneByOne!IsIssuer(x, y) = IsIssuer(x, y)
    BY Zenon DEF OneByOne!IsIssuer, IsIssuer
  <2> QED
    BY <2>2, <2>3
<1>8. OneByOne!Allowed(space, c, at) = Allowed(space, c, at)
  <2>n. OneByOne!Cardinality(space.members) = Cardinality(space.members)
    BY Zenon DEF OneByOne!Cardinality, Cardinality
  <2>1. /\ OneByOne!StatusAt(space.invitation, at) =
               StatusAt(space.invitation, at)
        /\ OneByOne!IsIssuer(space.members, c.actor) =
               IsIssuer(space.members, c.actor)
    BY <1>7
  <2>2. OneByOne!CanInvite(space, c, at) = CanInvite(space, c, at)
    BY <2>1, <2>n DEF OneByOne!CanInvite, CanInvite
  <2>3. OneByOne!CanRespond(space, c, at) = CanRespond(space, c, at)
    BY <2>1, <2>n DEF OneByOne!CanRespond, CanRespond
  <2> QED
    BY <1>1, <2>2, <2>3, Zenon DEF OneByOne!Allowed, Allowed
<1>9. OneByOne!Settled(space, c, at) = Settled(space, c, at)
  BY <1>7
  DEF OneByOne!Settled, Settled, OneByOne!ExpireIfDue, ExpireIfDue,
      OneByOne!Resolved, Resolved, OneByOne!ExpiresAt, ExpiresAt
<1>10. OneByOne!Written(table, space, c, at) = Written(table, space, c, at)
  <2>1. PICK settled, issued, asked :
                 /\ settled = Settled(space, c, at)
                 /\ issued = Issued(at)
                 /\ asked = Responses
    OBVIOUS
  <2>2. /\ OneByOne!Settled(space, c, at) = settled
        /\ OneByOne!Issued(at) = issued
        /\ OneByOne!Responses = asked
    BY <1>1, <1>3, <1>9, <2>1
  <2> QED
    BY <2>1, <2>2, Zenon DEF OneByOne!Written, Written
<1> QED
  BY <1>1, <1>2, <1>3, <1>4, <1>5, <1>6, <1>8, <1>10

\* A commit carries out its command on the tables as they are.
LEMMA CommitPerforms ==
    ASSUME Inv, NEW q \in Requests, Commit(q)
    PROVE  OneByOne!CommandsNext
<1>1. PICK command, space, time, result, receipt :
               /\ command = requests[q].command /\ space = requests[q].space
               /\ time = requests[q].time
               /\ result = Result(invitations, command)
               /\ receipt = [command |-> command, invitation |-> result,
                             createdAt |-> time]
  OBVIOUS
<1>2. /\ command.version = version
      /\ space = Loaded(status, version, members, invitations, LinkOf(command))
      /\ Allowed(space, command, time)
  BY <1>1, CommitSeen
<1>3. /\ version' = version + 1
      /\ invitations' = Written(invitations, space, command, time)
      /\ members' = Joined(members, command)
      /\ receipts' = receipts \cup {receipt}
      /\ Found(receipts, command) = {}
      /\ status' = status
  BY <1>1 DEF Commit
<1>4. /\ receipt.command = command /\ receipt.invitation = result
      /\ receipt.createdAt = time
  BY <1>1
<1>5. receipt \in receipts' \ receipts
  BY <1>3, <1>4 DEF Found, SameKey
<1>6. OneByOne!Target(command) = LinkOf(command)
  BY SameValues DEF OneByOne!Target, LinkOf
<1>7. OneByOne!Perform(receipt)
  BY <1>1, <1>2, <1>3, <1>4, <1>6, SameValues DEF OneByOne!Perform
<1> QED
  BY <1>5, <1>7 DEF OneByOne!CommandsNext

\* Transactions of several statements, interleaved, lost and retried in any way,
\* leave the tables as commands carried out one by one, each on the version its
\* client had seen and each at most once.
THEOREM CommandsAtomic == Spec => CommandsAreAtomic
<1>1. Init => OneByOne!CommandsInit
  <2> SUFFICES ASSUME Init
               PROVE  OneByOne!CommandsInit
    OBVIOUS
  <2>1. invitations[1].issuedAt = 1
    BY DEF Init, Issued
  <2> QED
    BY <2>1, SameValues DEF Init, OneByOne!CommandsInit
<1>2. Inv /\ [Next]_vars => [OneByOne!CommandsNext]_(OneByOne!commandVars)
  <2> SUFFICES ASSUME Inv, [Next]_vars
               PROVE  OneByOne!CommandsNext \/ UNCHANGED tables
    BY DEF tables, OneByOne!commandVars
  <2>1. ASSUME NEW q \in Requests, Commit(q)
        PROVE  OneByOne!CommandsNext
    BY <2>1, CommitPerforms
  <2>2. ASSUME NEW q \in Requests, Step(q), ~ Commit(q)
        PROVE  UNCHANGED tables
    BY <2>2, StepMoves
  <2>3. CASE StartClosure
    <3>1. OneByOne!Suspend
      BY <2>3, SuspendedTable DEF StartClosure, OneByOne!Suspend
    <3> QED
      BY <3>1 DEF OneByOne!CommandsNext
  <2>4. CASE CancelClosure
    <3>1. OneByOne!Resume
      BY <2>4 DEF CancelClosure, OneByOne!Resume
    <3> QED
      BY <3>1 DEF OneByOne!CommandsNext
  <2>5. CASE Tick \/ UNCHANGED vars
    BY <2>5 DEF Tick, vars
  <2> QED
    BY <2>1, <2>2, <2>3, <2>4, <2>5 DEF Next
<1> QED
  BY <1>1, <1>2, Invariant, PTL
  DEF Spec, CommandsAreAtomic, OneByOne!CommandsSpec

=============================================================================
