---------------------------- MODULE PipeSessions -----------------------------
(***************************************************************************)
(* NamedPipeServer and SecureCommandHandler: the clients of the service's  *)
(* two pipes, the tracking of their sockets, and a session for each, with  *)
(* its token and the last sequence number accepted.  All of it runs on the *)
(* main thread; a handler calls the next one directly (pipe server,        *)
(* service, secure handler, CommandProc), so each is one action.  The      *)
(* shutdown's walk over a pipe's clients is taken a client at a time,      *)
(* because disconnecting a socket may call onClientDisconnected at once.   *)
(*                                                                         *)
(* A socket is the address of a QLocalSocket: it is used again after the   *)
(* object is deleted.  Clients are outside this repository: a client       *)
(* authenticates once, waits for each response, numbers its requests one   *)
(* by one, may send a request again when the response takes long, and may  *)
(* give a request up that was read.  Before it authenticates it may try    *)
(* the token of an earlier connection, or a secret that is not the         *)
(* service's; and the payload of a request may not be a command.           *)
(***************************************************************************)
EXTENDS Integers, FiniteSets

CONSTANTS Sockets,
          Pipes,       \* ControlScreens and CSMonitor
          MaxClients,  \* of each pipe (5 and 10 in the code)
          Modulus,     \* of sequence numbers: 2^32 in the code
          High, Low,   \* the window of the rollover: 0xFFFF0000, 0x0000FFFF
          FirstNumber, \* with which a client begins
          ZeroSkippers,\* pipes whose clients count from Modulus - 1 to 1, not to 0
          MaxLost,     \* requests in a row a client gives up unaccepted
          MaxConns, MaxRequests, MaxCopies  \* bounds: connections, requests of
                                            \* one, copies of a request

ASSUME SocketsAssumption == IsFiniteSet(Sockets)
ASSUME MaxClientsAssumption ==
  MaxClients \in [Pipes -> Nat \ {0}] /\ "Unknown" \notin Pipes
\* A client that has lost MaxLost requests steps over the end of the counter
\* within the window (MaxLost < 65534 in the code).
ASSUME NumbersAssumption ==
  /\ {Modulus, High, Low, FirstNumber, MaxLost} \subseteq Nat
  /\ MaxLost + 1 < Low /\ Low < High /\ High + MaxLost + 1 < Modulus
  /\ FirstNumber \in 1..(Modulus - 1)
  /\ ZeroSkippers \subseteq Pipes
ASSUME BoundsAssumption == {MaxConns, MaxRequests} \subseteq Nat /\ MaxCopies \in Nat \ {0}

VARIABLES
  sock, alive,      \* of each socket: where it is in its life; its peer is there
  pipeOf, conn,     \* the pipe it is connected to; the number of the connection
  clients, typeOf,  \* PipeInfo::clients, m_clientToPipeType
  session,          \* SecureCommandHandler::m_clients
  svc, walk,        \* the service, and stopPipe's walk over the clients
  client, msg,      \* each peer: what it waits for, what it sent last,
  copies, replies,  \* unread copies of that, unread responses,
  lost,             \* requests it has given up since one was accepted
  nextConn,
  accepted, runs    \* ghost: how often what was sent last has passed the checks
                    \* and has been run

pipeVars   == <<sock, alive, pipeOf, conn, nextConn>>
trackVars  == <<clients, typeOf>>
svcVars    == <<svc, walk>>
clientVars == <<client, msg, copies, replies, lost>>
ghostVars  == <<accepted, runs>>
vars == <<pipeVars, trackVars, session, svcVars, clientVars, ghostVars>>

NoSession == [exists |-> FALSE, auth |-> FALSE, token |-> 0, last |-> 0]
NoMsg     == [kind |-> "none", token |-> 0, no |-> 0]
NoWalk    == [pipes |-> {}, all |-> {}, todo |-> {}]

\* The number of the request a client sent last, its msg.no-th one; the one with
\* an old token is its 0th.  A token is the number of the connection that got it.
SeqOf(s) == LET n == msg[s].no
            IN IF pipeOf[s] \in ZeroSkippers
                 THEN ((FirstNumber + n - 2) % (Modulus - 1)) + 1
                 ELSE (FirstNumber + n - 1) % Modulus

Init ==
  /\ sock = [s \in Sockets |-> "free"] /\ alive = [s \in Sockets |-> FALSE]
  /\ pipeOf \in [Sockets -> {"Unknown"}] /\ conn = [s \in Sockets |-> 0]
  /\ nextConn = 1
  /\ clients = [p \in Pipes |-> {}] /\ typeOf = [s \in Sockets |-> "Unknown"]
  /\ session = [s \in Sockets |-> NoSession]
  /\ svc = "up" /\ walk = NoWalk
  /\ client = [s \in Sockets |-> "none"] /\ msg = [s \in Sockets |-> NoMsg]
  /\ copies = [s \in Sockets |-> 0] /\ replies = [s \in Sockets |-> {}]
  /\ lost = [s \in Sockets |-> 0]
  /\ accepted = [s \in Sockets |-> 0] /\ runs = [s \in Sockets |-> 0]

Tracked == UNION {clients[p] : p \in Pipes}

-----------------------------------------------------------------------------
(* Clients (external) *)

PeerOnly == UNCHANGED <<trackVars, session, svcVars>>

Connect(s, p) ==
  /\ sock[s] = "free" /\ nextConn <= MaxConns /\ svc = "up"
  /\ sock' = [sock EXCEPT ![s] = "pending"]
  /\ alive' = [alive EXCEPT ![s] = TRUE] /\ pipeOf' = [pipeOf EXCEPT ![s] = p]
  /\ conn' = [conn EXCEPT ![s] = nextConn] /\ nextConn' = nextConn + 1
  /\ client' = [client EXCEPT ![s] = "new"]
  /\ UNCHANGED <<msg, copies, replies, lost, ghostVars>> /\ PeerOnly

Send(s, what, wait) ==
  /\ alive[s] /\ copies[s] = 0
  /\ msg' = [msg EXCEPT ![s] = what] /\ copies' = [copies EXCEPT ![s] = 1]
  /\ client' = [client EXCEPT ![s] = wait]
  /\ accepted' = [accepted EXCEPT ![s] = 0] /\ runs' = [runs EXCEPT ![s] = 0]
  /\ UNCHANGED <<replies, lost, pipeVars>> /\ PeerOnly

\* A request with the token of an earlier connection, an authentication with
\* another secret ...
SendEarly(s) ==
  /\ client[s] = "new"
  /\ \/ conn[s] > 1 /\ Send(s, [kind |-> "request", token |-> conn[s] - 1, no |-> 0], "early")
     \/ Send(s, [kind |-> "wrongAuth", token |-> 0, no |-> 0], "early")

\* ... the authentication, and the requests that follow.
SendAuth(s) ==
  /\ client[s] \in {"new", "early"}
  /\ Send(s, [kind |-> "auth", token |-> 0, no |-> 0], "auth")

SendRequest(s, kind) ==
  /\ client[s] = "ready" /\ msg[s].no < MaxRequests
  /\ Send(s, [kind |-> kind, token |-> conn[s], no |-> msg[s].no + 1], "request")

SendAgain(s) ==
  /\ alive[s] /\ client[s] = "request" /\ copies[s] + accepted[s] < MaxCopies
  /\ copies' = [copies EXCEPT ![s] = @ + 1]
  /\ UNCHANGED <<client, msg, replies, lost, ghostVars, pipeVars>> /\ PeerOnly

\* A response that answers what was sent last; any other is skipped.
Receive(s) ==
  /\ alive[s] /\ client[s] \in {"auth", "request"} /\ msg[s].no \in replies[s]
  /\ client' = [client EXCEPT ![s] = "ready"]
  /\ replies' = [replies EXCEPT ![s] = {}] /\ lost' = [lost EXCEPT ![s] = 0]
  /\ UNCHANGED <<msg, copies, ghostVars, pipeVars>> /\ PeerOnly

\* The client does not wait for the response any longer; if there is one, it is
\* skipped.
GiveUp(s) ==
  /\ alive[s] /\ client[s] = "request" /\ copies[s] = 0
  /\ IF accepted[s] > 0 THEN lost' = [lost EXCEPT ![s] = 0]
     ELSE lost[s] < MaxLost /\ lost' = [lost EXCEPT ![s] = @ + 1]
  /\ client' = [client EXCEPT ![s] = "ready"] /\ replies' = [replies EXCEPT ![s] = {}]
  /\ UNCHANGED <<msg, copies, ghostVars, pipeVars>> /\ PeerOnly

PeerCloses(s) ==
  /\ alive[s] /\ sock[s] \in {"pending", "open"}
  /\ alive' = [alive EXCEPT ![s] = FALSE]
  /\ UNCHANGED <<sock, pipeOf, conn, nextConn, clientVars, ghostVars>> /\ PeerOnly

-----------------------------------------------------------------------------
(* NamedPipeServer.  An operator named ..Fault is a plausible bug in the one   *)
(* that follows it; no specification uses it.                                  *)

\* info->clients.size() >= info->maxClients (the fault: >)
RoomFault(p) == MaxClients[p] + 1 - Cardinality(clients[p])
Room(p) == MaxClients[p] - Cardinality(clients[p])

\* registerClient: a new session at this address.
Register(new) == session' = [s \in Sockets |->
                   IF s \in new THEN [NoSession EXCEPT !.exists = TRUE] ELSE session[s]]

\* The peers of sockets whose objects wait for their deletion do not matter.
Forget(gone) ==
  /\ alive'   = [s \in Sockets |-> s \notin gone /\ alive[s]]
  /\ client'  = [s \in Sockets |-> IF s \in gone THEN "none" ELSE client[s]]
  /\ msg'     = [s \in Sockets |-> IF s \in gone THEN NoMsg ELSE msg[s]]
  /\ copies'  = [s \in Sockets |-> IF s \in gone THEN 0 ELSE copies[s]]
  /\ replies' = [s \in Sockets |-> IF s \in gone THEN {} ELSE replies[s]]
  /\ lost'    = [s \in Sockets |-> IF s \in gone THEN 0 ELSE lost[s]]
  /\ accepted' = [s \in Sockets |-> IF s \in gone THEN 0 ELSE accepted[s]]
  /\ runs'    = [s \in Sockets |-> IF s \in gone THEN 0 ELSE runs[s]]

\* onNewConnection: pending sockets are tracked and registered while there is
\* room, and turned away after that.
OnNewConnection(p) ==
  LET waiting == {s \in Sockets : sock[s] = "pending" /\ pipeOf[s] = p}
  IN /\ svc = "up" /\ waiting # {}
     /\ \E new \in SUBSET waiting :
          /\ IF Cardinality(waiting) <= Room(p) THEN new = waiting
                                                ELSE Cardinality(new) = Room(p)
          /\ sock' = [s \in Sockets |-> IF s \in new THEN "open"
                        ELSE IF s \in waiting THEN "deleted" ELSE sock[s]]
          /\ Forget(waiting \ new)
          /\ clients' = [clients EXCEPT ![p] = @ \cup new]
          /\ typeOf' = [s \in Sockets |-> IF s \in new THEN p ELSE typeOf[s]]
          /\ Register(new)
     /\ UNCHANGED <<pipeOf, conn, nextConn, svcVars>>

\* onClientDisconnected and unregisterClient, for the pipe type found for the
\* socket (the faults: the entry stays tracked; the session stays).
UntrackFault(s, type) == UNCHANGED clients
Untrack(s, type) ==
  clients' = IF type \in Pipes THEN [clients EXCEPT ![type] = @ \ {s}] ELSE clients

UnregisterFault(s, type) == UNCHANGED session
Unregister(s, type) ==
  session' = IF type \in Pipes THEN [session EXCEPT ![s] = NoSession] ELSE session

Disconnected(s, type) ==
  /\ Untrack(s, type) /\ Unregister(s, type)
  /\ typeOf' = [typeOf EXCEPT ![s] = "Unknown"]
  /\ sock' = [sock EXCEPT ![s] = "deleted"]     \* deleteLater
  /\ Forget({s})

OnClientDisconnected(s) ==
  /\ svc = "up" /\ sock[s] = "open" /\ ~alive[s]
  /\ Disconnected(s, typeOf[s])
  /\ UNCHANGED <<pipeOf, conn, nextConn, svcVars>>

\* The event loop deletes the object; its address is free again.
DeleteLater(s) ==
  /\ sock[s] = "deleted" /\ svc # "stopping"
  /\ sock' = [sock EXCEPT ![s] = "free"]
  /\ pipeOf' = [pipeOf EXCEPT ![s] = "Unknown"] /\ conn' = [conn EXCEPT ![s] = 0]
  /\ UNCHANGED <<alive, nextConn, trackVars, session, svcVars, clientVars, ghostVars>>

-----------------------------------------------------------------------------
(* SecureCommandHandler::processCommand *)

\* validateSequence (the faults: without the rollover; < for <=)
ValidNoRolloverFault(last, n) == n > last \/ n = 0
ValidSequenceFault(last, n) ==
  n >= last \/ n = 0 \/ (last > High /\ n < Low)
ValidSequence(last, n) ==
  n > last \/ n = 0 \/ (last > High /\ n < Low)

\* The registered, authenticated client with this token.
MayCommandFault(s, token) == session[s].exists
MayCommand(s, token) ==
  session[s].exists /\ session[s].auth /\ token = session[s].token

\* The number the session keeps.
KeptNumber(s) == SeqOf(s)

\* A packet with token 0 and the service's secret asks for a session: a new token,
\* numbers from 0.
Authenticate(s) ==
  /\ msg[s].kind = "auth"
  /\ session' = [session EXCEPT ![s] =
                   IF @.exists THEN [exists |-> TRUE, auth |-> TRUE, token |-> conn[s], last |-> 0]
                               ELSE @]
  /\ UNCHANGED ghostVars

\* A request passes the checks of session and number.
Passes(s) ==
  /\ msg[s].kind \in {"request", "garbled"}
  /\ MayCommand(s, msg[s].token) /\ ValidSequence(session[s].last, SeqOf(s))

\* Its number is kept; if its payload is a command, CommandProc runs it.
ProcessRequest(s) ==
  /\ Passes(s)
  /\ session' = [session EXCEPT ![s].last = KeptNumber(s)]
  /\ accepted' = [accepted EXCEPT ![s] = @ + 1]
  /\ runs' = [runs EXCEPT ![s] = IF msg[s].kind = "request" THEN @ + 1 ELSE @]

\* Authentication fails, or a check of the request.
Refused(s) == msg[s].kind # "auth" /\ ~Passes(s)

\* onClientReadyRead: everything that is there is read as one packet.  More than
\* one copy in it may be refused by parsePacket (external) or be taken for the
\* first.  sendResponse answers a client that is still tracked and connected, if
\* there is a response.
OnClientReadyRead(s) ==
  /\ svc = "up" /\ sock[s] = "open" /\ copies[s] > 0 /\ typeOf[s] \in Pipes
  /\ copies' = [copies EXCEPT ![s] = 0]
  /\ \/ /\ Authenticate(s) \/ ProcessRequest(s)
        /\ replies' = IF alive[s] /\ msg[s].kind # "garbled"
                      THEN [replies EXCEPT ![s] = @ \cup {msg[s].no}] ELSE replies
     \/ (Refused(s) \/ copies[s] > 1) /\ UNCHANGED <<replies, session, ghostVars>>
  /\ UNCHANGED <<pipeVars, trackVars, svcVars, client, msg, lost>>

-----------------------------------------------------------------------------
(* WindowsService::cleanup: stopAll, then the handler is deleted. *)

BeginCleanup ==
  /\ svc = "up" /\ svc' = "stopping"
  /\ walk' = [NoWalk EXCEPT !.pipes = Pipes]
  /\ UNCHANGED <<pipeVars, trackVars, session, clientVars, ghostVars>>

\* stopPipe begins to walk over info->clients.
StopPipe(p) ==
  /\ svc = "stopping" /\ p \in walk.pipes /\ walk.all = {}
  /\ walk' = [pipes |-> walk.pipes \ {p}, all |-> clients[p], todo |-> clients[p]]
  /\ UNCHANGED <<svc, pipeVars, trackVars, session, clientVars, ghostVars>>

\* The pipe type onClientDisconnected finds when disconnectFromServer calls it:
\* the entry of m_clientToPipeType is removed before that.
TypeAtStop(s) == "Unknown"

StopClient(s) ==
  /\ svc = "stopping" /\ s \in walk.todo
  /\ walk' = [walk EXCEPT !.todo = @ \ {s}]
  /\ Disconnected(s, TypeAtStop(s))
  /\ UNCHANGED <<svc, pipeOf, conn, nextConn>>

\* info->clients.clear()
StopPipeEnds ==
  /\ svc = "stopping" /\ walk.all # {} /\ walk.todo = {}
  /\ clients' = [p \in Pipes |-> clients[p] \ walk.all]
  /\ walk' = [walk EXCEPT !.all = {}]
  /\ UNCHANGED <<svc, pipeVars, typeOf, session, clientVars, ghostVars>>

EndCleanup ==
  /\ svc = "stopping" /\ walk = NoWalk
  /\ svc' = "down" /\ session' = [s \in Sockets |-> NoSession]
  /\ UNCHANGED <<walk, pipeVars, trackVars, clientVars, ghostVars>>

-----------------------------------------------------------------------------
Next == \/ \E s \in Sockets : \/ \E p \in Pipes : Connect(s, p)
                              \/ \E kind \in {"request", "garbled"} : SendRequest(s, kind)
                              \/ SendEarly(s)   \/ SendAuth(s) \/ SendAgain(s)
                              \/ Receive(s)     \/ GiveUp(s)   \/ PeerCloses(s)
                              \/ OnClientDisconnected(s)       \/ DeleteLater(s)
                              \/ OnClientReadyRead(s)          \/ StopClient(s)
        \/ \E p \in Pipes : OnNewConnection(p) \/ StopPipe(p)
        \/ BeginCleanup \/ StopPipeEnds \/ EndCleanup

Spec == Init /\ [][Next]_vars

\* The event loop runs.
FairSpec == /\ Spec
            /\ \A s \in Sockets : WF_vars(OnClientDisconnected(s))
            /\ \A p \in Pipes : WF_vars(OnNewConnection(p))

-----------------------------------------------------------------------------
(* Properties *)

Sessions == [exists : BOOLEAN, auth : BOOLEAN, token : 0..MaxConns, last : 0..(Modulus - 1)]
Messages == [kind : {"none", "auth", "wrongAuth", "request", "garbled"},
             token : 0..MaxConns, no : 0..MaxRequests]
Walks    == [pipes : SUBSET Pipes, all : SUBSET Sockets, todo : SUBSET Sockets]

TypeOK ==
  /\ sock \in [Sockets -> {"free", "pending", "open", "deleted"}]
  /\ alive \in [Sockets -> BOOLEAN]
  /\ pipeOf \in [Sockets -> Pipes \cup {"Unknown"}]
  /\ typeOf \in [Sockets -> Pipes \cup {"Unknown"}]
  /\ conn \in [Sockets -> 0..MaxConns] /\ nextConn \in 1..(MaxConns + 1)
  /\ \A p \in Pipes : clients[p] \subseteq Sockets /\ Cardinality(clients[p]) <= MaxClients[p]
  /\ DOMAIN clients = Pipes
  /\ session \in [Sockets -> Sessions]
  /\ svc \in {"up", "stopping", "down"}
  /\ walk \in Walks
  /\ client \in [Sockets -> {"none", "new", "early", "auth", "ready", "request"}]
  /\ msg \in [Sockets -> Messages]
  /\ copies \in [Sockets -> 0..MaxCopies]
  /\ replies \in [Sockets -> SUBSET (0..MaxRequests)]
  /\ lost \in [Sockets -> 0..MaxLost]
  /\ accepted \in [Sockets -> Nat] /\ runs \in [Sockets -> Nat]

\* The three tables that know the clients agree: a socket is in one pipe's client
\* table exactly while its pipe type is known and it has a session, and then it
\* is the socket of an object that is not about to be deleted.  After the
\* cleanup all three are empty; during it, stopPipe's walk over a table is not
\* disturbed by the disconnections it causes.
TablesAgree ==
  /\ svc # "stopping" =>
       /\ \A s \in Sockets, p \in Pipes : s \in clients[p] <=> typeOf[s] = p
       /\ \A s \in Sockets : session[s].exists <=> s \in Tracked
       /\ \A s \in Tracked : sock[s] = "open" /\ svc = "up"
  /\ svc = "stopping" => walk.all \subseteq Tracked /\ walk.todo \subseteq walk.all

\* A connection that has not authenticated itself has no authenticated session,
\* and no request is run for it: neither the address of an earlier client, nor its
\* token, nor a wrong secret opens one.
OnlyAuthenticated ==
  \A s \in Sockets : client[s] = "early" => runs[s] = 0 /\ ~(session[s].exists /\ session[s].auth)

\* The next request of a client that counts by one is always accepted: when the
\* counter goes over its end, too, when up to MaxLost requests before it were lost,
\* and when the one before it was accepted but could not be run.
NextNumberAccepted ==
  \A s \in Sockets :
    (client[s] = "request" /\ session[s].exists /\ accepted[s] = 0)
      => ValidSequence(session[s].last, SeqOf(s))

\* A request that is sent again, because its response took long, is processed
\* once, unless its number is 0.
ProcessedOnce ==
  \A s \in Sockets : client[s] = "request" /\ SeqOf(s) # 0 => runs[s] <= 1

\* "Sequence must always increase (with rollover handling)": no request is
\* processed twice.  (Does not hold: number 0 is accepted after any number,
\* itself among them.)
SequenceIncreases ==
  \A s \in Sockets : client[s] = "request" => runs[s] <= 1

\* The slot of a client that went away becomes free for another one.
SlotsComeBack ==
  \A s \in Sockets : (s \in Tracked /\ ~alive[s] /\ svc = "up")
                       ~> (s \notin Tracked \/ svc # "up")
=============================================================================
