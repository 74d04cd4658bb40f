------------------------- MODULE PipeSessionsProofs -------------------------
(***************************************************************************)
(* Proofs about PipeSessions, for any number of sockets, pipes, clients of *)
(* a pipe, connections and requests, and for every modulus and window of   *)
(* sequence numbers: the three tables that know the clients agree, only    *)
(* clients that have authenticated themselves are served, the next number  *)
(* of a client is always accepted, also when up to MaxLost before it were  *)
(* lost, and no number but 0 twice.                                        *)
(***************************************************************************)
EXTENDS PipeSessions, FiniteSetTheorems, TLAPS

-----------------------------------------------------------------------------
(* The invariant *)

\* The n-th number of a client of pipe p, and the last number its session keeps
\* once its n-th request has been accepted.
NumberOf(p, n) == IF p \in ZeroSkippers THEN ((FirstNumber + n - 2) % (Modulus - 1)) + 1
                                        ELSE (FirstNumber + n - 1) % Modulus
Reached(p, n)  == IF n = 0 THEN 0 ELSE NumberOf(p, n)

\* The tables while the service is up, ...
UpTables ==
  /\ \A s \in Sockets, p \in Pipes : s \in clients[p] <=> typeOf[s] = p
  /\ \A s \in Sockets : session[s].exists <=> typeOf[s] \in Pipes
  /\ \A s \in Sockets : typeOf[s] \in Pipes => sock[s] = "open"

\* ... while it stops: the pipes that are not stopped yet are as they were; of
\* the others, the clients left are those of the walk, and those with a pipe
\* type are still to be taken.
StopTables ==
  /\ walk.todo \subseteq walk.all
  /\ \A s \in Sockets, p \in walk.pipes : s \in clients[p] <=> typeOf[s] = p
  /\ \A p \in Pipes \ walk.pipes : clients[p] \subseteq walk.all
  /\ \A s \in walk.all : \E p \in Pipes \ walk.pipes : s \in clients[p]
  /\ \A s \in Sockets : typeOf[s] \in Pipes \ walk.pipes => s \in walk.todo
  /\ \A s \in walk.all : typeOf[s] \notin walk.pipes

\* ... and when it is down.
DownTables ==
  /\ \A p \in Pipes : clients[p] = {}
  /\ \A s \in Sockets : typeOf[s] \notin Pipes /\ ~session[s].exists

TableInv == /\ svc = "up" => UpTables
            /\ svc = "stopping" => StopTables
            /\ svc = "down" => DownTables

\* What a peer has sent last, by what it waits for, and which responses there
\* can be: none from before its authentication, none that is ahead of it; how
\* often it was accepted and run; and how many before it were lost.
ClientInv(s) ==
  /\ client[s] = "none" <=> sock[s] \in {"free", "deleted"}
  /\ client[s] \in {"none", "new"} => msg[s] = NoMsg
  /\ client[s] = "none" => ~alive[s]
  /\ client[s] = "early" => msg[s].kind \in {"request", "wrongAuth"} /\ msg[s].no = 0
  /\ client[s] = "auth" => msg[s].kind = "auth" /\ msg[s].no = 0
  /\ client[s] = "ready" => \/ msg[s].kind = "auth" /\ msg[s].no = 0
                            \/ msg[s].kind \in {"request", "garbled"} /\ msg[s].no > 0
  /\ client[s] = "request" => msg[s].kind \in {"request", "garbled"} /\ msg[s].no > 0
  /\ client[s] \in {"none", "new", "early", "auth"} =>
       runs[s] = 0 /\ accepted[s] = 0 /\ lost[s] = 0
  /\ client[s] \in {"none", "new", "early"} => replies[s] = {}
  /\ sock[s] = "pending" => client[s] \in {"new", "early", "auth"} /\ replies[s] = {}
  /\ \A r \in replies[s] : r <= msg[s].no
  /\ client[s] = "request" /\ msg[s].no \in replies[s] => accepted[s] > 0
  /\ client[s] = "request" /\ NumberOf(pipeOf[s], msg[s].no) # 0 => accepted[s] <= 1
  /\ runs[s] <= accepted[s]
  /\ client[s] = "ready" => lost[s] <= msg[s].no /\ (copies[s] > 0 => lost[s] = 0)
  /\ client[s] = "request" => lost[s] < msg[s].no

\* How far the session of an address has come, by what its peer waits for.
SessionInv(s) ==
  session[s].exists =>
    /\ client[s] \in {"new", "early"} => ~session[s].auth
    /\ client[s] \in {"new", "early", "auth"} => session[s].last = 0
    /\ client[s] = "ready" => session[s].last = Reached(pipeOf[s], msg[s].no - lost[s])
    /\ client[s] = "request" =>
         session[s].last = Reached(pipeOf[s], IF accepted[s] = 0 THEN (msg[s].no - 1) - lost[s]
                                              ELSE msg[s].no)

PeerInv == \A s \in Sockets : ClientInv(s) /\ SessionInv(s)

IInv == TypeOK /\ TableInv /\ PeerInv

-----------------------------------------------------------------------------
(* Sequence numbers *)

\* Quotient and remainder.
LEMMA Division ==
  ASSUME NEW m \in Nat, m > 0, NEW x \in Int
  PROVE  x = m * (x \div m) + (x % m) /\ x \div m \in Int /\ x % m \in 0..(m - 1)
OBVIOUS

\* A multiple by one or more is not smaller.
LEMMA Multiple == ASSUME NEW m \in Nat, NEW a \in Int, a >= 1 PROVE m * a >= m
OBVIOUS

\* There is one remainder.
LEMMA Remainder ==
  ASSUME NEW m \in Nat, m > 0, NEW q \in Int, NEW r \in 0..(m - 1), NEW x \in Int,
         x = m * q + r
  PROVE  x % m = r
<1> DEFINE p == x \div m
           k == x % m
<1>1. p \in Int /\ k \in 0..(m - 1) /\ x = m * p + k
  BY Division
<1> HIDE DEF p, k
<1>2. m * (p - q) = r - k /\ m * (q - p) = k - r
  BY <1>1
<1>3. ~(p - q >= 1)
  <2>1. p - q >= 1 => m * (p - q) >= m
    BY <1>1, Multiple
  <2> QED BY <1>1, <1>2, <2>1
<1>4. ~(q - p >= 1)
  <2>1. q - p >= 1 => m * (q - p) >= m
    BY <1>1, Multiple
  <2> QED BY <1>1, <1>2, <2>1
<1>5. k = r
  BY <1>1, <1>3, <1>4
<1> QED BY <1>5 DEF k

\* Counting on by no more than the modulus goes over the last remainder once.
LEMMA NextRemainder ==
  ASSUME NEW m \in Nat, m > 0, NEW x \in Int, NEW j \in 0..m
  PROVE  /\ (x % m) + j >= m => (x + j) % m = (x % m) + j - m
         /\ (x % m) + j < m => (x + j) % m = (x % m) + j
<1> DEFINE q == x \div m
           r == x % m
<1>1. q \in Int /\ r \in 0..(m - 1) /\ x = m * q + r
  BY Division
<1> HIDE DEF q, r
<1>2. ASSUME r + j >= m PROVE (x + j) % m = r + j - m
  <2>1. /\ x + j = m * (q + 1) + (r + j - m) /\ r + j - m \in 0..(m - 1)
        /\ q + 1 \in Int /\ x + j \in Int
    BY <1>1, <1>2
  <2> QED BY <2>1, Remainder
<1>3. ASSUME r + j < m PROVE (x + j) % m = r + j
  <2>1. x + j = m * q + (r + j) /\ r + j \in 0..(m - 1) /\ x + j \in Int
    BY <1>1, <1>3
  <2> QED BY <1>1, <2>1, Remainder
<1> QED BY <1>2, <1>3 DEF r

\* Numbers of requests are numbers of the protocol; one that is sent again is not
\* valid after itself, unless it is 0.
LEMMA Numbers ==
  ASSUME NEW p, NEW n \in Nat
  PROVE  /\ NumberOf(p, n) \in 0..(Modulus - 1) /\ Reached(p, n) \in 0..(Modulus - 1)
         /\ ValidSequence(NumberOf(p, n), NumberOf(p, n)) => NumberOf(p, n) = 0
<1>1. /\ Modulus \in Nat /\ High \in Nat /\ Low \in Nat /\ FirstNumber \in Nat
      /\ 1 < Low /\ Low < High /\ High < Modulus - 1
  BY NumbersAssumption
<1>2. /\ FirstNumber + n - 2 \in Int /\ FirstNumber + n - 1 \in Int
      /\ Modulus \in Nat /\ Modulus > 0 /\ Modulus - 1 \in Nat /\ Modulus - 1 > 0
  BY <1>1
<1>3. /\ (FirstNumber + n - 2) % (Modulus - 1) \in 0..((Modulus - 1) - 1)
      /\ (FirstNumber + n - 1) % Modulus \in 0..(Modulus - 1)
  BY <1>2, Division
<1>4. NumberOf(p, n) \in 0..(Modulus - 1)
  BY <1>1, <1>3 DEF NumberOf
<1>5. Reached(p, n) \in 0..(Modulus - 1)
  BY <1>1, <1>4 DEF Reached
<1>6. ASSUME ValidSequence(NumberOf(p, n), NumberOf(p, n)) PROVE NumberOf(p, n) = 0
  <2> DEFINE k == NumberOf(p, n)
  <2>1. k \in Int
    BY <1>1, <1>4
  <2> HIDE DEF k
  <2>2. k > k \/ k = 0 \/ (k > High /\ k < Low)
    BY <1>6 DEF ValidSequence, k
  <2>3. k = 0
    BY <1>1, <2>1, <2>2
  <2> QED BY <2>3 DEF k
<1> QED BY <1>4, <1>5, <1>6

\* A client's number is valid after the last one that was accepted, when no more
\* than MaxLost between them were lost.
LEMMA NextNumber ==
  ASSUME NEW p, NEW n \in Nat \ {0}, NEW j \in 1..(MaxLost + 1), j <= n
  PROVE  ValidSequence(Reached(p, n - j), NumberOf(p, n))
<1>1. /\ Modulus \in Nat /\ High \in Nat /\ Low \in Nat /\ FirstNumber \in Nat /\ MaxLost \in Nat
      /\ MaxLost + 1 < Low /\ Low < High /\ High + MaxLost + 1 < Modulus
  BY NumbersAssumption
<1>2. /\ n - j \in Nat /\ j \in Nat /\ 1 <= j /\ j < Low /\ High + j < Modulus
      /\ j \in 0..Modulus /\ j \in 0..(Modulus - 1)
  BY <1>1
<1>3. CASE n = j
  <2>1. Reached(p, n - j) = 0
    BY <1>3 DEF Reached
  <2>2. NumberOf(p, n) \in 0..(Modulus - 1)
    BY Numbers
  <2> QED BY <1>1, <2>1, <2>2 DEF ValidSequence
<1>4. CASE n # j
  <2>1. Reached(p, n - j) = NumberOf(p, n - j)
    BY <1>2, <1>4 DEF Reached
  <2>2. CASE p \in ZeroSkippers
    <3> DEFINE x == FirstNumber + (n - j) - 2
               k == x % (Modulus - 1)
               l == (x + j) % (Modulus - 1)
    <3>1. Modulus - 1 \in Nat /\ Modulus - 1 > 0 /\ x \in Int /\ x + j = FirstNumber + n - 2
      BY <1>1, <1>2
    <3>2. NumberOf(p, n - j) = k + 1 /\ NumberOf(p, n) = l + 1
      BY <2>2, <3>1 DEF NumberOf
    <3> HIDE DEF x
    <3>3. k \in 0..((Modulus - 1) - 1)
      BY <3>1, Division
    <3>4. /\ k + j >= Modulus - 1 => l = k + j - (Modulus - 1)
          /\ k + j < Modulus - 1 => l = k + j
      BY <1>2, <3>1, NextRemainder
    <3> HIDE DEF k, l
    <3>5. ValidSequence(k + 1, l + 1)
      BY <1>1, <1>2, <3>3, <3>4 DEF ValidSequence
    <3> QED BY <2>1, <3>2, <3>5
  <2>3. CASE p \notin ZeroSkippers
    <3> DEFINE x == FirstNumber + (n - j) - 1
               k == x % Modulus
               l == (x + j) % Modulus
    <3>1. Modulus > 0 /\ x \in Int /\ x + j = FirstNumber + n - 1
      BY <1>1, <1>2
    <3>2. NumberOf(p, n - j) = k /\ NumberOf(p, n) = l
      BY <2>3, <3>1 DEF NumberOf
    <3> HIDE DEF x
    <3>3. k \in 0..(Modulus - 1)
      BY <1>1, <3>1, Division
    <3>4. /\ k + j >= Modulus => l = k + j - Modulus
          /\ k + j < Modulus => l = k + j
      BY <1>1, <1>2, <3>1, NextRemainder
    <3> HIDE DEF k, l
    <3>5. ValidSequence(k, l)
      BY <1>1, <1>2, <3>3, <3>4 DEF ValidSequence
    <3> QED BY <2>1, <3>2, <3>5
  <2> QED BY <2>2, <2>3
<1> QED BY <1>3, <1>4

-----------------------------------------------------------------------------
(* Types *)

\* The parts of a session, and those that are built.
LEMMA SessionParts ==
  /\ \A e \in Sessions : /\ e.exists \in BOOLEAN /\ e.auth \in BOOLEAN
                         /\ e.token \in 0..MaxConns /\ e.last \in 0..(Modulus - 1)
                         /\ e = [exists |-> e.exists, auth |-> e.auth, token |-> e.token,
                                 last |-> e.last]
  /\ \A x, a \in BOOLEAN, t \in 0..MaxConns, l \in 0..(Modulus - 1) :
       [exists |-> x, auth |-> a, token |-> t, last |-> l] \in Sessions
BY DEF Sessions

\* A session that is changed.
LEMMA SessionChanged ==
  ASSUME NEW e \in Sessions, NEW v
  PROVE  /\ [e EXCEPT !.exists = v] =
              [exists |-> v, auth |-> e.auth, token |-> e.token, last |-> e.last]
         /\ [e EXCEPT !.last = v] =
              [exists |-> e.exists, auth |-> e.auth, token |-> e.token, last |-> v]
<1> DEFINE x == e.exists
           a == e.auth
           t == e.token
           l == e.last
<1>1. e = [exists |-> x, auth |-> a, token |-> t, last |-> l]
  BY SessionParts
<1> HIDE DEF x, a, t, l
<1>2. [e EXCEPT !.exists = v] = [exists |-> v, auth |-> a, token |-> t, last |-> l]
  BY <1>1
<1>3. [e EXCEPT !.last = v] = [exists |-> x, auth |-> a, token |-> t, last |-> v]
  BY <1>1
<1> QED BY <1>2, <1>3 DEF x, a, t, l

\* An empty session, one that is new, and the numbers of which there always are some.
LEMMA Empties ==
  /\ NoSession \in Sessions /\ ~NoSession.exists
  /\ [NoSession EXCEPT !.exists = TRUE] =
       [exists |-> TRUE, auth |-> FALSE, token |-> 0, last |-> 0]
  /\ [NoSession EXCEPT !.exists = TRUE] \in Sessions
  /\ NoMsg \in Messages /\ NoWalk \in Walks
  /\ {0, 1} \subseteq 1..(MaxConns + 1) \cup {0} /\ 0 \in 0..MaxConns /\ 0 \in 0..MaxRequests
  /\ 0 \in 0..MaxCopies /\ 0 \in 0..MaxLost /\ 0 \in 0..(Modulus - 1)
<1>1. /\ 0 \in 0..MaxConns /\ 0 \in 0..MaxRequests /\ 0 \in 0..MaxCopies
      /\ {0, 1} \subseteq 1..(MaxConns + 1) \cup {0}
  BY BoundsAssumption
<1>2. 0 \in 0..(Modulus - 1) /\ 0 \in 0..MaxLost
  BY NumbersAssumption
<1>3. NoSession \in Sessions /\ ~NoSession.exists
  BY <1>1, <1>2, SessionParts DEF NoSession
<1>4. [NoSession EXCEPT !.exists = TRUE] =
        [exists |-> TRUE, auth |-> FALSE, token |-> 0, last |-> 0]
  <2>1. NoSession.auth = FALSE /\ NoSession.token = 0 /\ NoSession.last = 0
    BY DEF NoSession
  <2> QED BY <1>3, <2>1, SessionChanged
<1>5. [NoSession EXCEPT !.exists = TRUE] \in Sessions
  <2>1. [exists |-> TRUE, auth |-> FALSE, token |-> 0, last |-> 0] \in Sessions
    BY <1>1, <1>2, SessionParts
  <2> QED BY <1>4, <2>1
<1>6. NoMsg \in Messages
  BY <1>1 DEF NoMsg, Messages
<1>7. NoWalk \in Walks
  BY DEF NoWalk, Walks
<1> QED BY <1>1, <1>2, <1>3, <1>4, <1>5, <1>6, <1>7

\* What is forgotten of the peers of some sockets.
LEMMA ForgetTypes ==
  ASSUME TypeOK, NEW gone, Forget(gone)
  PROVE  /\ alive' \in [Sockets -> BOOLEAN]
         /\ client' \in [Sockets -> {"none", "new", "early", "auth", "ready", "request"}]
         /\ msg' \in [Sockets -> Messages] /\ copies' \in [Sockets -> 0..MaxCopies]
         /\ replies' \in [Sockets -> SUBSET (0..MaxRequests)] /\ lost' \in [Sockets -> 0..MaxLost]
         /\ accepted' \in [Sockets -> Nat] /\ runs' \in [Sockets -> Nat]
<1>1. alive' \in [Sockets -> BOOLEAN]
  BY DEF Forget, TypeOK
<1>2. client' \in [Sockets -> {"none", "new", "early", "auth", "ready", "request"}]
  BY DEF Forget, TypeOK
<1>3. msg' \in [Sockets -> Messages]
  BY Empties DEF Forget, TypeOK
<1>4. copies' \in [Sockets -> 0..MaxCopies]
  BY Empties DEF Forget, TypeOK
<1>5. replies' \in [Sockets -> SUBSET (0..MaxRequests)]
  BY DEF Forget, TypeOK
<1>6. accepted' \in [Sockets -> Nat] /\ runs' \in [Sockets -> Nat]
  BY DEF Forget, TypeOK
<1>7. lost' \in [Sockets -> 0..MaxLost]
  BY Empties DEF Forget, TypeOK
<1> QED BY <1>1, <1>2, <1>3, <1>4, <1>5, <1>6, <1>7

\* A client table stays within its bound: it grows by no more than its room, ...
LEMMA TableGrows ==
  ASSUME TypeOK, NEW p \in Pipes, NEW waiting \in SUBSET Sockets, NEW new \in SUBSET waiting,
         IF Cardinality(waiting) <= Room(p) THEN new = waiting
                                            ELSE Cardinality(new) = Room(p)
  PROVE  clients[p] \cup new \subseteq Sockets /\ Cardinality(clients[p] \cup new) <= MaxClients[p]
<1>1. clients[p] \subseteq Sockets /\ Cardinality(clients[p]) <= MaxClients[p]
  BY DEF TypeOK
<1>2. IsFiniteSet(clients[p]) /\ IsFiniteSet(new) /\ IsFiniteSet(waiting)
  BY <1>1, FS_Subset, SocketsAssumption
<1>3. MaxClients[p] \in Nat
  BY MaxClientsAssumption
<1>4. /\ Cardinality(clients[p]) \in Nat /\ Cardinality(new) \in Nat
      /\ Cardinality(clients[p] \cap new) \in Nat
      /\ Cardinality(clients[p] \cup new) =
           Cardinality(clients[p]) + Cardinality(new) - Cardinality(clients[p] \cap new)
  BY <1>2, FS_CardinalityType, FS_Union, FS_Intersection
<1>5. Cardinality(new) <= MaxClients[p] - Cardinality(clients[p])
  <2>1. CASE Cardinality(waiting) <= Room(p)
    BY <2>1 DEF Room
  <2>2. CASE ~(Cardinality(waiting) <= Room(p))
    BY <1>3, <1>4, <2>2 DEF Room
  <2> QED BY <2>1, <2>2
<1> QED BY <1>1, <1>3, <1>4, <1>5

\* ... and shrinks when clients go.
LEMMA TableShrinks ==
  ASSUME TypeOK, NEW p \in Pipes, NEW T \in SUBSET clients[p]
  PROVE  T \subseteq Sockets /\ Cardinality(T) <= MaxClients[p]
<1>1. clients[p] \subseteq Sockets /\ Cardinality(clients[p]) <= MaxClients[p]
  BY DEF TypeOK
<1>2. IsFiniteSet(clients[p])
  BY <1>1, FS_Subset, SocketsAssumption
<1>3. Cardinality(T) <= Cardinality(clients[p]) /\ Cardinality(T) \in Nat /\ Cardinality(clients[p]) \in Nat
  BY <1>2, FS_Subset, FS_CardinalityType
<1>4. MaxClients[p] \in Nat
  BY MaxClientsAssumption
<1> QED BY <1>1, <1>3, <1>4

\* A disconnection keeps the types.
LEMMA DisconnectedTypes ==
  ASSUME TypeOK, NEW s \in Sockets, NEW type, Disconnected(s, type),
         UNCHANGED <<pipeOf, conn, nextConn>>, svc' \in {"up", "stopping", "down"}, walk' \in Walks
  PROVE  TypeOK'
<1>1. /\ alive' \in [Sockets -> BOOLEAN]
      /\ client' \in [Sockets -> {"none", "new", "early", "auth", "ready", "request"}]
      /\ msg' \in [Sockets -> Messages] /\ copies' \in [Sockets -> 0..MaxCopies]
      /\ replies' \in [Sockets -> SUBSET (0..MaxRequests)] /\ lost' \in [Sockets -> 0..MaxLost]
      /\ accepted' \in [Sockets -> Nat] /\ runs' \in [Sockets -> Nat]
  BY ForgetTypes DEF Disconnected
<1>2. /\ sock' \in [Sockets -> {"free", "pending", "open", "deleted"}]
      /\ typeOf' \in [Sockets -> Pipes \cup {"Unknown"}]
  BY DEF Disconnected, TypeOK
<1>3. session' \in [Sockets -> Sessions]
  BY Empties DEF Disconnected, Unregister, TypeOK
<1>4. DOMAIN clients' = Pipes /\ \A p \in Pipes : clients'[p] \subseteq clients[p]
  BY DEF Disconnected, Untrack, TypeOK
<1>5. \A p \in Pipes : clients'[p] \subseteq Sockets /\ Cardinality(clients'[p]) <= MaxClients[p]
  BY <1>4, TableShrinks
<1> QED BY <1>1, <1>2, <1>3, <1>4, <1>5 DEF TypeOK

\* A peer that sends keeps the types.
LEMMA SendTypes ==
  ASSUME TypeOK, NEW s \in Sockets, NEW what \in Messages,
         NEW wait \in {"early", "auth", "request"}, Send(s, what, wait)
  PROVE  TypeOK'
<1>1. 1 \in 0..MaxCopies
  BY BoundsAssumption
<1>2. msg' \in [Sockets -> Messages] /\ copies' \in [Sockets -> 0..MaxCopies]
  BY <1>1 DEF TypeOK, Send
<1>3. client' \in [Sockets -> {"none", "new", "early", "auth", "ready", "request"}]
      /\ accepted' \in [Sockets -> Nat] /\ runs' \in [Sockets -> Nat]
  BY DEF TypeOK, Send
<1>4. UNCHANGED <<replies, lost, sock, alive, pipeOf, conn, nextConn, clients, typeOf, session, svc, walk>>
  BY DEF Send, PeerOnly, pipeVars, trackVars, svcVars
<1> QED BY <1>2, <1>3, <1>4 DEF TypeOK

\* Every step keeps the types.
LEMMA TypeStep == TypeOK /\ [Next]_vars => TypeOK'
<1> SUFFICES ASSUME TypeOK, [Next]_vars PROVE TypeOK'
  OBVIOUS
<1> USE DEF PeerOnly, pipeVars, trackVars, svcVars, clientVars, ghostVars
<1>1. ASSUME NEW s \in Sockets, NEW p \in Pipes, Connect(s, p) PROVE TypeOK'
  <2>1. nextConn \in 1..(MaxConns + 1) /\ nextConn <= MaxConns /\ MaxConns \in Nat
    BY <1>1, BoundsAssumption DEF Connect, TypeOK
  <2>2. nextConn + 1 \in 1..(MaxConns + 1) /\ nextConn \in 0..MaxConns
    BY <2>1
  <2>3. /\ sock' \in [Sockets -> {"free", "pending", "open", "deleted"}]
        /\ alive' \in [Sockets -> BOOLEAN] /\ pipeOf' \in [Sockets -> Pipes \cup {"Unknown"}]
        /\ client' \in [Sockets -> {"none", "new", "early", "auth", "ready", "request"}]
    BY <1>1 DEF Connect, TypeOK
  <2>4. conn' \in [Sockets -> 0..MaxConns] /\ nextConn' \in 1..(MaxConns + 1)
    BY <1>1, <2>2 DEF Connect, TypeOK
  <2> QED BY <1>1, <2>3, <2>4 DEF Connect, TypeOK
<1>2. ASSUME NEW s \in Sockets, SendEarly(s) PROVE TypeOK'
  <2>1. conn[s] \in 0..MaxConns /\ MaxConns \in Nat
    BY BoundsAssumption DEF TypeOK
  <2>2. CASE conn[s] > 1 /\ Send(s, [kind |-> "request", token |-> conn[s] - 1, no |-> 0], "early")
    <3>1. conn[s] - 1 \in 0..MaxConns
      BY <2>1, <2>2
    <3>2. [kind |-> "request", token |-> conn[s] - 1, no |-> 0] \in Messages
      BY <3>1, Empties DEF Messages
    <3> QED BY <2>2, <3>2, SendTypes
  <2>3. CASE Send(s, [kind |-> "wrongAuth", token |-> 0, no |-> 0], "early")
    <3>1. [kind |-> "wrongAuth", token |-> 0, no |-> 0] \in Messages
      BY Empties DEF Messages
    <3> QED BY <2>3, <3>1, SendTypes
  <2> QED BY <1>2, <2>2, <2>3 DEF SendEarly
<1>3. ASSUME NEW s \in Sockets, SendAuth(s) PROVE TypeOK'
  <2>1. [kind |-> "auth", token |-> 0, no |-> 0] \in Messages
    BY Empties DEF Messages
  <2> QED BY <1>3, <2>1, SendTypes DEF SendAuth
<1>4. ASSUME NEW s \in Sockets, NEW kind \in {"request", "garbled"}, SendRequest(s, kind) PROVE TypeOK'
  <2>1. conn[s] \in 0..MaxConns /\ msg[s] \in Messages
    BY DEF TypeOK
  <2>2. msg[s].no \in 0..MaxRequests /\ msg[s].no < MaxRequests /\ MaxRequests \in Nat
    BY <1>4, <2>1, BoundsAssumption DEF SendRequest, Messages
  <2>3. msg[s].no + 1 \in 0..MaxRequests
    BY <2>2
  <2>4. [kind |-> kind, token |-> conn[s], no |-> msg[s].no + 1] \in Messages
    BY <2>1, <2>3 DEF Messages
  <2> QED BY <1>4, <2>4, SendTypes DEF SendRequest
<1>5. ASSUME NEW s \in Sockets, SendAgain(s) PROVE TypeOK'
  <2>1. /\ copies[s] \in 0..MaxCopies /\ accepted[s] \in Nat /\ MaxCopies \in Nat
        /\ copies[s] + accepted[s] < MaxCopies
    BY <1>5, BoundsAssumption DEF SendAgain, TypeOK
  <2>2. copies[s] + 1 \in 0..MaxCopies
    BY <2>1
  <2>3. copies' \in [Sockets -> 0..MaxCopies]
    BY <1>5, <2>2 DEF SendAgain, TypeOK
  <2> QED BY <1>5, <2>3 DEF SendAgain, TypeOK
<1>6. ASSUME NEW s \in Sockets, Receive(s) PROVE TypeOK'
  <2>1. replies' \in [Sockets -> SUBSET (0..MaxRequests)]
        /\ client' \in [Sockets -> {"none", "new", "early", "auth", "ready", "request"}]
        /\ lost' \in [Sockets -> 0..MaxLost]
    BY <1>6, Empties DEF Receive, TypeOK
  <2> QED BY <1>6, <2>1 DEF Receive, TypeOK
<1>g. ASSUME NEW s \in Sockets, GiveUp(s) PROVE TypeOK'
  <2>1. lost[s] \in 0..MaxLost /\ MaxLost \in Nat
    BY NumbersAssumption DEF TypeOK
  <2>2. /\ replies' \in [Sockets -> SUBSET (0..MaxRequests)]
        /\ client' \in [Sockets -> {"none", "new", "early", "auth", "ready", "request"}]
    BY <1>g DEF GiveUp, TypeOK
  <2>3. lost' \in [Sockets -> 0..MaxLost]
    <3>1. CASE lost' = [lost EXCEPT ![s] = 0]
      BY <3>1, Empties DEF TypeOK
    <3>2. CASE lost[s] < MaxLost /\ lost' = [lost EXCEPT ![s] = @ + 1]
      <4>1. lost[s] + 1 \in 0..MaxLost
        BY <2>1, <3>2
      <4> QED BY <3>2, <4>1 DEF TypeOK
    <3> QED BY <1>g, <3>1, <3>2 DEF GiveUp
  <2> QED BY <1>g, <2>2, <2>3 DEF GiveUp, TypeOK
<1>7. ASSUME NEW s \in Sockets, PeerCloses(s) PROVE TypeOK'
  <2>1. alive' \in [Sockets -> BOOLEAN]
    BY <1>7 DEF PeerCloses, TypeOK
  <2> QED BY <1>7, <2>1 DEF PeerCloses, TypeOK
<1>8. ASSUME NEW s \in Sockets, OnClientDisconnected(s) PROVE TypeOK'
  <2>1. svc' \in {"up", "stopping", "down"} /\ walk' \in Walks
    BY <1>8 DEF OnClientDisconnected, TypeOK
  <2> QED BY <1>8, <2>1, DisconnectedTypes DEF OnClientDisconnected
<1>9. ASSUME NEW s \in Sockets, DeleteLater(s) PROVE TypeOK'
  <2>1. /\ sock' \in [Sockets -> {"free", "pending", "open", "deleted"}]
        /\ pipeOf' \in [Sockets -> Pipes \cup {"Unknown"}]
        /\ conn' \in [Sockets -> 0..MaxConns]
    BY <1>9, Empties DEF DeleteLater, TypeOK
  <2> QED BY <1>9, <2>1 DEF DeleteLater, TypeOK
<1>10. ASSUME NEW s \in Sockets, OnClientReadyRead(s) PROVE TypeOK'
  <2>1. UNCHANGED <<pipeVars, trackVars, svcVars, client, msg, lost>>
    BY <1>10 DEF OnClientReadyRead
  <2>2. copies' \in [Sockets -> 0..MaxCopies]
    BY <1>10, Empties DEF OnClientReadyRead, TypeOK
  <2>3. msg[s].no \in 0..MaxRequests /\ conn[s] \in 0..MaxConns /\ session[s] \in Sessions
        /\ runs[s] + 1 \in Nat /\ accepted[s] + 1 \in Nat
    BY DEF TypeOK, Messages
  <2>4. replies' \in [Sockets -> SUBSET (0..MaxRequests)]
    BY <1>10, <2>3 DEF OnClientReadyRead, TypeOK
  <2>5. /\ session' \in [Sockets -> Sessions]
        /\ accepted' \in [Sockets -> Nat] /\ runs' \in [Sockets -> Nat]
    <3>1. CASE Authenticate(s)
      <4>1. [exists |-> TRUE, auth |-> TRUE, token |-> conn[s], last |-> 0] \in Sessions
        BY <2>3, Empties, SessionParts
      <4> QED BY <3>1, <4>1 DEF Authenticate, TypeOK
    <3>2. CASE ProcessRequest(s)
      <4>1. SeqOf(s) \in 0..(Modulus - 1)
        <5>1. msg[s].no \in Nat /\ SeqOf(s) = NumberOf(pipeOf[s], msg[s].no)
          BY <2>3, BoundsAssumption DEF SeqOf, NumberOf
        <5> QED BY <5>1, Numbers
      <4> DEFINE e == session[s]
                 k == SeqOf(s)
      <4>2. /\ session' = [session EXCEPT ![s] = [e EXCEPT !.last = k]]
            /\ accepted' = [accepted EXCEPT ![s] = @ + 1]
            /\ runs' \in {runs, [runs EXCEPT ![s] = @ + 1]}
        <5>1. runs' = [runs EXCEPT ![s] = IF msg[s].kind = "request" THEN @ + 1 ELSE @]
          BY <3>2 DEF ProcessRequest
        <5>2. [runs EXCEPT ![s] = runs[s]] = runs
          BY DEF TypeOK
        <5>3. runs' \in {runs, [runs EXCEPT ![s] = @ + 1]}
          BY <5>1, <5>2
        <5> QED BY <3>2, <5>3 DEF ProcessRequest, KeptNumber
      <4>3. [e EXCEPT !.last = k] \in Sessions
        <5> HIDE DEF k
        <5>1. [e EXCEPT !.last = k] =
                [exists |-> e.exists, auth |-> e.auth, token |-> e.token, last |-> k]
          BY <2>3, SessionChanged
        <5>2. k \in 0..(Modulus - 1)
          BY <4>1 DEF k
        <5>3. [exists |-> e.exists, auth |-> e.auth, token |-> e.token, last |-> k] \in Sessions
          BY <2>3, <5>2, SessionParts
        <5> QED BY <5>1, <5>3
      <4> QED BY <2>3, <4>2, <4>3 DEF TypeOK
    <3>3. CASE UNCHANGED <<session, ghostVars>>
      BY <3>3 DEF TypeOK
    <3> QED BY <1>10, <3>1, <3>2, <3>3 DEF OnClientReadyRead
  <2> QED BY <2>1, <2>2, <2>4, <2>5 DEF TypeOK
<1>w. \A w \in Walks : w.pipes \subseteq Pipes /\ w.all \subseteq Sockets /\ w.todo \subseteq Sockets
  BY DEF Walks
<1>11. ASSUME NEW s \in Sockets, StopClient(s) PROVE TypeOK'
  <2>1. walk' \in Walks
    BY <1>11 DEF StopClient, TypeOK, Walks
  <2>2. svc' \in {"up", "stopping", "down"}
    BY <1>11 DEF StopClient, TypeOK
  <2> QED BY <1>11, <2>1, <2>2, DisconnectedTypes DEF StopClient
<1>12. ASSUME NEW p \in Pipes, OnNewConnection(p) PROVE TypeOK'
  <2> DEFINE waiting == {s \in Sockets : sock[s] = "pending" /\ pipeOf[s] = p}
  <2>1. PICK new \in SUBSET waiting :
          /\ IF Cardinality(waiting) <= Room(p) THEN new = waiting
                                                ELSE Cardinality(new) = Room(p)
          /\ sock' = [s \in Sockets |-> IF s \in new THEN "open"
                        ELSE IF s \in waiting THEN "deleted" ELSE sock[s]]
          /\ Forget(waiting \ new)
          /\ clients' = [clients EXCEPT ![p] = @ \cup new]
          /\ typeOf' = [s \in Sockets |-> IF s \in new THEN p ELSE typeOf[s]]
          /\ Register(new)
    BY <1>12 DEF OnNewConnection
  <2>2. waiting \in SUBSET Sockets
    OBVIOUS
  <2>3. UNCHANGED <<pipeOf, conn, nextConn, svcVars>>
    BY <1>12 DEF OnNewConnection
  <2> HIDE DEF waiting
  <2>4. sock' \in [Sockets -> {"free", "pending", "open", "deleted"}]
        /\ typeOf' \in [Sockets -> Pipes \cup {"Unknown"}]
    BY <2>1 DEF TypeOK
  <2>5. session' \in [Sockets -> Sessions]
    BY <2>1, Empties DEF Register, TypeOK
  <2>6. clients[p] \cup new \subseteq Sockets /\ Cardinality(clients[p] \cup new) <= MaxClients[p]
    BY <2>1, <2>2, TableGrows
  <2>7. /\ DOMAIN clients' = Pipes
        /\ \A q \in Pipes : clients'[q] \subseteq Sockets /\ Cardinality(clients'[q]) <= MaxClients[q]
    BY <2>1, <2>6 DEF TypeOK
  <2> QED BY <2>1, <2>3, <2>4, <2>5, <2>7, ForgetTypes DEF TypeOK
<1>13. ASSUME NEW p \in Pipes, StopPipe(p) PROVE TypeOK'
  <2>1. walk' \in Walks
    BY <1>13 DEF StopPipe, TypeOK, Walks
  <2> QED BY <1>13, <2>1 DEF StopPipe, TypeOK
<1>14. CASE BeginCleanup
  <2>1. walk' \in Walks
    BY <1>14 DEF BeginCleanup, NoWalk, Walks
  <2> QED BY <1>14, <2>1 DEF BeginCleanup, TypeOK
<1>15. CASE StopPipeEnds
  <2>1. walk' \in Walks
    BY <1>15 DEF StopPipeEnds, TypeOK, Walks
  <2>2. DOMAIN clients' = Pipes /\ \A p \in Pipes : clients'[p] \subseteq clients[p]
    BY <1>15 DEF StopPipeEnds
  <2>3. \A p \in Pipes : clients'[p] \subseteq Sockets /\ Cardinality(clients'[p]) <= MaxClients[p]
    BY <2>2, TableShrinks
  <2> QED BY <1>15, <2>1, <2>2, <2>3 DEF StopPipeEnds, TypeOK
<1>16. CASE EndCleanup
  BY <1>16, Empties DEF EndCleanup, TypeOK
<1>17. CASE UNCHANGED vars
  BY <1>17 DEF vars, TypeOK
<1> QED BY <1>1, <1>2, <1>3, <1>4, <1>5, <1>6, <1>7, <1>8, <1>9, <1>10, <1>11, <1>12,
           <1>13, <1>14, <1>15, <1>16, <1>17, <1>g DEF Next

-----------------------------------------------------------------------------
(* Tables *)

\* A new connection of a pipe: some of the pending sockets are accepted, the
\* others turned away.
LEMMA NewConnections ==
  ASSUME TypeOK, NEW p \in Pipes, OnNewConnection(p)
  PROVE  \E waiting \in SUBSET Sockets, new \in SUBSET Sockets :
           /\ new \subseteq waiting
           /\ \A s \in waiting : sock[s] = "pending"
           /\ sock' = [s \in Sockets |-> IF s \in new THEN "open"
                         ELSE IF s \in waiting THEN "deleted" ELSE sock[s]]
           /\ Forget(waiting \ new)
           /\ clients' = [clients EXCEPT ![p] = @ \cup new]
           /\ typeOf' = [s \in Sockets |-> IF s \in new THEN p ELSE typeOf[s]]
           /\ Register(new)
           /\ svc = "up" /\ UNCHANGED <<pipeOf, conn, nextConn, svc, walk>>
<1> DEFINE waiting == {s \in Sockets : sock[s] = "pending" /\ pipeOf[s] = p}
<1>1. PICK new \in SUBSET waiting :
        /\ sock' = [s \in Sockets |-> IF s \in new THEN "open"
                      ELSE IF s \in waiting THEN "deleted" ELSE sock[s]]
        /\ Forget(waiting \ new)
        /\ clients' = [clients EXCEPT ![p] = @ \cup new]
        /\ typeOf' = [s \in Sockets |-> IF s \in new THEN p ELSE typeOf[s]]
        /\ Register(new)
  BY DEF OnNewConnection
<1>2. svc = "up" /\ UNCHANGED <<pipeOf, conn, nextConn, svc, walk>>
  BY DEF OnNewConnection, svcVars
<1>3. waiting \in SUBSET Sockets /\ \A s \in waiting : sock[s] = "pending"
  OBVIOUS
<1> HIDE DEF waiting
<1>4. new \in SUBSET Sockets /\ new \subseteq waiting
  BY <1>1, <1>3
<1> QED BY <1>1, <1>2, <1>3, <1>4

\* Steps that leave the tables and the life of the sockets in them alone.
LEMMA TablesKept ==
  ASSUME TypeOK, TableInv, UNCHANGED <<clients, typeOf, svc, walk>>,
         \A s \in Sockets : sock[s] = "open" => sock'[s] = "open",
         \A s \in Sockets : session'[s].exists = session[s].exists
  PROVE  TableInv'
BY DEF TableInv, UpTables, StopTables, DownTables, TypeOK

\* Every step keeps the tables in agreement.
LEMMA TableStep == TypeOK /\ TableInv /\ [Next]_vars => TableInv'
<1> SUFFICES ASSUME TypeOK, TableInv, [Next]_vars PROVE TableInv'
  OBVIOUS
<1> USE DEF PeerOnly, pipeVars, trackVars, svcVars, clientVars, ghostVars
<1>t. /\ sock \in [Sockets -> {"free", "pending", "open", "deleted"}]
      /\ typeOf \in [Sockets -> Pipes \cup {"Unknown"}]
      /\ session \in [Sockets -> Sessions]
      /\ DOMAIN clients = Pipes /\ "Unknown" \notin Pipes
      /\ walk \in Walks
      /\ walk.pipes \subseteq Pipes /\ walk.all \subseteq Sockets /\ walk.todo \subseteq Sockets
  BY MaxClientsAssumption DEF TypeOK, Walks
<1>c. \A p \in Pipes : clients[p] \subseteq Sockets
  BY DEF TypeOK
<1>1. ASSUME NEW s \in Sockets, NEW p \in Pipes, Connect(s, p) PROVE TableInv'
  <2>1. /\ UNCHANGED <<clients, typeOf, svc, walk, session>>
        /\ \A t \in Sockets : sock[t] = "open" => sock'[t] = "open"
    BY <1>1, <1>t DEF Connect
  <2> QED BY <2>1, TablesKept
<1>2. ASSUME NEW s \in Sockets,
             \/ \E kind \in {"request", "garbled"} : SendRequest(s, kind)
             \/ SendEarly(s) \/ SendAuth(s) \/ SendAgain(s) \/ Receive(s) \/ GiveUp(s) \/ PeerCloses(s)
      PROVE  TableInv'
  <2>1. UNCHANGED <<clients, typeOf, svc, walk, session, sock>>
    BY <1>2 DEF SendEarly, SendAuth, SendRequest, Send, SendAgain, Receive, GiveUp,
                PeerCloses
  <2> QED BY <2>1, TablesKept
<1>3. ASSUME NEW s \in Sockets, DeleteLater(s) PROVE TableInv'
  <2>1. /\ UNCHANGED <<clients, typeOf, svc, walk, session>>
        /\ \A t \in Sockets : sock[t] = "open" => sock'[t] = "open"
    BY <1>3, <1>t DEF DeleteLater
  <2> QED BY <2>1, TablesKept
<1>4. ASSUME NEW s \in Sockets, OnClientReadyRead(s) PROVE TableInv'
  <2>1. UNCHANGED <<clients, typeOf, svc, walk, sock>>
    BY <1>4 DEF OnClientReadyRead
  <2>2. \A t \in Sockets : session'[t].exists = session[t].exists
    <3>1. CASE Authenticate(s)
      BY <1>t, <3>1 DEF Authenticate
    <3>2. CASE ProcessRequest(s)
      <4> DEFINE e == session[s]
                 k == KeptNumber(s)
      <4>1. session' = [session EXCEPT ![s] = [e EXCEPT !.last = k]]
        BY <3>2 DEF ProcessRequest
      <4>2. [e EXCEPT !.last = k].exists = session[s].exists
        <5> HIDE DEF k
        <5>1. [e EXCEPT !.last = k] =
                [exists |-> e.exists, auth |-> e.auth, token |-> e.token, last |-> k]
          BY <1>t, SessionChanged
        <5> QED BY <5>1
      <4> HIDE DEF k
      <4> QED BY <1>t, <4>1, <4>2
    <3>3. CASE UNCHANGED session
      BY <3>3
    <3> QED BY <1>4, <3>1, <3>2, <3>3 DEF OnClientReadyRead
  <2> QED BY <2>1, <2>2, TablesKept
<1>5. ASSUME NEW s \in Sockets, OnClientDisconnected(s) PROVE TableInv'
  <2>1. svc = "up" /\ svc' = "up" /\ UpTables /\ Disconnected(s, typeOf[s])
    BY <1>5 DEF OnClientDisconnected, TableInv
  <2>2. /\ typeOf' = [typeOf EXCEPT ![s] = "Unknown"] /\ sock' = [sock EXCEPT ![s] = "deleted"]
        /\ session' = IF typeOf[s] \in Pipes THEN [session EXCEPT ![s] = NoSession] ELSE session
        /\ clients' = IF typeOf[s] \in Pipes THEN [clients EXCEPT ![typeOf[s]] = @ \ {s}] ELSE clients
    BY <2>1 DEF Disconnected, Untrack, Unregister
  <2>3. \A t \in Sockets : typeOf'[t] = (IF t = s THEN "Unknown" ELSE typeOf[t])
                           /\ (t # s => sock'[t] = sock[t] /\ session'[t] = session[t])
    BY <1>t, <2>2
  <2>4. ~session'[s].exists
    <3>1. CASE typeOf[s] \in Pipes
      BY <1>t, <2>2, <3>1, Empties
    <3>2. CASE typeOf[s] \notin Pipes
      BY <2>1, <2>2, <3>2 DEF UpTables
    <3> QED BY <3>1, <3>2
  <2>5. \A t \in Sockets, p \in Pipes : t \in clients'[p] <=> t \in clients[p] /\ t # s
    BY <1>t, <2>1, <2>2 DEF UpTables
  <2>6. UpTables'
    BY <1>t, <2>1, <2>3, <2>4, <2>5 DEF UpTables
  <2> QED BY <2>1, <2>6 DEF TableInv
<1>6. ASSUME NEW p \in Pipes, OnNewConnection(p) PROVE TableInv'
  <2>1. PICK waiting \in SUBSET Sockets : \E new \in SUBSET Sockets :
           /\ new \subseteq waiting
           /\ \A s \in waiting : sock[s] = "pending"
           /\ sock' = [s \in Sockets |-> IF s \in new THEN "open"
                         ELSE IF s \in waiting THEN "deleted" ELSE sock[s]]
           /\ clients' = [clients EXCEPT ![p] = @ \cup new]
           /\ typeOf' = [s \in Sockets |-> IF s \in new THEN p ELSE typeOf[s]]
           /\ Register(new)
           /\ svc = "up" /\ UNCHANGED <<svc, walk>>
    BY <1>6, NewConnections
  <2>2. PICK new \in SUBSET Sockets :
           /\ new \subseteq waiting
           /\ \A s \in waiting : sock[s] = "pending"
           /\ sock' = [s \in Sockets |-> IF s \in new THEN "open"
                         ELSE IF s \in waiting THEN "deleted" ELSE sock[s]]
           /\ clients' = [clients EXCEPT ![p] = @ \cup new]
           /\ typeOf' = [s \in Sockets |-> IF s \in new THEN p ELSE typeOf[s]]
           /\ Register(new)
           /\ svc = "up" /\ UNCHANGED <<svc, walk>>
    BY <2>1
  <2>3. UpTables
    BY <2>2 DEF TableInv
  <2>4. \A s \in Sockets : /\ s \in new => sock'[s] = "open" /\ typeOf'[s] = p
                           /\ s \notin new => typeOf'[s] = typeOf[s]
                           /\ s \notin waiting => sock'[s] = sock[s]
    BY <2>2
  <2>5. \A s \in Sockets : /\ s \in new => session'[s].exists
                           /\ s \notin new => session'[s] = session[s]
    <3>1. session' = [s \in Sockets |-> IF s \in new THEN [NoSession EXCEPT !.exists = TRUE]
                                                     ELSE session[s]]
      BY <2>2 DEF Register
    <3> QED BY <3>1, Empties
  <2>6. \A s \in Sockets, q \in Pipes : s \in clients'[q] <=> s \in clients[q] \/ (q = p /\ s \in new)
    BY <1>t, <2>2
  <2>7. \A s \in waiting : typeOf[s] \notin Pipes
    BY <2>2, <2>3 DEF UpTables
  <2>8. UpTables'
    <3>1. \A s \in Sockets, q \in Pipes : s \in clients'[q] <=> typeOf'[s] = q
      BY <2>2, <2>3, <2>4, <2>6, <2>7 DEF UpTables
    <3>2. \A s \in Sockets : session'[s].exists <=> typeOf'[s] \in Pipes
      BY <2>3, <2>4, <2>5 DEF UpTables
    <3>3. \A s \in Sockets : typeOf'[s] \in Pipes => sock'[s] = "open"
      BY <2>2, <2>3, <2>4, <2>7 DEF UpTables
    <3> QED BY <3>1, <3>2, <3>3 DEF UpTables
  <2> QED BY <2>2, <2>8 DEF TableInv
<1>7. CASE BeginCleanup
  <2>1. /\ svc = "up" /\ svc' = "stopping" /\ UNCHANGED <<clients, typeOf>>
        /\ walk'.pipes = Pipes /\ walk'.all = {} /\ walk'.todo = {}
    BY <1>7 DEF BeginCleanup, NoWalk
  <2>2. StopTables'
    BY <2>1 DEF TableInv, UpTables, StopTables
  <2> QED BY <2>1, <2>2 DEF TableInv
<1>8. ASSUME NEW p \in Pipes, StopPipe(p) PROVE TableInv'
  <2>1. /\ svc = "stopping" /\ svc' = "stopping" /\ UNCHANGED <<clients, typeOf>>
        /\ p \in walk.pipes /\ walk.all = {} /\ walk'.pipes = walk.pipes \ {p}
        /\ walk'.all = clients[p] /\ walk'.todo = clients[p]
    BY <1>8 DEF StopPipe
  <2>2. StopTables
    BY <2>1 DEF TableInv
  <2>3. StopTables'
    <3>1. \A s \in Sockets, q \in walk'.pipes : s \in clients'[q] <=> typeOf'[s] = q
      BY <2>1, <2>2 DEF StopTables
    <3>2. \A q \in Pipes \ walk'.pipes : clients'[q] \subseteq walk'.all
      BY <2>1, <2>2 DEF StopTables
    <3>3. \A s \in walk'.all : \E q \in Pipes \ walk'.pipes : s \in clients'[q]
      BY <1>t, <2>1
    <3>4. \A s \in Sockets : typeOf'[s] \in Pipes \ walk'.pipes => s \in walk'.todo
      BY <2>1, <2>2 DEF StopTables
    <3>5. \A s \in walk'.all : typeOf'[s] \notin walk'.pipes
      BY <1>c, <2>1, <2>2 DEF StopTables
    <3> QED BY <2>1, <3>1, <3>2, <3>3, <3>4, <3>5 DEF StopTables
  <2> QED BY <2>1, <2>3 DEF TableInv
<1>9. ASSUME NEW s \in Sockets, StopClient(s) PROVE TableInv'
  <2>1. /\ svc = "stopping" /\ svc' = "stopping" /\ s \in walk.todo
        /\ walk'.pipes = walk.pipes /\ walk'.all = walk.all /\ walk'.todo = walk.todo \ {s}
    BY <1>9, <1>t DEF StopClient, Walks
  <2>2. typeOf' = [typeOf EXCEPT ![s] = "Unknown"] /\ clients' = clients
    BY <1>9, <1>t DEF StopClient, Disconnected, Untrack, TypeAtStop
  <2>3. \A t \in Sockets : typeOf'[t] = IF t = s THEN "Unknown" ELSE typeOf[t]
    BY <1>t, <2>2
  <2>4. StopTables
    BY <2>1 DEF TableInv
  <2>5. \A q \in walk.pipes : s \notin clients[q]
    BY <2>1, <2>4 DEF StopTables
  <2>6. StopTables'
    <3>1. \A t \in Sockets, q \in walk'.pipes : t \in clients'[q] <=> typeOf'[t] = q
      BY <1>t, <2>1, <2>2, <2>3, <2>4, <2>5 DEF StopTables
    <3>2. \A t \in Sockets : typeOf'[t] \in Pipes \ walk'.pipes => t \in walk'.todo
      BY <1>t, <2>1, <2>3, <2>4 DEF StopTables
    <3>3. \A t \in walk'.all : typeOf'[t] \notin walk'.pipes
      BY <1>t, <2>1, <2>3, <2>4 DEF StopTables
    <3> QED BY <2>1, <2>2, <2>4, <3>1, <3>2, <3>3 DEF StopTables
  <2> QED BY <2>1, <2>6 DEF TableInv
<1>10. CASE StopPipeEnds
  <2>1. /\ svc = "stopping" /\ svc' = "stopping" /\ walk.todo = {} /\ UNCHANGED typeOf
        /\ clients' = [p \in Pipes |-> clients[p] \ walk.all]
        /\ walk'.pipes = walk.pipes /\ walk'.all = {} /\ walk'.todo = {}
    BY <1>10, <1>t DEF StopPipeEnds, Walks
  <2>2. StopTables
    BY <2>1 DEF TableInv
  <2>3. StopTables'
    <3>1. \A t \in Sockets, q \in walk'.pipes : t \in clients'[q] <=> typeOf'[t] = q
      BY <1>t, <2>1, <2>2 DEF StopTables
    <3>2. \A q \in Pipes \ walk'.pipes : clients'[q] \subseteq walk'.all
      BY <2>1, <2>2 DEF StopTables
    <3>3. \A t \in Sockets : typeOf'[t] \in Pipes \ walk'.pipes => t \in walk'.todo
      BY <2>1, <2>2 DEF StopTables
    <3> QED BY <2>1, <3>1, <3>2, <3>3 DEF StopTables
  <2> QED BY <2>1, <2>3 DEF TableInv
<1>11. CASE EndCleanup
  <2>1. /\ svc = "stopping" /\ svc' = "down" /\ UNCHANGED <<clients, typeOf>>
        /\ walk.pipes = {} /\ walk.all = {} /\ session' = [s \in Sockets |-> NoSession]
    BY <1>11 DEF EndCleanup, NoWalk
  <2>2. StopTables
    BY <2>1 DEF TableInv
  <2>3. DownTables'
    BY <2>1, <2>2, Empties DEF DownTables, StopTables
  <2> QED BY <2>1, <2>3 DEF TableInv
<1>12. CASE UNCHANGED vars
  BY <1>12, TablesKept DEF vars
<1> QED BY <1>1, <1>2, <1>3, <1>4, <1>5, <1>6, <1>7, <1>8, <1>9, <1>10, <1>11, <1>12 DEF Next

-----------------------------------------------------------------------------
(* Peers and sessions *)

\* A step that does not concern a socket keeps what is known of it.
LEMMA PeerKept ==
  ASSUME NEW t \in Sockets, ClientInv(t), SessionInv(t),
         /\ client'[t] = client[t] /\ sock'[t] = sock[t] /\ msg'[t] = msg[t]
         /\ replies'[t] = replies[t] /\ lost'[t] = lost[t]
         /\ accepted'[t] = accepted[t] /\ runs'[t] = runs[t]
         /\ session'[t] = session[t] /\ pipeOf'[t] = pipeOf[t],
         alive'[t] => alive[t],
         client[t] = "ready" /\ copies'[t] > 0 => copies[t] > 0
  PROVE  ClientInv(t)' /\ SessionInv(t)'
BY DEF ClientInv, SessionInv

\* Nothing is left of a peer whose socket waits for its deletion.
LEMMA PeerForgotten ==
  ASSUME NEW t \in Sockets, NEW gone, t \in gone, Forget(gone), sock'[t] \in {"free", "deleted"}
  PROVE  ClientInv(t)' /\ SessionInv(t)'
<1>1. /\ client'[t] = "none" /\ ~alive'[t] /\ msg'[t] = NoMsg /\ replies'[t] = {} /\ runs'[t] = 0
        /\ accepted'[t] = 0 /\ lost'[t] = 0
  BY DEF Forget
<1> QED BY <1>1 DEF ClientInv, SessionInv

\* Others are not forgotten.
LEMMA PeerRemembered ==
  ASSUME NEW t \in Sockets, NEW gone, t \notin gone, Forget(gone)
  PROVE  /\ client'[t] = client[t] /\ (alive'[t] => alive[t]) /\ msg'[t] = msg[t]
         /\ replies'[t] = replies[t] /\ copies'[t] = copies[t] /\ lost'[t] = lost[t]
         /\ accepted'[t] = accepted[t] /\ runs'[t] = runs[t]
BY DEF Forget

\* The numbers of a peer.
LEMMA PeerTypes ==
  ASSUME TypeOK, NEW t \in Sockets
  PROVE  /\ msg[t].no \in Nat /\ runs[t] \in Nat /\ accepted[t] \in Nat
         /\ lost[t] \in 0..MaxLost /\ lost[t] \in Nat
         /\ copies[t] \in Nat /\ session[t] \in Sessions
         /\ client[t] \in {"none", "new", "early", "auth", "ready", "request"}
         /\ sock[t] \in {"free", "pending", "open", "deleted"}
         /\ SeqOf(t) = NumberOf(pipeOf[t], msg[t].no)
         /\ replies[t] \subseteq Nat
<1>1. /\ msg[t] \in Messages /\ runs[t] \in Nat /\ accepted[t] \in Nat /\ session[t] \in Sessions
      /\ lost[t] \in 0..MaxLost /\ copies[t] \in 0..MaxCopies
      /\ client[t] \in {"none", "new", "early", "auth", "ready", "request"}
      /\ sock[t] \in {"free", "pending", "open", "deleted"}
      /\ replies[t] \subseteq 0..MaxRequests
  BY DEF TypeOK
<1>2. msg[t].no \in Nat /\ replies[t] \subseteq Nat /\ lost[t] \in Nat /\ copies[t] \in Nat
  BY <1>1, BoundsAssumption, NumbersAssumption DEF Messages
<1>3. SeqOf(t) = NumberOf(pipeOf[t], msg[t].no)
  BY DEF SeqOf, NumberOf
<1> QED BY <1>1, <1>2, <1>3

\* What the peers do.
LEMMA PeerActions ==
  ASSUME TypeOK, TableInv, PeerInv, NEW s \in Sockets,
         \/ \E p \in Pipes : Connect(s, p)
         \/ \E kind \in {"request", "garbled"} : SendRequest(s, kind)
         \/ SendEarly(s) \/ SendAuth(s) \/ SendAgain(s) \/ Receive(s) \/ GiveUp(s)
         \/ PeerCloses(s)
  PROVE  PeerInv'
<1> SUFFICES ASSUME NEW t \in Sockets PROVE ClientInv(t)' /\ SessionInv(t)'
  BY DEF PeerInv
<1> USE DEF PeerOnly, pipeVars, trackVars, svcVars, clientVars, ghostVars
<1>0. ClientInv(t) /\ SessionInv(t) /\ ClientInv(s) /\ SessionInv(s)
  BY DEF PeerInv
<1>t. /\ sock \in [Sockets -> {"free", "pending", "open", "deleted"}]
      /\ alive \in [Sockets -> BOOLEAN] /\ pipeOf \in [Sockets -> Pipes \cup {"Unknown"}]
      /\ client \in [Sockets -> {"none", "new", "early", "auth", "ready", "request"}]
      /\ DOMAIN msg = Sockets /\ DOMAIN replies = Sockets /\ DOMAIN runs = Sockets
      /\ DOMAIN accepted = Sockets /\ DOMAIN lost = Sockets /\ DOMAIN copies = Sockets
  BY DEF TypeOK
<1>p. /\ msg[s].no \in Nat /\ runs[s] \in Nat /\ accepted[s] \in Nat /\ lost[s] \in Nat
      /\ copies[s] \in Nat /\ session[s] \in Sessions /\ replies[s] \subseteq Nat
  BY PeerTypes
<1>1. ASSUME NEW p \in Pipes, Connect(s, p) PROVE ClientInv(t)' /\ SessionInv(t)'
  <2>1. CASE t # s
    BY <1>0, <1>1, <1>t, <2>1, PeerKept DEF Connect
  <2>2. CASE t = s
    <3>1. /\ sock[s] = "free" /\ client[s] = "none" /\ svc = "up"
          /\ sock'[s] = "pending" /\ client'[s] = "new" /\ alive'[s]
          /\ UNCHANGED <<msg, replies, lost, accepted, runs, session>>
      BY <1>0, <1>1, <1>t DEF Connect, ClientInv
    <3>2. ~session[s].exists
      BY <3>1 DEF TableInv, UpTables
    <3>3. ClientInv(s)'
      BY <1>0, <3>1 DEF ClientInv
    <3>4. SessionInv(s)'
      BY <3>1, <3>2 DEF SessionInv
    <3> QED BY <2>2, <3>3, <3>4
  <2> QED BY <2>1, <2>2
<1>s. ASSUME NEW what, NEW wait, Send(s, what, wait), t # s PROVE ClientInv(t)' /\ SessionInv(t)'
  BY <1>0, <1>t, <1>s, PeerKept DEF Send
<1>e. ASSUME NEW what, NEW wait, Send(s, what, wait)
      PROVE  /\ alive[s] /\ msg'[s] = what /\ client'[s] = wait
             /\ runs'[s] = 0 /\ accepted'[s] = 0
             /\ UNCHANGED <<sock, alive, pipeOf, replies, lost, session>>
  BY <1>t, <1>e DEF Send
<1>2. CASE SendEarly(s)
  <2>1. PICK what : /\ client[s] = "new" /\ Send(s, what, "early")
                    /\ what.kind \in {"request", "wrongAuth"} /\ what.no = 0
    BY <1>2 DEF SendEarly
  <2>3. ClientInv(s)'
    BY <1>0, <1>e, <2>1 DEF ClientInv
  <2>4. SessionInv(s)'
    BY <1>0, <1>e, <2>1 DEF SessionInv
  <2> QED BY <1>s, <2>1, <2>3, <2>4
<1>3. CASE SendAuth(s)
  <2> DEFINE what == [kind |-> "auth", token |-> 0, no |-> 0]
  <2>1. client[s] \in {"new", "early"} /\ Send(s, what, "auth")
    BY <1>3 DEF SendAuth
  <2>2. what.kind = "auth" /\ what.no = 0
    OBVIOUS
  <2> HIDE DEF what
  <2>3. ClientInv(s)'
    BY <1>0, <1>e, <2>1, <2>2 DEF ClientInv
  <2>4. SessionInv(s)'
    BY <1>0, <1>e, <2>1 DEF SessionInv
  <2> QED BY <1>s, <2>1, <2>3, <2>4
<1>4. ASSUME NEW kind \in {"request", "garbled"}, SendRequest(s, kind)
      PROVE  ClientInv(t)' /\ SessionInv(t)'
  <2> DEFINE what == [kind |-> kind, token |-> conn[s], no |-> msg[s].no + 1]
             n == msg[s].no
             l == lost[s]
  <2>1. client[s] = "ready" /\ Send(s, what, "request")
    BY <1>4 DEF SendRequest
  <2>2. what.kind \in {"request", "garbled"} /\ what.no = n + 1
    OBVIOUS
  <2>n. n \in Nat /\ n = msg[s].no /\ l \in Nat /\ l = lost[s]
    BY <1>p
  <2> HIDE DEF what, n, l
  <2>3. /\ msg'[s] = what /\ client'[s] = "request" /\ runs'[s] = 0 /\ accepted'[s] = 0 /\ alive[s]
        /\ UNCHANGED <<sock, alive, pipeOf, replies, lost, session>>
    BY <1>e, <2>1
  <2>4. /\ n + 1 > 0 /\ n + 1 \notin replies[s] /\ \A r \in replies[s] : r <= n + 1
        /\ l < n + 1
    BY <1>0, <1>p, <2>1, <2>n DEF ClientInv
  <2>5. ClientInv(s)'
    BY <1>0, <2>1, <2>2, <2>3, <2>4, <2>n DEF ClientInv
  <2>6. session[s].exists => session[s].last = Reached(pipeOf[s], n - l)
    BY <1>0, <2>1, <2>n DEF SessionInv
  <2>7. (n + 1) - 1 = n
    BY <2>n
  <2>8. SessionInv(s)'
    BY <2>2, <2>3, <2>6, <2>7, <2>n DEF SessionInv
  <2> QED BY <1>s, <2>1, <2>5, <2>8
<1>5. CASE SendAgain(s)
  <2>1. CASE t # s
    BY <1>0, <1>5, <1>t, <2>1, PeerKept DEF SendAgain
  <2>2. CASE t = s
    BY <1>0, <1>5, <2>2, PeerKept DEF SendAgain
  <2> QED BY <2>1, <2>2
<1>6. CASE Receive(s)
  <2>1. CASE t # s
    BY <1>0, <1>6, <1>t, <2>1, PeerKept DEF Receive
  <2>2. CASE t = s
    <3>1. /\ alive[s] /\ client[s] \in {"auth", "request"} /\ msg[s].no \in replies[s]
          /\ client'[s] = "ready" /\ replies'[s] = {} /\ lost'[s] = 0
          /\ UNCHANGED <<msg, runs, accepted, copies, sock, alive, pipeOf, session>>
      BY <1>6, <1>t DEF Receive
    <3>2. ClientInv(s)'
      BY <1>0, <1>p, <3>1 DEF ClientInv
    <3>3. ASSUME session[s].exists PROVE session[s].last = Reached(pipeOf[s], msg[s].no)
      <4>1. CASE client[s] = "auth"
        BY <1>0, <3>3, <4>1 DEF ClientInv, SessionInv, Reached
      <4>2. CASE client[s] = "request"
        <5>1. accepted[s] # 0
          BY <1>0, <1>p, <3>1, <4>2 DEF ClientInv
        <5> QED BY <1>0, <3>3, <4>2, <5>1 DEF SessionInv
      <4> QED BY <3>1, <4>1, <4>2
    <3>4. msg[s].no - 0 = msg[s].no
      BY <1>p
    <3>5. SessionInv(s)'
      BY <3>1, <3>3, <3>4 DEF SessionInv
    <3> QED BY <2>2, <3>2, <3>5
  <2> QED BY <2>1, <2>2
<1>7. CASE GiveUp(s)
  <2>1. CASE t # s
    <3>1. lost'[t] = lost[t]
      BY <1>7, <1>t, <2>1 DEF GiveUp
    <3> QED BY <1>0, <1>7, <1>t, <2>1, <3>1, PeerKept DEF GiveUp
  <2>2. CASE t = s
    <3>1. /\ alive[s] /\ client[s] = "request" /\ copies[s] = 0
          /\ client'[s] = "ready" /\ replies'[s] = {}
          /\ UNCHANGED <<msg, runs, accepted, copies, sock, alive, pipeOf, session>>
      BY <1>7, <1>t DEF GiveUp
    <3>2. lost'[s] = IF accepted[s] > 0 THEN 0 ELSE lost[s] + 1
      BY <1>7, <1>t DEF GiveUp
    <3>3. lost'[s] <= msg[s].no
      BY <1>0, <1>p, <3>1, <3>2 DEF ClientInv
    <3>4. ClientInv(s)'
      BY <1>0, <1>p, <3>1, <3>3 DEF ClientInv
    <3>5. msg[s].no - lost'[s] = IF accepted[s] = 0 THEN (msg[s].no - 1) - lost[s] ELSE msg[s].no
      BY <1>p, <3>2
    <3>6. SessionInv(s)'
      BY <1>0, <3>1, <3>5 DEF SessionInv
    <3> QED BY <2>2, <3>4, <3>6
  <2> QED BY <2>1, <2>2
<1>8. CASE PeerCloses(s)
  <2>1. alive'[t] => alive[t]
    BY <1>8, <1>t DEF PeerCloses
  <2> QED BY <1>0, <1>8, <2>1, PeerKept DEF PeerCloses
<1> QED BY <1>1, <1>2, <1>3, <1>4, <1>5, <1>6, <1>7, <1>8

\* A response, or nothing, after what is read.
LEMMA PeerRead ==
  ASSUME TypeOK, PeerInv, NEW s \in Sockets, OnClientReadyRead(s)
  PROVE  PeerInv'
<1> SUFFICES ASSUME NEW t \in Sockets PROVE ClientInv(t)' /\ SessionInv(t)'
  BY DEF PeerInv
<1> USE DEF ghostVars
<1>0. ClientInv(t) /\ SessionInv(t) /\ ClientInv(s) /\ SessionInv(s)
  BY DEF PeerInv
<1>t. /\ DOMAIN replies = Sockets /\ DOMAIN runs = Sockets /\ DOMAIN session = Sockets
      /\ DOMAIN accepted = Sockets /\ DOMAIN copies = Sockets
  BY DEF TypeOK
<1>p. /\ msg[s].no \in Nat /\ runs[s] \in Nat /\ accepted[s] \in Nat /\ lost[s] \in Nat
      /\ session[s] \in Sessions /\ replies[s] \subseteq Nat
      /\ SeqOf(s) = NumberOf(pipeOf[s], msg[s].no)
      /\ client[s] \in {"none", "new", "early", "auth", "ready", "request"}
  BY PeerTypes
<1>1. /\ sock[s] = "open" /\ copies[s] > 0 /\ copies' = [copies EXCEPT ![s] = 0]
      /\ UNCHANGED <<sock, alive, pipeOf, client, msg, lost>>
  BY DEF OnClientReadyRead, pipeVars
<1>c. copies'[t] > 0 => copies[t] > 0
  BY <1>1, <1>t
<1> DEFINE n == msg[s].no
           k == SeqOf(s)
           e == session[s]
<1>2. CASE UNCHANGED <<replies, session, ghostVars>>
  BY <1>0, <1>1, <1>2, <1>c, PeerKept
<1>3. CASE /\ Authenticate(s) \/ ProcessRequest(s)
           /\ \/ UNCHANGED replies
              \/ replies' = [replies EXCEPT ![s] = @ \cup {n}]
  <2>1. CASE t # s
    <3>1. /\ session'[t] = session[t] /\ runs'[t] = runs[t] /\ accepted'[t] = accepted[t]
          /\ replies'[t] = replies[t]
      BY <1>3, <1>t, <2>1 DEF Authenticate, ProcessRequest
    <3> QED BY <1>0, <1>1, <1>c, <3>1, PeerKept
  <2>2. replies'[s] \in {replies[s], replies[s] \cup {n}}
    BY <1>3, <1>t
  <2>3. \A r \in replies'[s] : r <= n
    BY <1>0, <1>p, <2>2 DEF ClientInv
  <2>c. ~(copies'[s] > 0)
    BY <1>1, <1>t
  <2>4. ASSUME Authenticate(s) PROVE ClientInv(s)' /\ SessionInv(s)'
    <3>1. client[s] \in {"auth", "ready"} /\ n = 0
      BY <1>0, <1>p, <2>4 DEF Authenticate, ClientInv, NoMsg
    <3>2. runs'[s] = runs[s] /\ accepted'[s] = accepted[s]
      BY <2>4 DEF Authenticate
    <3>3. session'[s].exists => session'[s].last = 0
      <4>1. CASE session[s].exists
        <5>1. session'[s] = [exists |-> TRUE, auth |-> TRUE, token |-> conn[s], last |-> 0]
          BY <1>t, <2>4, <4>1 DEF Authenticate
        <5> QED BY <5>1
      <4>2. CASE ~session[s].exists
        BY <1>t, <2>4, <4>2 DEF Authenticate
      <4> QED BY <4>1, <4>2
    <3>4. ClientInv(s)'
      BY <1>0, <1>1, <2>3, <2>c, <3>1, <3>2 DEF ClientInv
    <3>5. client[s] = "ready" => n - lost[s] = 0
      BY <1>0, <1>p, <3>1 DEF ClientInv
    <3>6. SessionInv(s)'
      BY <1>1, <3>1, <3>3, <3>5 DEF SessionInv, Reached
    <3> QED BY <3>4, <3>6
  <2>5. ASSUME ProcessRequest(s) PROVE ClientInv(s)' /\ SessionInv(s)'
    <3>0. msg[s].kind \in {"request", "garbled"}
      BY <2>5 DEF ProcessRequest, Passes
    <3>1. /\ e.exists /\ e.auth /\ ValidSequence(e.last, k)
          /\ session' = [session EXCEPT ![s] = [e EXCEPT !.last = k]]
      BY <2>5 DEF ProcessRequest, Passes, MayCommand, KeptNumber
    <3>2. client[s] \in {"ready", "request"} /\ n > 0
      BY <1>0, <1>p, <3>0, <3>1 DEF ClientInv, SessionInv, NoMsg
    <3>3. session'[s].last = k
      <4> DEFINE f == [e EXCEPT !.last = k]
      <4>1. f.last = k
        <5> HIDE DEF k
        <5>1. f = [exists |-> e.exists, auth |-> e.auth, token |-> e.token, last |-> k]
          BY <1>p, SessionChanged
        <5> QED BY <5>1
      <4>2. session'[s] = f
        <5> HIDE DEF f, e, k
        <5>1. session' = [session EXCEPT ![s] = f]
          BY <3>1 DEF f
        <5> QED BY <1>t, <5>1
      <4> QED BY <4>1, <4>2
    <3>4. accepted'[s] = accepted[s] + 1 /\ runs'[s] \in {runs[s], runs[s] + 1}
      BY <1>t, <2>5 DEF ProcessRequest
    <3>5. k = NumberOf(pipeOf[s], n)
      BY <1>p
    <3>6. client[s] = "request" /\ k # 0 => accepted[s] = 0
      <4> SUFFICES ASSUME client[s] = "request", k # 0, accepted[s] # 0 PROVE FALSE
        OBVIOUS
      <4>1. e.last = Reached(pipeOf[s], n)
        BY <1>0, <3>1 DEF SessionInv
      <4>2. e.last = k
        BY <1>p, <3>2, <3>5, <4>1 DEF Reached
      <4>3. ValidSequence(NumberOf(pipeOf[s], n), NumberOf(pipeOf[s], n))
        BY <3>1, <3>5, <4>2
      <4>4. NumberOf(pipeOf[s], n) = 0
        BY <1>p, <4>3, Numbers
      <4> QED BY <3>5, <4>4
    <3>l. client[s] = "ready" => lost[s] = 0
      BY <1>0, <1>1 DEF ClientInv
    <3> HIDE DEF n, k, e
    <3>7. /\ accepted'[s] > 0 /\ accepted'[s] # 0 /\ runs'[s] <= accepted'[s]
          /\ client[s] = "request" /\ k # 0 => accepted'[s] <= 1
      BY <1>0, <1>p, <3>4, <3>6 DEF ClientInv
    <3>8. ClientInv(s)'
      <4>1. /\ msg'[s].no = n /\ pipeOf'[s] = pipeOf[s] /\ client'[s] = client[s] /\ sock'[s] = sock[s]
            /\ lost'[s] = lost[s] /\ msg' = msg
        BY <1>1 DEF n
      <4> QED BY <1>0, <1>1, <2>3, <2>c, <3>0, <3>2, <3>5, <3>7, <4>1 DEF ClientInv
    <3>9. Reached(pipeOf[s], n) = k
      BY <1>p, <3>2, <3>5 DEF Reached, n
    <3>10. client[s] = "ready" => n - lost[s] = n
      BY <1>p, <3>l DEF n
    <3>11. SessionInv(s)'
      BY <1>1, <3>2, <3>3, <3>7, <3>9, <3>10 DEF SessionInv, n
    <3> QED BY <3>8, <3>11
  <2> QED BY <1>3, <2>1, <2>4, <2>5
<1>4. \/ UNCHANGED <<replies, session, ghostVars>>
      \/ /\ Authenticate(s) \/ ProcessRequest(s)
         /\ \/ UNCHANGED replies
            \/ replies' = [replies EXCEPT ![s] = @ \cup {n}]
  BY DEF OnClientReadyRead
<1> QED BY <1>2, <1>3, <1>4

\* A disconnection forgets the peer of one socket.
LEMMA PeerDisconnected ==
  ASSUME TypeOK, PeerInv, NEW s \in Sockets, NEW type, Disconnected(s, type), UNCHANGED pipeOf
  PROVE  PeerInv'
<1> SUFFICES ASSUME NEW t \in Sockets PROVE ClientInv(t)' /\ SessionInv(t)'
  BY DEF PeerInv
<1>1. /\ Forget({s}) /\ sock' = [sock EXCEPT ![s] = "deleted"]
      /\ session' = IF type \in Pipes THEN [session EXCEPT ![s] = NoSession] ELSE session
  BY DEF Disconnected, Unregister
<1>t. DOMAIN sock = Sockets /\ DOMAIN session = Sockets
  BY DEF TypeOK
<1>2. CASE t = s
  <2>1. sock'[t] = "deleted"
    BY <1>1, <1>2, <1>t
  <2> QED BY <1>1, <1>2, <2>1, PeerForgotten
<1>3. CASE t # s
  <2>1. sock'[t] = sock[t] /\ session'[t] = session[t]
    BY <1>1, <1>3, <1>t
  <2>2. t \notin {s} /\ ClientInv(t) /\ SessionInv(t)
    BY <1>3 DEF PeerInv
  <2> QED BY <1>1, <2>1, <2>2, PeerKept, PeerRemembered
<1> QED BY <1>2, <1>3

\* What the pipe server and the service do.
LEMMA ServerActions ==
  ASSUME TypeOK, TableInv, PeerInv,
         \/ \E s \in Sockets : OnClientDisconnected(s) \/ DeleteLater(s) \/ StopClient(s)
         \/ \E p \in Pipes : OnNewConnection(p) \/ StopPipe(p)
         \/ BeginCleanup \/ StopPipeEnds \/ EndCleanup \/ UNCHANGED vars
  PROVE  PeerInv'
<1> USE DEF pipeVars, trackVars, svcVars, clientVars, ghostVars
<1>k. \A t \in Sockets : ClientInv(t) /\ SessionInv(t)
  BY DEF PeerInv
<1>1. ASSUME NEW s \in Sockets, OnClientDisconnected(s) PROVE PeerInv'
  BY <1>1, PeerDisconnected DEF OnClientDisconnected
<1>2. ASSUME NEW s \in Sockets, StopClient(s) PROVE PeerInv'
  BY <1>2, PeerDisconnected DEF StopClient
<1>3. ASSUME NEW s \in Sockets, DeleteLater(s) PROVE PeerInv'
  <2> SUFFICES ASSUME NEW t \in Sockets PROVE ClientInv(t)' /\ SessionInv(t)'
    BY DEF PeerInv
  <2>t. DOMAIN sock = Sockets /\ DOMAIN pipeOf = Sockets
    BY DEF TypeOK
  <2>0. /\ sock[s] = "deleted" /\ sock' = [sock EXCEPT ![s] = "free"]
        /\ pipeOf' = [pipeOf EXCEPT ![s] = "Unknown"]
        /\ UNCHANGED <<alive, session, client, msg, copies, replies, lost, accepted, runs>>
    BY <1>3 DEF DeleteLater
  <2>1. CASE t # s
    <3>1. sock'[t] = sock[t] /\ pipeOf'[t] = pipeOf[t]
      BY <2>0, <2>1, <2>t
    <3> QED BY <1>k, <2>0, <3>1, PeerKept
  <2>2. CASE t = s
    <3>1. client[s] = "none" /\ ClientInv(s)
      BY <1>k, <2>0 DEF ClientInv
    <3>2. client'[s] = "none" /\ sock'[s] = "free"
      BY <2>0, <2>t, <3>1
    <3>3. ClientInv(s)'
      BY <2>0, <3>1, <3>2 DEF ClientInv
    <3> QED BY <2>2, <3>2, <3>3 DEF SessionInv
  <2> QED BY <2>1, <2>2
<1>4. ASSUME NEW p \in Pipes, OnNewConnection(p) PROVE PeerInv'
  <2> SUFFICES ASSUME NEW t \in Sockets PROVE ClientInv(t)' /\ SessionInv(t)'
    BY DEF PeerInv
  <2>1. PICK waiting \in SUBSET Sockets : \E new \in SUBSET Sockets :
           /\ new \subseteq waiting
           /\ \A s \in waiting : sock[s] = "pending"
           /\ sock' = [s \in Sockets |-> IF s \in new THEN "open"
                         ELSE IF s \in waiting THEN "deleted" ELSE sock[s]]
           /\ Forget(waiting \ new) /\ Register(new) /\ UNCHANGED pipeOf
    BY <1>4, NewConnections
  <2>2. PICK new \in SUBSET Sockets :
           /\ new \subseteq waiting
           /\ \A s \in waiting : sock[s] = "pending"
           /\ sock' = [s \in Sockets |-> IF s \in new THEN "open"
                         ELSE IF s \in waiting THEN "deleted" ELSE sock[s]]
           /\ Forget(waiting \ new) /\ Register(new) /\ UNCHANGED pipeOf
    BY <2>1
  <2>3. session' = [s \in Sockets |-> IF s \in new THEN [NoSession EXCEPT !.exists = TRUE]
                                                   ELSE session[s]]
    BY <2>2 DEF Register
  <2>4. CASE t \in waiting \ new
    BY <2>2, <2>4, PeerForgotten
  <2>5. CASE t \notin waiting
    <3>1. sock'[t] = sock[t] /\ session'[t] = session[t]
      BY <2>2, <2>3, <2>5
    <3> QED BY <1>k, <2>2, <2>5, <3>1, PeerKept, PeerRemembered
  <2>6. CASE t \in new
    <3>1. /\ client'[t] = client[t] /\ (alive'[t] => alive[t]) /\ msg'[t] = msg[t]
          /\ replies'[t] = replies[t] /\ runs'[t] = runs[t]
          /\ accepted'[t] = accepted[t] /\ lost'[t] = lost[t]
      BY <2>2, <2>6, PeerRemembered
    <3>2. sock[t] = "pending" /\ sock'[t] = "open" /\ pipeOf'[t] = pipeOf[t]
      BY <2>2, <2>6
    <3>3. session'[t] = [exists |-> TRUE, auth |-> FALSE, token |-> 0, last |-> 0]
      BY <2>3, <2>6, Empties
    <3>4. ClientInv(t) /\ client[t] \in {"new", "early", "auth"}
      BY <1>k, <3>2 DEF ClientInv
    <3>5. ClientInv(t)'
      BY <3>1, <3>2, <3>4 DEF ClientInv
    <3>6. SessionInv(t)'
      BY <3>1, <3>3, <3>4 DEF SessionInv
    <3> QED BY <3>5, <3>6
  <2> QED BY <2>4, <2>5, <2>6
<1>5. CASE (\E p \in Pipes : StopPipe(p)) \/ BeginCleanup \/ StopPipeEnds \/ UNCHANGED vars
  <2>1. UNCHANGED <<sock, alive, pipeOf, session, client, msg, copies, replies, lost, accepted, runs>>
    BY <1>5 DEF StopPipe, BeginCleanup, StopPipeEnds, vars
  <2> QED BY <1>k, <2>1, PeerKept DEF PeerInv
<1>6. CASE EndCleanup
  <2> SUFFICES ASSUME NEW t \in Sockets PROVE ClientInv(t)' /\ SessionInv(t)'
    BY DEF PeerInv
  <2>1. UNCHANGED <<sock, alive, pipeOf, client, msg, copies, replies, lost, accepted, runs>>
        /\ session' = [s \in Sockets |-> NoSession]
    BY <1>6 DEF EndCleanup
  <2>2. ~session'[t].exists
    BY <2>1, Empties
  <2>3. ClientInv(t)'
    BY <1>k, <2>1 DEF ClientInv
  <2> QED BY <2>2, <2>3 DEF SessionInv
<1> QED BY <1>1, <1>2, <1>3, <1>4, <1>5, <1>6

-----------------------------------------------------------------------------
(* The inductive invariant *)

\* There is nobody at the start.
LEMMA InitIInv == Init => IInv
<1> SUFFICES ASSUME Init PROVE IInv
  OBVIOUS
<1>1. TypeOK
  <2>1. \A p \in Pipes : Cardinality({}) <= MaxClients[p]
    BY MaxClientsAssumption, FS_EmptySet
  <2>2. 1 \in 1..(MaxConns + 1)
    BY BoundsAssumption
  <2>3. /\ \A p \in Pipes : clients[p] = {}
        /\ DOMAIN clients = Pipes
    BY DEF Init
  <2>4. /\ session \in [Sockets -> Sessions] /\ walk \in Walks /\ msg \in [Sockets -> Messages]
        /\ copies \in [Sockets -> 0..MaxCopies] /\ conn \in [Sockets -> 0..MaxConns]
        /\ lost \in [Sockets -> 0..MaxLost]
    BY Empties DEF Init
  <2>5. /\ pipeOf \in [Sockets -> Pipes \cup {"Unknown"}]
        /\ typeOf \in [Sockets -> Pipes \cup {"Unknown"}]
        /\ replies \in [Sockets -> SUBSET (0..MaxRequests)]
        /\ accepted \in [Sockets -> Nat] /\ runs \in [Sockets -> Nat]
    BY DEF Init
  <2> QED BY <2>1, <2>2, <2>3, <2>4, <2>5 DEF Init, TypeOK
<1>2. TableInv
  BY Empties, MaxClientsAssumption DEF Init, TableInv, UpTables
<1>3. PeerInv
  BY Empties DEF Init, PeerInv, ClientInv, SessionInv
<1> QED BY <1>1, <1>2, <1>3 DEF IInv

\* Every step keeps the invariant.
LEMMA StepIInv == IInv /\ [Next]_vars => IInv'
<1> SUFFICES ASSUME IInv, [Next]_vars PROVE IInv'
  OBVIOUS
<1>1. TypeOK /\ TableInv /\ PeerInv
  BY DEF IInv
<1>2. TypeOK' /\ TableInv'
  BY <1>1, TypeStep, TableStep
<1>3. PeerInv'
  BY <1>1, PeerActions, PeerRead, ServerActions DEF Next
<1> QED BY <1>2, <1>3 DEF IInv

-----------------------------------------------------------------------------
(* The theorems *)

\* The invariant holds of every behaviour of the pipes, their sessions and their clients.
THEOREM Invariance == Spec => []IInv
<1> QED BY InitIInv, StepIInv, PTL DEF Spec

\* The state has its types, and no pipe more clients than it may have.
THEOREM TypeCorrect == Spec => []TypeOK
<1>1. IInv => TypeOK
  BY DEF IInv
<1> QED BY <1>1, Invariance, PTL

\* The client tables of the pipe server, its table of pipe types and the sessions
\* of the secure handler know the same clients, and none after the cleanup.
THEOREM TablesKnowTheSame == Spec => []TablesAgree
<1>1. ASSUME IInv PROVE TablesAgree
  <2>1. TypeOK /\ TableInv
    BY <1>1 DEF IInv
  <2>2. svc \in {"up", "stopping", "down"} /\ \A p \in Pipes : clients[p] \subseteq Sockets
    BY <2>1 DEF TypeOK
  <2>3. CASE svc = "up"
    <3>1. UpTables
      BY <2>1, <2>3 DEF TableInv
    <3>2. \A s \in Sockets : s \in Tracked <=> typeOf[s] \in Pipes
      BY <3>1 DEF UpTables, Tracked
    <3>3. Tracked \subseteq Sockets
      BY <2>2 DEF Tracked
    <3> QED BY <2>3, <3>1, <3>2, <3>3 DEF UpTables, TablesAgree
  <2>4. CASE svc = "stopping"
    <3>1. StopTables
      BY <2>1, <2>4 DEF TableInv
    <3> QED BY <2>4, <3>1 DEF StopTables, TablesAgree, Tracked
  <2>5. CASE svc = "down"
    <3>1. DownTables
      BY <2>1, <2>5 DEF TableInv
    <3> QED BY <2>5, <3>1 DEF DownTables, TablesAgree, Tracked
  <2> QED BY <2>2, <2>3, <2>4, <2>5
<1> QED BY <1>1, Invariance, PTL

\* While a connection has not authenticated itself, nothing is run for it and it
\* has no authenticated session, whatever client had the address or the token
\* before.
THEOREM NoneBeforeAuthentication == Spec => []OnlyAuthenticated
<1>1. IInv => OnlyAuthenticated
  BY DEF IInv, PeerInv, ClientInv, SessionInv, OnlyAuthenticated
<1> QED BY <1>1, Invariance, PTL

\* A client that counts by one is never refused for its number, for any modulus,
\* any window around its end and either way of counting over it, when no more
\* than MaxLost requests before it were lost.
THEOREM NextAccepted == Spec => []NextNumberAccepted
<1>1. ASSUME IInv PROVE NextNumberAccepted
  <2> SUFFICES ASSUME NEW s \in Sockets, client[s] = "request", session[s].exists, accepted[s] = 0
               PROVE  ValidSequence(session[s].last, SeqOf(s))
    BY DEF NextNumberAccepted
  <2>1. TypeOK /\ ClientInv(s) /\ SessionInv(s)
    BY <1>1 DEF IInv, PeerInv
  <2> DEFINE n == msg[s].no
             j == lost[s] + 1
  <2>2. /\ n \in Nat /\ n > 0 /\ lost[s] < n /\ lost[s] \in 0..MaxLost /\ MaxLost \in Nat
        /\ session[s].last = Reached(pipeOf[s], (n - 1) - lost[s])
        /\ SeqOf(s) = NumberOf(pipeOf[s], n)
    BY <2>1, PeerTypes, NumbersAssumption DEF ClientInv, SessionInv
  <2> HIDE DEF n
  <2>3. n \in Nat \ {0} /\ j \in 1..(MaxLost + 1) /\ j <= n /\ (n - 1) - lost[s] = n - j
    BY <2>2
  <2> HIDE DEF j
  <2> QED BY <2>2, <2>3, NextNumber
<1> QED BY <1>1, Invariance, PTL

\* A request that is sent again is run once, unless its number is 0.
THEOREM OnceEach == Spec => []ProcessedOnce
<1>1. ASSUME IInv PROVE ProcessedOnce
  <2> SUFFICES ASSUME NEW s \in Sockets, client[s] = "request", SeqOf(s) # 0 PROVE runs[s] <= 1
    BY DEF ProcessedOnce
  <2>1. TypeOK /\ ClientInv(s)
    BY <1>1 DEF IInv, PeerInv
  <2>2. accepted[s] <= 1 /\ runs[s] <= accepted[s] /\ accepted[s] \in Nat /\ runs[s] \in Nat
    BY <2>1, PeerTypes DEF ClientInv
  <2> QED BY <2>2
<1> QED BY <1>1, Invariance, PTL
=============================================================================
