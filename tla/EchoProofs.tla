---------------------------- MODULE EchoProofs ----------------------------
(***************************************************************************)
(* Proofs about the benchmark, EchoServers, for any clients, descriptors   *)
(* and tasks: the types, that each open descriptor has one handler and     *)
(* each closed one none, that no handler is lost, that requests and        *)
(* replies alternate, and that a connection is served once.                *)
(*                                                                         *)
(* OneHandler counts where a descriptor is known.  The inductive form      *)
(* compares: a connection has one place (Connections), the servers of      *)
(* events know a descriptor in one place (Known), and the tasks of libco's *)
(* server hold different ones (Held).  A number that accept() gives anew   *)
(* has no handler left, because exactly the open ones have (Known, Held).  *)
(***************************************************************************)
EXTENDS EchoServers, FiniteSetTheorems, SequenceTheorems,
        WellFoundedInduction, TLAPS

(* The types of the clients and their connections, and that each           *)
(* connection waits for accept or has one descriptor.                      *)
NetTypes ==
  /\ threads \in BOOLEAN /\ killed \in BOOLEAN /\ limit \in 1..MaxFd
  /\ phase \in [Clients -> {"new", "send", "recv", "gone"}]
  /\ sends \in [Clients -> 0..MaxSends]
  /\ backlog \in Seq(Clients) /\ peer \in [Fds -> Clients \cup {Null}]
  /\ req \in [Clients -> BOOLEAN] /\ rep \in [Clients -> BOOLEAN]
  /\ shut \in [Clients -> BOOLEAN]
  /\ resetC \in [Clients -> BOOLEAN] /\ resetS \in [Clients -> BOOLEAN]

Connections ==
  /\ IsInjective(backlog)
  /\ \A fd, gd \in Fds : peer[fd] = peer[gd] /\ peer[fd] # Null => fd = gd
  /\ \A fd \in Fds : peer[fd] \notin Range(backlog)
  /\ \A c \in Clients : phase[c] = "new" =>
       c \notin Range(backlog) /\ \A fd \in Fds : peer[fd] # c

(* The servers of events: an open descriptor is watched, was found ready   *)
(* or is handled, and what is one-shot is in one of these places.          *)
Known ==
  /\ IsInjective(queue) /\ cur \notin Range(queue)
  /\ IF oneShot THEN Range(queue) \cap watched = {} /\ cur \notin watched
                ELSE Range(queue) \subseteq watched /\ cur \in watched \cup {Null}
  /\ \A fd \in Fds :
       peer[fd] # Null <=> fd \in watched \cup Range(queue) \cup {cur}
  /\ Listen \in watched \cup Range(queue) \cup {cur}

(* The descriptor that t serves, or was handed and has yet to take.        *)
Held(t) == IF running = t /\ at = "take" THEN taskFd[t] ELSE fdOf[t]

(* The coroutines that wait in the loop or are to be resumed by it         *)
Waiting == polls \cup Range(active)

(* libco's server: where a coroutine is, and what it has there.            *)
Placed ==
  /\ IsInjective(pool) /\ IsInjective(active) /\ polls \cap Range(active) = {}
  /\ \A t \in Range(pool) : /\ taskFd[t] = NoFd /\ fdOf[t] = NoFd
                            /\ t \notin Waiting /\ t # running
  /\ \A t \in Tasks : taskFd[t] # NoFd => running = t /\ at = "take"
  /\ \A t \in Tasks : t \in Waiting => fdOf[t] # NoFd
  /\ running \notin Waiting
  /\ running \in Tasks =>
       /\ at # "accept"
       /\ at # "take" => fdOf[running] # NoFd
  /\ nested => running \in Tasks /\ Acceptor \notin Waiting
  /\ nested \/ Acceptor \in Waiting \cup {running}

(* Tasks hold different descriptors, those that are open, and a task that  *)
(* holds one runs or waits for it.                                         *)
Holds ==
  /\ \A t, u \in Tasks : Held(t) = Held(u) /\ Held(t) # NoFd => t = u
  /\ \A t \in Tasks : Held(t) # NoFd =>
       peer[Held(t)] # Null /\ t \in Waiting \cup {running}
  /\ \A fd \in Fds : peer[fd] # Null => \E t \in Tasks : Held(t) = fd
  /\ agents = Open /\ nonblock = Open

IndInv ==
  /\ NetTypes /\ Connections /\ EventTypeOK /\ LibcoTypeOK /\ libco \in BOOLEAN
  /\ ~libco => Known
  /\ libco => ~oneShot /\ Placed /\ Holds

(* No handler is lost: the listener is watched, found ready or handled,    *)
(* accept_routine waits, runs or has resumed the task that runs, and an    *)
(* open descriptor is with a task that waits or runs (corlib/main.cpp:86,  *)
(* libco/main.cpp:44-63 and 90-119).                                       *)
Attended ==
  /\ ~libco => Listen \in watched \cup Range(queue) \cup {cur}
  /\ libco => /\ nested \/ Acceptor \in Waiting \cup {running}
              /\ \A fd \in Fds : peer[fd] # Null =>
                   \E t \in Waiting \cup {running} : t \in Tasks /\ Held(t) = fd

-----------------------------------------------------------------------------
(* What the operators on sequences and sets return.                        *)

(* The elements of a sequence.                                             *)
LEMMA RangeOf ==
  ASSUME NEW S, NEW s \in Seq(S)
  PROVE  /\ Range(s) \subseteq S /\ DOMAIN s = 1..Len(s) /\ Len(s) \in Nat
         /\ Range(s) = {s[i] : i \in 1..Len(s)}
         /\ Range(<<>>) = {} /\ (Range(s) = {} <=> s = <<>>) /\ IsInjective(<<>>)
         /\ \A e : Contains(s, e) <=> e \in Range(s)
<1>1. /\ DOMAIN s = 1..Len(s) /\ Len(s) \in Nat /\ \A i \in 1..Len(s) : s[i] \in S
      /\ Len(s) = 0 <=> s = <<>>
  BY LenProperties, ElementOfSeq, EmptySeq
<1>2. Range(s) = {s[i] : i \in 1..Len(s)}
  BY <1>1, Zenon DEF Range
<1>3. Range(s) = {} <=> s = <<>>
  <2>1. Len(s) # 0 => 1 \in 1..Len(s)
    BY <1>1
  <2>2. Len(s) = 0 => 1..Len(s) = {}
    BY <1>1
  <2> QED
    BY <1>1, <1>2, <2>1, <2>2, Zenon
<1>4. DOMAIN <<>> = {}
  OBVIOUS
<1>5. Range(<<>>) = {} /\ IsInjective(<<>>)
  BY <1>4, Zenon DEF Range, IsInjective
<1>6. \A e : Contains(s, e) <=> e \in Range(s)
  BY <1>2, Zenon DEF Contains
<1>7. Range(s) \subseteq S
  BY <1>1, <1>2
<1> QED
  BY <1>1, <1>2, <1>3, <1>5, <1>6, <1>7

(* One element more.                                                       *)
LEMMA Appended ==
  ASSUME NEW S, NEW s \in Seq(S), NEW e \in S
  PROVE  /\ Append(s, e) \in Seq(S) /\ Range(Append(s, e)) = Range(s) \cup {e}
         /\ IsInjective(s) /\ e \notin Range(s) => IsInjective(Append(s, e))
<1> DEFINE t == Append(s, e)
<1>1. /\ t \in Seq(S) /\ Len(t) = Len(s) + 1 /\ t # <<>> /\ t[Len(s) + 1] = e
      /\ \A i \in 1..Len(s) : t[i] = s[i]
      /\ DOMAIN s = 1..Len(s) /\ DOMAIN t = 1..Len(t) /\ Len(s) \in Nat
  BY AppendProperties, LenProperties
<1>2. Range(t) = Range(s) \cup {e}
  BY <1>1 DEF Range
<1>3. IsInjective(s) /\ e \notin Range(s) => IsInjective(t)
  BY <1>1 DEF IsInjective, Range
<1> QED
  BY <1>1, <1>2, <1>3

(* The first element and the others.                                       *)
LEMMA Headed ==
  ASSUME NEW S, NEW s \in Seq(S), s # <<>>
  PROVE  /\ Head(s) \in S /\ Tail(s) \in Seq(S) /\ Range(s) = {Head(s)} \cup Range(Tail(s))
         /\ IsInjective(s) => Head(s) \notin Range(Tail(s)) /\ IsInjective(Tail(s))
<1>1. /\ Head(s) \in S /\ Tail(s) \in Seq(S) /\ Len(Tail(s)) = Len(s) - 1
      /\ \A i \in 1..Len(Tail(s)) : Tail(s)[i] = s[i + 1]
      /\ DOMAIN s = 1..Len(s) /\ DOMAIN Tail(s) = 1..Len(Tail(s)) /\ Len(s) \in Nat \ {0}
      /\ Head(s) = s[1]
  BY HeadTailProperties, LenProperties, EmptySeq
<1>2. \A i \in 2..Len(s) : i - 1 \in 1..Len(Tail(s)) /\ s[i] = Tail(s)[i - 1]
  BY <1>1
<1>3. Range(s) = {Head(s)} \cup Range(Tail(s))
  <2>1. ASSUME NEW e \in Range(s) PROVE e \in {Head(s)} \cup Range(Tail(s))
    <3>1. PICK i \in 1..Len(s) : s[i] = e
      BY <1>1, Zenon DEF Range
    <3>2. CASE i = 1
      BY <1>1, <3>1, <3>2
    <3>3. CASE i # 1
      <4>1. i - 1 \in DOMAIN Tail(s) /\ Tail(s)[i - 1] = e
        BY <1>1, <1>2, <3>1, <3>3
      <4> QED
        BY <4>1, Zenon DEF Range
    <3> QED
      BY <3>2, <3>3
  <2>2. Head(s) \in Range(s)
    <3>1. 1 \in DOMAIN s
      BY <1>1
    <3> QED
      BY <1>1, <3>1, Zenon DEF Range
  <2>3. ASSUME NEW i \in DOMAIN Tail(s) PROVE Tail(s)[i] \in Range(s)
    <3>1. i + 1 \in DOMAIN s /\ Tail(s)[i] = s[i + 1]
      BY <1>1
    <3> QED
      BY <3>1, Zenon DEF Range
  <2>4. Range(Tail(s)) \subseteq Range(s)
    BY <2>3, Zenon DEF Range
  <2> QED
    BY <2>1, <2>2, <2>4
<1>4. IsInjective(s) => Head(s) \notin Range(Tail(s)) /\ IsInjective(Tail(s))
  BY <1>1 DEF IsInjective, Range
<1> QED
  BY <1>1, <1>3, <1>4

(* The last element and the others.                                        *)
LEMMA Fronted ==
  ASSUME NEW S, NEW s \in Seq(S), s # <<>>
  PROVE  /\ Last(s) \in S /\ Front(s) \in Seq(S) /\ Range(s) = {Last(s)} \cup Range(Front(s))
         /\ IsInjective(s) => Last(s) \notin Range(Front(s)) /\ IsInjective(Front(s))
<1>1. DOMAIN s = 1..Len(s) /\ Len(s) \in Nat \ {0} /\ \A i \in 1..Len(s) : s[i] \in S
  BY LenProperties, EmptySeq, ElementOfSeq
<1>2. /\ Front(s) \in Seq(S) /\ Len(Front(s)) = Len(s) - 1
      /\ \A i \in 1..(Len(s) - 1) : Front(s)[i] = s[i]
  <2>1. 1 \in Int /\ Len(s) - 1 \in Int /\ \A i \in 1..(Len(s) - 1) : s[i] \in S
    BY <1>1
  <2> QED
    BY <1>1, <2>1, SubSeqProperties DEF Front
<1>3. DOMAIN Front(s) = 1..(Len(s) - 1)
  BY <1>2
<1>4. Range(s) = {Last(s)} \cup Range(Front(s))
  BY <1>1, <1>2, <1>3 DEF Range, Last
<1>5. IsInjective(s) => Last(s) \notin Range(Front(s)) /\ IsInjective(Front(s))
  BY <1>1, <1>2, <1>3 DEF IsInjective, Range, Last
<1> QED
  BY <1>1, <1>2, <1>4, <1>5 DEF Last

(* An order of a finite set, as SetToSeqs gives it, has elements of the    *)
(* set, each once.                                                         *)
LEMMA Ordered ==
  ASSUME NEW S, IsFiniteSet(S), NEW s \in SetToSeqs(S)
  PROVE  s \in Seq(S) /\ Range(s) \subseteq S /\ IsInjective(s)
<1> DEFINE n == Cardinality(S)
<1>1. n \in Nat
  BY FS_CardinalityType
<1>2. s \in [1..n -> S] /\ \A i, j \in 1..n : i # j => s[i] # s[j]
  BY Zenon DEF SetToSeqs
<1> HIDE DEF n
<1>3. DOMAIN s = 1..n
  BY <1>2
<1>4. s \in Seq(S)
  BY <1>1, <1>2
<1>5. Range(s) \subseteq S
  BY <1>2, <1>3 DEF Range
<1>6. IsInjective(s)
  BY <1>2, <1>3, Zenon DEF IsInjective
<1> QED
  BY <1>4, <1>5, <1>6

(* SetToSeq gives such an order, too.                                      *)
LEMMA OneOrder ==
  ASSUME NEW S, IsFiniteSet(S)
  PROVE  SetToSeq(S) \in Seq(S) /\ IsInjective(SetToSeq(S))
<1> DEFINE n == Cardinality(S)
<1>1. n \in Nat /\ ExistsBijection(1..n, S)
  BY FS_CardinalityType
<1> HIDE DEF n
<1>2. PICK f \in [1..n -> S] : IsInjective(f)
  BY <1>1 DEF ExistsBijection, Bijection, Injection
<1>3. SetToSeq(S) = CHOOSE g \in [1..n -> S] : IsInjective(g)
  BY Zenon DEF SetToSeq, n
<1>4. SetToSeq(S) \in [1..n -> S] /\ IsInjective(SetToSeq(S))
  BY <1>2, <1>3, Zenon
<1> QED
  BY <1>1, <1>4

(* The number of elements of a set that has at most, or exactly, one.      *)
LEMMA AtMostOne ==
  ASSUME NEW S, \A x, y \in S : x = y
  PROVE  /\ S = {} => Cardinality(S) = 0
         /\ S # {} => Cardinality(S) = 1
<1>1. CASE S = {}
  BY <1>1, FS_EmptySet
<1>2. CASE S # {}
  <2>1. PICK x \in S : S = {x}
    BY <1>2
  <2> QED
    BY <1>2, <2>1, FS_Singleton
<1> QED
  BY <1>1, <1>2

(* accept() has found the lowest number, and it was free.                  *)
LEMMA NewIsFree ==
  ASSUME NetTypes, Free # {}
  PROVE  NewFd \in Fds /\ peer[NewFd] = Null
<1>1. limit \in Nat /\ limit <= MaxFd /\ Free \subseteq 1..limit
  BY EchoAssumption DEF NetTypes, Free
<1>2. PICK m \in Free : \A y \in Free : m <= y
  <2> DEFINE R == OpToRel(<, Nat)
  <2>1. \A d, e \in Nat : e < d => <<e, d>> \in R
    BY Zenon DEF OpToRel
  <2>2. IsWellFoundedOn(R, Nat)
    BY NatLessThanWellFounded, Zenon
  <2> HIDE DEF R
  <2>3. Free \subseteq Nat
    BY <1>1
  <2>4. PICK m \in Free : \A y \in Free : ~ (<<y, m>> \in R)
    BY <2>2, <2>3, WFMin, Zenon
  <2>5. \A y \in Free : ~ (y < m)
    BY <2>1, <2>3, <2>4, Zenon
  <2> QED
    BY <2>3, <2>5
<1>3. NewFd \in Free
  BY <1>2, Zenon DEF NewFd, Min
<1>4. \A fd \in 1..limit : fd \in 1..MaxFd
  BY <1>1, EchoAssumption
<1> QED
  BY <1>3, <1>4, Zenon DEF Free, Fds

-----------------------------------------------------------------------------
(* The connections: what each call of a client or of the server keeps.     *)

(* A step of a client: it only adds itself to the backlog, once.           *)
LEMMA ClientStep ==
  ASSUME NetTypes, Connections, NEW c \in Clients, client_task(c)
  PROVE  NetTypes' /\ Connections' /\ peer' = peer
<1> USE DEF NetTypes, clientVars, tcp
<1>1. ASSUME Exit(c), \A d \in Clients : phase[d] # "new" \/ phase'[d] \in {"new", "gone"}
      PROVE  NetTypes' /\ Connections' /\ peer' = peer
  <2>1. \A d \in Clients : phase'[d] = "new" => phase[d] = "new"
    BY <1>1, Zenon DEF Exit
  <2>2. /\ phase' \in [Clients -> {"new", "send", "recv", "gone"}]
        /\ UNCHANGED <<threads, limit, sends, backlog, peer, req, rep, shut, resetC, killed>>
    BY <1>1 DEF Exit
  <2>3. resetS' \in [Clients -> BOOLEAN]
    BY <1>1, Zenon DEF Exit
  <2>4. NetTypes'
    BY <2>2, <2>3
  <2> QED
    BY <2>1, <2>2, <2>4 DEF Connections
<1>2. ASSUME Exit(c)
      PROVE  NetTypes' /\ Connections' /\ peer' = peer
  <2>1. \A d \in Clients : phase'[d] \in {phase[d], "gone"}
    BY <1>2 DEF Exit
  <2> QED
    BY <1>1, <1>2, <2>1
<1>3. CASE Connect(c)
  <2>1. /\ c \notin Range(backlog) /\ (\A fd \in Fds : peer[fd] # c) /\ phase[c] = "new"
        /\ phase' = [phase EXCEPT ![c] = "send"] /\ backlog' = Append(backlog, c)
        /\ UNCHANGED <<threads, limit, sends, peer, req, rep, shut, resetC, resetS, killed>>
    BY <1>3 DEF Connect, Connections
  <2>2. /\ backlog' \in Seq(Clients) /\ Range(backlog') = Range(backlog) \cup {c}
        /\ IsInjective(backlog')
    BY <2>1, Appended DEF Connections
  <2>3. NetTypes'
    BY <2>1, <2>2
  <2> QED
    BY <2>1, <2>2, <2>3 DEF Connections
<1>4. ASSUME SendRequest(c), ~resetC[c]
      PROVE  NetTypes' /\ Connections' /\ peer' = peer
  <2>1. /\ phase[c] = "send" /\ sends[c] < MaxSends
        /\ phase' = [phase EXCEPT ![c] = "recv"] /\ sends' = [sends EXCEPT ![c] = @ + 1]
        /\ req' = [req EXCEPT ![c] = TRUE]
        /\ UNCHANGED <<threads, limit, backlog, peer, rep, shut, resetC, resetS, killed>>
    BY <1>4 DEF SendRequest
  <2>2. sends' \in [Clients -> 0..MaxSends]
    <3>1. sends[c] + 1 \in 0..MaxSends
      BY <2>1, EchoAssumption
    <3> QED
      BY <2>1, <3>1
  <2>3. NetTypes'
    BY <2>1, <2>2
  <2> QED
    BY <2>1, <2>3 DEF Connections
<1>5. CASE ResetArrives(c)
  BY <1>5 DEF ResetArrives, Connections
<1>6. ASSUME ReceiveReply(c), rep[c] \/ (shut[c] /\ ~resetC[c])
      PROVE  NetTypes' /\ Connections' /\ peer' = peer
  <2>1. /\ phase[c] = "recv" /\ phase' = [phase EXCEPT ![c] = "send"]
        /\ rep' = [rep EXCEPT ![c] = FALSE]
        /\ UNCHANGED <<threads, limit, sends, backlog, peer, req, shut, resetC, resetS, killed>>
    BY <1>6, Zenon DEF ReceiveReply
  <2>2. NetTypes'
    BY <2>1
  <2> QED
    BY <2>1, <2>2 DEF Connections
<1>7. CASE TimeUp(c)
  BY <1>7 DEF TimeUp, Connections
<1> QED
  BY <1>2, <1>3, <1>4, <1>5, <1>6, <1>7 DEF client_task, SendRequest, ReceiveReply

(* accept() moves the oldest connection to a number that was free.         *)
LEMMA AcceptStep ==
  ASSUME NetTypes, Connections, Accepts, accept
  PROVE  /\ NetTypes' /\ Connections' /\ NewFd \in Fds /\ peer[NewFd] = Null
         /\ \A fd \in Fds : peer'[fd] # Null <=> peer[fd] # Null \/ fd = NewFd
<1> DEFINE n == NewFd
<1>1. n \in Fds /\ peer[n] = Null
  BY NewIsFree DEF Accepts
<1>2. /\ Head(backlog) \in Clients /\ Tail(backlog) \in Seq(Clients)
      /\ Range(backlog) = {Head(backlog)} \cup Range(Tail(backlog))
      /\ Head(backlog) \notin Range(Tail(backlog)) /\ IsInjective(Tail(backlog))
  BY Headed DEF NetTypes, Connections, Accepts
<1>3. /\ peer' = [peer EXCEPT ![n] = Head(backlog)] /\ backlog' = Tail(backlog)
      /\ UNCHANGED <<threads, phase, sends, limit, req, rep, shut, resetC, resetS, killed>>
  BY DEF accept, clientVars
<1> HIDE DEF n
<1>4. PICK c \in Clients : c = Head(backlog)
  BY <1>2
<1>5. /\ peer \in [Fds -> Clients \cup {Null}] /\ Null \notin Clients
      /\ peer' = [peer EXCEPT ![n] = c]
  BY <1>3, <1>4, EchoAssumption DEF NetTypes
<1>6. /\ \A fd \in Fds : peer'[fd] # Null <=> peer[fd] # Null \/ fd = n
      /\ peer' \in [Fds -> Clients \cup {Null}]
  BY <1>1, <1>5
<1>7. NetTypes'
  BY <1>2, <1>3, <1>6 DEF NetTypes
<1>8. \A fd \in Fds : peer[fd] # c /\ peer'[fd] = IF fd = n THEN c ELSE peer[fd]
  BY <1>1, <1>2, <1>4, <1>5 DEF Connections
<1>9. Connections'
  <2>1. IsInjective(backlog')
    BY <1>2, <1>3
  <2>2. ASSUME NEW fd \in Fds, NEW gd \in Fds, peer'[fd] = peer'[gd], peer'[fd] # Null
        PROVE  fd = gd
    BY <1>8, <2>2 DEF Connections
  <2>3. ASSUME NEW fd \in Fds PROVE peer'[fd] \notin Range(backlog')
    BY <1>2, <1>3, <1>4, <1>8 DEF Connections
  <2>4. ASSUME NEW d \in Clients, phase'[d] = "new"
        PROVE  d \notin Range(backlog') /\ \A fd \in Fds : peer'[fd] # d
    BY <1>2, <1>3, <1>4, <1>8, <2>4 DEF Connections
  <2> QED
    BY <2>1, <2>2, <2>3, <2>4 DEF Connections
<1> QED
  BY <1>1, <1>6, <1>7, <1>9 DEF n

(* recv() and send() leave the connections where they are.                 *)
LEMMA TransferStep ==
  ASSUME NetTypes, Connections, NEW fd \in Fds, recv(fd) \/ send(fd)
  PROVE  NetTypes' /\ Connections' /\ peer' = peer
<1>1. /\ req' \in [Clients -> BOOLEAN] /\ rep' \in [Clients -> BOOLEAN]
      /\ resetS' \in [Clients -> BOOLEAN] /\ killed' \in BOOLEAN
      /\ UNCHANGED <<threads, phase, sends, limit, backlog, peer, shut, resetC>>
  <2>1. CASE recv(fd)
    BY <2>1, Zenon DEF recv, NetTypes, clientVars
  <2>2. CASE send(fd)
    BY <2>2, Zenon DEF send, NetTypes, clientVars
  <2> QED
    BY <2>1, <2>2
<1> QED
  BY <1>1 DEF NetTypes, Connections

(* close() gives the number back.                                          *)
LEMMA ClosedStep ==
  ASSUME NetTypes, Connections, NEW fd \in Fds, close(fd)
  PROVE  /\ NetTypes' /\ Connections'
         /\ \A gd \in Fds : peer'[gd] # Null <=> peer[gd] # Null /\ gd # fd
<1>1. /\ peer' = [peer EXCEPT ![fd] = Null] /\ shut' = [shut EXCEPT ![peer[fd]] = TRUE]
      /\ resetC' = [resetC EXCEPT ![peer[fd]] = req[peer[fd]]]
      /\ UNCHANGED <<threads, phase, sends, limit, backlog, req, rep, resetS, killed>>
  BY DEF close, clientVars
<1>2. /\ peer' \in [Fds -> Clients \cup {Null}]
      /\ \A gd \in Fds : peer'[gd] = IF gd = fd THEN Null ELSE peer[gd]
  BY <1>1 DEF NetTypes
<1>3. shut' \in [Clients -> BOOLEAN] /\ resetC' \in [Clients -> BOOLEAN]
  <2>1. peer[fd] \in Clients => req[peer[fd]] \in BOOLEAN
    BY DEF NetTypes
  <2> QED
    BY <1>1, <2>1 DEF NetTypes
<1>4. NetTypes'
  BY <1>1, <1>2, <1>3 DEF NetTypes
<1>5. Null \notin Range(backlog) /\ Null \notin Clients
  BY RangeOf, EchoAssumption DEF NetTypes
<1> QED
  BY <1>1, <1>2, <1>4, <1>5 DEF Connections

-----------------------------------------------------------------------------
(* The servers of events.                                                  *)

(* A turn finds descriptors that are watched, each once.                   *)
LEMMA TurnStep ==
  ASSUME NetTypes, Connections, EventTypeOK, Known, Turn
  PROVE  NetTypes' /\ Connections' /\ EventTypeOK' /\ Known'
<1> DEFINE F == {x \in watched : Ready(x)}
<1>1. /\ cur = Null /\ queue = <<>> /\ queue' \in SetToSeqs(F) /\ cur' = cur /\ step' = step
      /\ watched' = IF oneShot THEN watched \ Range(queue') ELSE watched
      /\ oneShot' = oneShot /\ UNCHANGED netVars
  BY DEF Turn
<1>2. IsFiniteSet(F)
  <2>1. IsFiniteSet(Fds)
    BY FS_Interval, EchoAssumption DEF Fds
  <2>2. IsFiniteSet(Fds \cup {Listen})
    BY <2>1, FS_AddElement
  <2> QED
    BY <2>2, FS_Subset DEF EventTypeOK
<1>3. queue' \in Seq(F) /\ Range(queue') \subseteq F /\ IsInjective(queue')
  BY <1>1, <1>2, Ordered
<1>4. F \subseteq watched
  OBVIOUS
<1> HIDE DEF F
<1>5. watched \subseteq Fds \cup {Listen} /\ Null \notin Fds \cup {Listen}
  BY EchoAssumption DEF EventTypeOK, Fds, Listen
<1>6. queue' \in Seq(Fds \cup {Listen})
  BY <1>3, <1>4, <1>5
<1>7. Range(queue) = {}
  BY <1>1, RangeOf DEF EventTypeOK
<1>8. EventTypeOK'
  BY <1>1, <1>6, Zenon DEF EventTypeOK
<1>9. NetTypes' /\ Connections' /\ peer' = peer
  BY <1>1 DEF netVars, clientVars, tcp, NetTypes, Connections
<1> QED
  BY <1>1, <1>3, <1>4, <1>5, <1>7, <1>8, <1>9 DEF Known

(* The next one is handled.                                                *)
LEMMA HandleStep ==
  ASSUME NetTypes, Connections, EventTypeOK, Known, Handle
  PROVE  NetTypes' /\ Connections' /\ EventTypeOK' /\ Known'
<1>1. /\ cur = Null /\ queue # <<>> /\ cur' = Head(queue) /\ queue' = Tail(queue)
      /\ watched' = watched /\ oneShot' = oneShot /\ UNCHANGED netVars
      /\ step' \in {"accept", "recv"}
  BY DEF Handle
<1>2. Null \notin Fds \cup {Listen}
  BY EchoAssumption DEF Fds, Listen
<1>3. /\ cur' \in Fds \cup {Listen} /\ queue' \in Seq(Fds \cup {Listen})
      /\ Range(queue) = {cur'} \cup Range(queue')
      /\ cur' \notin Range(queue') /\ IsInjective(queue')
  BY <1>1, Headed DEF EventTypeOK, Known
<1>4. EventTypeOK'
  BY <1>1, <1>3 DEF EventTypeOK
<1>5. NetTypes' /\ Connections' /\ peer' = peer
  BY <1>1 DEF netVars, clientVars, tcp, NetTypes, Connections
<1> QED
  BY <1>1, <1>2, <1>3, <1>4, <1>5 DEF Known

(* A connection is accepted, if there is one and a number for it: the      *)
(* number was not known, and is watched from now on.                       *)
LEMMA AcceptedStep ==
  ASSUME NetTypes, Connections, EventTypeOK, Known, test_accept \/ accept_conn_cb
  PROVE  NetTypes' /\ Connections' /\ EventTypeOK' /\ Known'
<1>1. /\ cur = Listen /\ cur' = Null /\ queue' = queue /\ step' = step /\ oneShot' = oneShot
      /\ \/ Accepts /\ accept /\ watched' = watched \cup {NewFd, Listen}
         \/ ~Accepts /\ UNCHANGED netVars /\ watched' = watched \cup {Listen}
  <2>1. CASE test_accept
    BY <2>1 DEF test_accept
  <2>2. CASE accept_conn_cb
    <3>1. ~oneShot /\ cur = Listen
      BY <2>2 DEF accept_conn_cb
    <3>2. Listen \in watched
      BY <3>1, EchoAssumption DEF Known, Listen
    <3> QED
      BY <2>2, <3>2 DEF accept_conn_cb
  <2> QED
    BY <2>1, <2>2
<1>2. /\ Null \notin Fds \cup {Listen} /\ Listen \notin Fds
      /\ Range(queue) \subseteq Fds \cup {Listen}
  BY RangeOf, EchoAssumption DEF EventTypeOK, Fds, Listen
<1>3. CASE Accepts /\ accept /\ watched' = watched \cup {NewFd, Listen}
  <2> DEFINE n == NewFd
  <2>1. /\ NetTypes' /\ Connections' /\ n \in Fds /\ peer[n] = Null
        /\ \A fd \in Fds : peer'[fd] # Null <=> peer[fd] # Null \/ fd = n
    BY <1>3, AcceptStep
  <2>2. watched' = watched \cup {n, Listen}
    BY <1>3
  <2> HIDE DEF n
  <2>3. n \notin watched \cup Range(queue) \cup {cur}
    BY <2>1 DEF Known
  <2>4. EventTypeOK'
    BY <1>1, <2>1, <2>2 DEF EventTypeOK
  <2>5. /\ IsInjective(queue') /\ cur' \notin Range(queue')
        /\ Listen \in watched' \cup Range(queue') \cup {cur'}
    BY <1>1, <1>2, <2>2 DEF Known
  <2>6. IF oneShot' THEN Range(queue') \cap watched' = {} /\ cur' \notin watched'
                    ELSE Range(queue') \subseteq watched' /\ cur' \in watched' \cup {Null}
    <3>1. /\ Range(queue') = Range(queue) /\ cur' = Null /\ oneShot' = oneShot
          /\ watched' = watched \cup {n, Listen} /\ watched \subseteq Fds \cup {Listen}
          /\ n \in Fds /\ Listen \notin Range(queue) /\ n \notin Range(queue)
      BY <1>1, <2>1, <2>2, <2>3 DEF Known, EventTypeOK
    <3> QED
      BY <1>2, <3>1 DEF Known
  <2>7. \A fd \in Fds :
          peer'[fd] # Null <=> fd \in watched' \cup Range(queue') \cup {cur'}
    BY <1>1, <1>2, <2>1, <2>2 DEF Known
  <2> QED
    BY <2>1, <2>4, <2>5, <2>6, <2>7 DEF Known
<1>4. CASE UNCHANGED netVars /\ watched' = watched \cup {Listen}
  <2>1. NetTypes' /\ Connections' /\ peer' = peer
    BY <1>4 DEF netVars, clientVars, tcp, NetTypes, Connections
  <2>2. EventTypeOK'
    BY <1>1, <1>4 DEF EventTypeOK
  <2>3. /\ IsInjective(queue') /\ cur' \notin Range(queue')
        /\ Listen \in watched' \cup Range(queue') \cup {cur'}
    BY <1>1, <1>2, <1>4 DEF Known
  <2>4. IF oneShot' THEN Range(queue') \cap watched' = {} /\ cur' \notin watched'
                    ELSE Range(queue') \subseteq watched' /\ cur' \in watched' \cup {Null}
    <3>1. /\ Range(queue') = Range(queue) /\ cur' = Null /\ oneShot' = oneShot
          /\ watched' = watched \cup {Listen} /\ watched \subseteq Fds \cup {Listen}
          /\ Listen \notin Range(queue)
      BY <1>1, <1>4 DEF Known, EventTypeOK
    <3> QED
      BY <1>2, <3>1 DEF Known
  <2>5. \A fd \in Fds :
          peer'[fd] # Null <=> fd \in watched' \cup Range(queue') \cup {cur'}
    BY <1>1, <1>2, <1>4, <2>1 DEF Known
  <2> QED
    BY <2>1, <2>2, <2>3, <2>4, <2>5 DEF Known
<1> QED
  BY <1>1, <1>3, <1>4

(* The callback of a connection.                                           *)
LEMMA ServedStep ==
  ASSUME NetTypes, Connections, EventTypeOK, Known, Recv \/ Send \/ Close
  PROVE  NetTypes' /\ Connections' /\ EventTypeOK' /\ Known'
<1>1. CASE Recv \/ Send
  <2>1. /\ NetTypes' /\ Connections' /\ peer' = peer
    <3>1. cur \in Fds /\ (recv(cur) \/ send(cur) \/ UNCHANGED netVars)
      BY <1>1 DEF Recv, Send
    <3>2. CASE UNCHANGED netVars
      BY <3>2 DEF netVars, clientVars, tcp, NetTypes, Connections
    <3> QED
      BY <3>1, <3>2, TransferStep
  <2>2. UNCHANGED <<oneShot, watched, queue, cur>> /\ step' \in {"send", "close"}
    BY <1>1 DEF Recv, Send
  <2>3. EventTypeOK'
    BY <2>2 DEF EventTypeOK
  <2> QED
    BY <2>1, <2>2, <2>3 DEF Known
<1>2. CASE Close
  <2>1. /\ cur \in Fds /\ close(cur) /\ watched' = watched \ {cur} /\ cur' = Null
        /\ UNCHANGED <<oneShot, queue, step>>
    BY <1>2 DEF Close
  <2>2. /\ NetTypes' /\ Connections'
        /\ \A fd \in Fds : peer'[fd] # Null <=> peer[fd] # Null /\ fd # cur
    BY <2>1, ClosedStep
  <2>3. /\ Null \notin Fds \cup {Listen} /\ Listen \notin Fds
        /\ Range(queue) \subseteq Fds \cup {Listen}
    BY RangeOf, EchoAssumption DEF EventTypeOK, Fds, Listen
  <2>4. EventTypeOK'
    BY <2>1 DEF EventTypeOK
  <2>5. /\ IsInjective(queue') /\ cur' \notin Range(queue')
        /\ Listen \in watched' \cup Range(queue') \cup {cur'}
    BY <2>1, <2>3 DEF Known
  <2>6. IF oneShot' THEN Range(queue') \cap watched' = {} /\ cur' \notin watched'
                    ELSE Range(queue') \subseteq watched' /\ cur' \in watched' \cup {Null}
    <3>1. /\ Range(queue') = Range(queue) /\ cur' = Null /\ oneShot' = oneShot
          /\ watched' = watched \ {cur} /\ watched \subseteq Fds \cup {Listen}
          /\ cur \notin Range(queue)
      BY <2>1 DEF Known, EventTypeOK
    <3> QED
      BY <2>3, <3>1 DEF Known
  <2>7. \A fd \in Fds :
          peer'[fd] # Null <=> fd \in watched' \cup Range(queue') \cup {cur'}
    BY <2>1, <2>2, <2>3 DEF Known
  <2> QED
    BY <2>2, <2>4, <2>5, <2>6, <2>7 DEF Known
<1> QED
  BY <1>1, <1>2

-----------------------------------------------------------------------------
(* The server on libco.                                                    *)

(* The special values differ from the others.                              *)
LEMMA Distinct ==
  /\ Cos = Tasks \cup {Acceptor} /\ Acceptor \notin Tasks /\ Null \notin Cos
  /\ NoFd \notin Fds /\ Null \notin Clients
BY TasksAssumption, EchoAssumption DEF Cos, NoFd, Fds

(* A step that takes no descriptor from a task or the loop's lists.        *)
LEMMA HeldOn ==
  ASSUME Holds, peer' = peer, UNCHANGED sockets,
         \A t \in Tasks : Held(t)' = Held(t),
         \A t \in Tasks : Held(t) # NoFd /\ t \in Waiting \cup {running}
                            => t \in Waiting' \cup {running'}
  PROVE  Holds'
<1>1. agents' = agents /\ nonblock' = nonblock /\ Open' = Open
  BY DEF sockets, Open
<1>2. /\ \A t, u \in Tasks : Held(t)' = Held(u)' /\ Held(t)' # NoFd => t = u
      /\ \A fd \in Fds : peer'[fd] # Null => \E t \in Tasks : Held(t)' = fd
  BY DEF Holds
<1>3. \A t \in Tasks : Held(t)' # NoFd =>
        peer'[Held(t)'] # Null /\ t \in Waiting' \cup {running'}
  BY DEF Holds
<1> HIDE DEF Held
<1> QED
  BY <1>1, <1>2, <1>3 DEF Holds

(* co_eventloop: the ready polls are taken out, each once.                 *)
LEMMA CoTurnStep ==
  ASSUME NetTypes, Connections, LibcoTypeOK, Placed, Holds, CoTurn
  PROVE  NetTypes' /\ Connections' /\ LibcoTypeOK' /\ Placed' /\ Holds'
<1> DEFINE F == {x \in polls : CoReady(x)}
<1>1. /\ running = Null /\ active = <<>> /\ active' \in SetToSeqs(F)
      /\ polls' = polls \ Range(active') /\ late' = late \ Range(active')
      /\ UNCHANGED <<netVars, pool, taskFd, fdOf, napping, running, nested, at, sockets,
                     errno, spun>>
  BY DEF CoTurn
<1>2. IsFiniteSet(F)
  <2>1. IsFiniteSet(Cos)
    BY FS_AddElement, TasksAssumption DEF Cos
  <2> QED
    BY <2>1, FS_Subset DEF LibcoTypeOK
<1>3. active' \in Seq(F) /\ Range(active') \subseteq F /\ IsInjective(active')
  BY <1>1, <1>2, Ordered
<1>4. F \subseteq polls
  OBVIOUS
<1> HIDE DEF F
<1>5. Range(active) = {}
  BY <1>1, RangeOf DEF LibcoTypeOK
<1>6. Waiting' = Waiting
  BY <1>1, <1>3, <1>4, <1>5 DEF Waiting
<1>7. NetTypes' /\ Connections' /\ peer' = peer
  BY <1>1 DEF netVars, clientVars, tcp, NetTypes, Connections
<1>8. LibcoTypeOK'
  <2>1. active' \in Seq(Cos)
    BY <1>3, <1>4 DEF LibcoTypeOK
  <2> QED
    BY <1>1, <2>1 DEF LibcoTypeOK, sockets
<1>9. Placed'
  BY <1>1, <1>3, <1>6 DEF Placed
<1>10. Holds'
  BY <1>1, <1>6, <1>7, HeldOn DEF Held
<1> QED
  BY <1>7, <1>8, <1>9, <1>10

(* A poll times out.                                                       *)
LEMMA TimeoutStep ==
  ASSUME NetTypes, Connections, LibcoTypeOK, Placed, Holds, NEW x \in Cos, Timeout(x)
  PROVE  NetTypes' /\ Connections' /\ LibcoTypeOK' /\ Placed' /\ Holds'
<1>1. /\ x \in polls /\ late' = late \cup {x}
      /\ UNCHANGED <<netVars, pool, taskFd, fdOf, polls, napping, active, running, nested, at,
                     sockets, errno, spun>>
  BY DEF Timeout
<1>2. NetTypes' /\ Connections' /\ peer' = peer
  BY <1>1 DEF netVars, clientVars, tcp, NetTypes, Connections
<1>3. LibcoTypeOK'
  BY <1>1 DEF LibcoTypeOK, sockets
<1>4. Waiting' = Waiting
  BY <1>1 DEF Waiting
<1>5. Placed'
  BY <1>1, <1>4 DEF Placed
<1>6. Holds'
  BY <1>1, <1>2, <1>4, HeldOn DEF Held
<1> QED
  BY <1>2, <1>3, <1>5, <1>6

(* co_resume of the next one: a task goes on with the descriptor it has    *)
(* polled.                                                                 *)
LEMMA ResumeStep ==
  ASSUME NetTypes, Connections, LibcoTypeOK, Placed, Holds, Resume
  PROVE  NetTypes' /\ Connections' /\ LibcoTypeOK' /\ Placed' /\ Holds'
<1>1. /\ running = Null /\ active # <<>> /\ running' = Head(active) /\ active' = Tail(active)
      /\ at' = IF running' = Acceptor THEN "accept" ELSE "read"
      /\ UNCHANGED <<netVars, pool, taskFd, fdOf, polls, napping, late, nested, sockets,
                     errno, spun>>
  BY DEF Resume
<1>2. /\ running' \in Cos /\ active' \in Seq(Cos)
      /\ Range(active) = {running'} \cup Range(active')
      /\ running' \notin Range(active') /\ IsInjective(active')
  BY <1>1, Headed DEF LibcoTypeOK, Placed
<1>3. Waiting = Waiting' \cup {running'} /\ running' \notin Waiting'
  BY <1>1, <1>2 DEF Waiting, Placed
<1>4. NetTypes' /\ Connections' /\ peer' = peer
  BY <1>1 DEF netVars, clientVars, tcp, NetTypes, Connections
<1>5. LibcoTypeOK'
  BY <1>1, <1>2 DEF LibcoTypeOK, sockets
<1>6. /\ ~nested /\ at' # "take" /\ running \notin Tasks
      /\ \A t \in Tasks : taskFd[t] = NoFd
  BY <1>1, Distinct DEF Placed
<1>7. running' \in Tasks => at' # "accept" /\ fdOf[running'] # NoFd
  BY <1>1, <1>3, Distinct DEF Placed
<1>8. Placed'
  <2>1. /\ IsInjective(pool') /\ polls' \cap Range(active') = {}
        /\ \A t \in Range(pool') : /\ taskFd'[t] = NoFd /\ fdOf'[t] = NoFd
                                   /\ t \notin Waiting' /\ t # running'
    BY <1>1, <1>2, <1>3 DEF Placed
  <2>2. /\ \A t \in Tasks : taskFd'[t] = NoFd
        /\ \A t \in Tasks : t \in Waiting' => fdOf'[t] # NoFd
        /\ ~nested' /\ Acceptor \in Waiting' \cup {running'}
    BY <1>1, <1>3, <1>6, Distinct DEF Placed
  <2> QED
    BY <1>1, <1>2, <1>3, <1>6, <1>7, <2>1, <2>2 DEF Placed
<1>9. Holds'
  <2>1. \A t \in Tasks : Held(t)' = Held(t)
    BY <1>1, <1>6 DEF Held
  <2> QED
    BY <1>1, <1>3, <1>4, <1>6, <2>1, HeldOn
<1> QED
  BY <1>4, <1>5, <1>8, <1>9

(* accept_routine waits.                                                   *)
LEMMA AcceptWaitsStep ==
  ASSUME NetTypes, Connections, LibcoTypeOK, Placed, Holds, AcceptWaits
  PROVE  NetTypes' /\ Connections' /\ LibcoTypeOK' /\ Placed' /\ Holds'
<1>1. /\ running = Acceptor /\ napping' = (pool = <<>>)
      /\ errno' = IF pool = <<>> THEN errno ELSE IF backlog = <<>> THEN "EAGAIN" ELSE "EMFILE"
      /\ polls' = polls \cup {running} /\ running' = (IF nested THEN Acceptor ELSE Null)
      /\ at' = "accept" /\ nested' = FALSE
      /\ UNCHANGED <<netVars, pool, taskFd, fdOf, late, active, nonblock, agents, spun>>
  BY DEF AcceptWaits, Polls, Yields, loop, sockets
<1>2. ~nested /\ running' = Null /\ \A t \in Tasks : taskFd[t] = NoFd
  BY <1>1, Distinct DEF Placed
<1>3. NetTypes' /\ Connections' /\ peer' = peer
  BY <1>1 DEF netVars, clientVars, tcp, NetTypes, Connections
<1>4. LibcoTypeOK'
  BY <1>1, <1>2, Distinct DEF LibcoTypeOK
<1>5. Waiting' = Waiting \cup {Acceptor} /\ Acceptor \notin Waiting /\ Null \notin Waiting
  <2>1. Waiting \subseteq Cos
    BY RangeOf DEF LibcoTypeOK, Waiting
  <2> QED
    BY <1>1, <2>1, Distinct DEF Waiting, Placed
<1>6. Placed'
  <2>1. polls' \cap Range(active') = {}
    BY <1>1, <1>5 DEF Placed, Waiting
  <2>2. Range(pool) \subseteq Tasks
    BY RangeOf DEF LibcoTypeOK
  <2> QED
    BY <1>1, <1>2, <1>5, <2>1, <2>2, Distinct DEF Placed
<1>7. Holds'
  <2>1. \A t \in Tasks : Held(t)' = Held(t)
    BY <1>1, <1>2, Distinct DEF Held
  <2> QED
    BY <1>1, <1>3, <1>5, <2>1, HeldOn, Distinct DEF sockets
<1> QED
  BY <1>3, <1>4, <1>6, <1>7

(* accept_routine resumes an idle task and hands it the connection: the    *)
(* task held nothing, and the number was nobody's.                         *)
LEMMA AcceptHandsStep ==
  ASSUME NetTypes, Connections, LibcoTypeOK, Placed, Holds, AcceptHands
  PROVE  NetTypes' /\ Connections' /\ LibcoTypeOK' /\ Placed' /\ Holds'
<1> DEFINE n == NewFd
           u == Last(pool)
<1>1. /\ running = Acceptor /\ pool # <<>> /\ Accepts /\ accept
      /\ agents' = agents \cup {n} /\ nonblock' = nonblock \cup {n}
      /\ taskFd' = [taskFd EXCEPT ![u] = n] /\ pool' = Front(pool)
      /\ running' = u /\ nested' = TRUE /\ at' = "take"
      /\ UNCHANGED <<fdOf, polls, napping, late, active, errno, spun>>
  BY DEF AcceptHands, co_accept, SetNonBlock, loop
<1>2. /\ NetTypes' /\ Connections' /\ n \in Fds /\ peer[n] = Null
      /\ \A fd \in Fds : peer'[fd] # Null <=> peer[fd] # Null \/ fd = n
  BY <1>1, AcceptStep
<1>3. /\ u \in Tasks /\ pool' \in Seq(Tasks) /\ Range(pool) = {u} \cup Range(pool')
      /\ u \notin Range(pool') /\ IsInjective(pool')
  BY <1>1, Fronted DEF LibcoTypeOK, Placed
<1> HIDE DEF n, u
<1>4. /\ taskFd[u] = NoFd /\ fdOf[u] = NoFd /\ u \notin Waiting
      /\ Acceptor \notin Waiting /\ Waiting' = Waiting
      /\ (\A t \in Tasks : taskFd[t] = NoFd)
      /\ taskFd' \in [Tasks -> Fds \cup {NoFd}]
      /\ \A t \in Tasks : taskFd'[t] = IF t = u THEN n ELSE NoFd
  <2>1. /\ taskFd[u] = NoFd /\ fdOf[u] = NoFd /\ u \notin Waiting
        /\ Acceptor \notin Waiting /\ \A t \in Tasks : taskFd[t] = NoFd
    BY <1>1, <1>3, Distinct DEF Placed
  <2> QED
    BY <1>1, <1>2, <1>3, <2>1 DEF Waiting, LibcoTypeOK
<1>5. LibcoTypeOK'
  BY <1>1, <1>2, <1>3, <1>4, Distinct DEF LibcoTypeOK
<1>6. Placed'
  <2>1. \A t \in Range(pool') : /\ taskFd'[t] = NoFd /\ fdOf'[t] = NoFd
                                /\ t \notin Waiting' /\ t # running'
    <3>1. Range(pool') \subseteq Tasks
      BY <1>3, RangeOf
    <3> QED
      BY <1>1, <1>3, <1>4, <3>1 DEF Placed
  <2>2. /\ \A t \in Tasks : taskFd'[t] # NoFd => running' = t /\ at' = "take"
        /\ \A t \in Tasks : t \in Waiting' => fdOf'[t] # NoFd
        /\ IsInjective(active') /\ polls' \cap Range(active') = {}
    BY <1>1, <1>4 DEF Placed
  <2> QED
    BY <1>1, <1>3, <1>4, <2>1, <2>2, Distinct DEF Placed
<1>7. /\ \A t \in Tasks : Held(t) = fdOf[t] /\ Held(t)' = IF t = u THEN n ELSE fdOf[t]
      /\ \A t \in Tasks : Held(t) # n
  <2>1. \A t \in Tasks : Held(t) = fdOf[t] /\ Held(t)' = IF t = u THEN n ELSE fdOf[t]
    BY <1>1, <1>4, Distinct DEF Held
  <2> QED
    BY <1>2, <2>1, Distinct DEF Holds
<1>8. Holds'
  <2>1. \A t \in Tasks : fdOf[t] \in Fds \cup {NoFd}
    BY DEF LibcoTypeOK
  <2>2. /\ \A t, v \in Tasks : fdOf[t] = fdOf[v] /\ fdOf[t] # NoFd => t = v
        /\ \A t \in Tasks : fdOf[t] # n /\
             (fdOf[t] # NoFd => peer[fdOf[t]] # Null /\ t \in Waiting \cup {running})
        /\ \A fd \in Fds : peer[fd] # Null => \E t \in Tasks : fdOf[t] = fd
    BY <1>7 DEF Holds
  <2>3. ASSUME NEW t \in Tasks, NEW v \in Tasks, Held(t)' = Held(v)', Held(t)' # NoFd
        PROVE  t = v
    BY <1>7, <2>2, <2>3
  <2>4. ASSUME NEW t \in Tasks, Held(t)' # NoFd
        PROVE  peer'[Held(t)'] # Null /\ t \in Waiting' \cup {running'}
    <3>1. CASE t = u
      BY <1>1, <1>2, <1>7, <3>1
    <3>2. CASE t # u
      <4>1. Held(t)' = fdOf[t] /\ fdOf[t] \in Fds /\ peer[fdOf[t]] # Null /\ t \in Waiting
        BY <1>1, <1>7, <2>1, <2>2, <2>4, <3>2, Distinct
      <4> QED
        BY <1>2, <1>4, <4>1
    <3> QED
      BY <3>1, <3>2
  <2>5. ASSUME NEW fd \in Fds, peer'[fd] # Null PROVE \E t \in Tasks : Held(t)' = fd
    <3>1. CASE fd = n
      BY <1>3, <1>7, <3>1
    <3>2. CASE fd # n
      <4>1. PICK t \in Tasks : fdOf[t] = fd
        BY <1>2, <2>2, <2>5, <3>2
      <4>2. t # u
        BY <1>4, <4>1, Distinct
      <4> QED
        BY <1>7, <4>1, <4>2
    <3> QED
      BY <3>1, <3>2
  <2>6. agents' = Open' /\ nonblock' = Open'
    <3>1. Open' = Open \cup {n}
      BY <1>2 DEF Open
    <3> QED
      BY <1>1, <3>1 DEF Holds
  <2> HIDE DEF Held
  <2> QED
    BY <2>3, <2>4, <2>5, <2>6 DEF Holds
<1> QED
  BY <1>2, <1>5, <1>6, <1>8

(* The running task waits for the descriptor it holds and goes back to     *)
(* accept_routine or to the loop.                                          *)
LEMMA PollsStep ==
  ASSUME LibcoTypeOK, Placed, Holds, running \in Tasks, Held(running) # NoFd, Polls,
         peer' = peer, UNCHANGED <<pool, late, active, agents, nonblock>>,
         taskFd' = [t \in Tasks |-> NoFd], fdOf' = [t \in Tasks |-> Held(t)]
  PROVE  /\ Placed' /\ Holds' /\ at' = "accept" /\ nested' = FALSE
         /\ fdOf' \in [Tasks -> Fds \cup {NoFd}] /\ polls' \subseteq Cos
         /\ polls \subseteq polls' /\ running' \in Cos \cup {Null}
<1>1. /\ polls' = polls \cup {running} /\ running' = (IF nested THEN Acceptor ELSE Null)
      /\ at' = "accept" /\ nested' = FALSE
  BY DEF Polls, Yields
<1>2. running' \notin Tasks /\ running' \in Cos \cup {Null}
  BY <1>1, Distinct
<1>3. \A t \in Tasks : Held(t) \in Fds \cup {NoFd} /\ fdOf'[t] = Held(t) /\ taskFd'[t] = NoFd
  BY DEF Held, LibcoTypeOK
<1>4. \A t \in Tasks : t # running => Held(t) = fdOf[t]
  BY DEF Held
<1>5. Waiting' = Waiting \cup {running} /\ running \notin Waiting /\ Waiting \subseteq Cos
  BY <1>1, RangeOf DEF Waiting, Placed, LibcoTypeOK
<1>6. Range(pool) \subseteq Tasks
  BY RangeOf DEF LibcoTypeOK
<1>7. Placed'
  <2>1. IsInjective(pool') /\ IsInjective(active') /\ polls' \cap Range(active') = {}
    BY <1>1, <1>5 DEF Placed, Waiting
  <2>2. \A t \in Range(pool') : /\ taskFd'[t] = NoFd /\ fdOf'[t] = NoFd
                                /\ t \notin Waiting' /\ t # running'
    BY <1>2, <1>3, <1>4, <1>5, <1>6 DEF Placed
  <2>3. \A t \in Tasks : t \in Waiting' => fdOf'[t] # NoFd
    BY <1>3, <1>4, <1>5 DEF Placed
  <2>4. running' \notin Waiting' /\ Acceptor \in Waiting' \cup {running'}
    BY <1>1, <1>5, Distinct DEF Placed
  <2> QED
    BY <1>1, <1>2, <1>3, <2>1, <2>2, <2>3, <2>4 DEF Placed
<1>8. Holds'
  <2>1. \A t \in Tasks : Held(t)' = Held(t)
    BY <1>2, <1>3 DEF Held
  <2>2. UNCHANGED sockets
    BY DEF sockets
  <2> QED
    BY <1>5, <2>1, <2>2, HeldOn
<1>9. fdOf' \in [Tasks -> Fds \cup {NoFd}] /\ polls' \subseteq Cos
  BY <1>1, <1>3, Distinct DEF LibcoTypeOK
<1> QED
  BY <1>1, <1>2, <1>7, <1>8, <1>9

(* The outer loop of readwrite_routine: the task goes back to the pool, or *)
(* takes its connection and waits.                                         *)
LEMMA TakeStep ==
  ASSUME NetTypes, Connections, LibcoTypeOK, Placed, Holds, Take
  PROVE  NetTypes' /\ Connections' /\ LibcoTypeOK' /\ Placed' /\ Holds'
<1>1. /\ running \in Tasks /\ at = "take"
      /\ fdOf' = [fdOf EXCEPT ![running] = taskFd[running]]
      /\ taskFd' = [taskFd EXCEPT ![running] = NoFd]
      /\ UNCHANGED <<netVars, napping, late, active, nonblock, agents, errno, spun>>
      /\ \/ /\ taskFd[running] = NoFd /\ pool' = Append(pool, running) /\ Yields
            /\ polls' = polls
         \/ taskFd[running] # NoFd /\ Polls /\ pool' = pool
  BY DEF Take, loop, sockets
<1>2. NetTypes' /\ Connections' /\ peer' = peer
  BY <1>1 DEF netVars, clientVars, tcp, NetTypes, Connections
<1>3. /\ \A t \in Tasks : taskFd[t] # NoFd => t = running
      /\ Held(running) = taskFd[running] /\ taskFd[running] \in Fds \cup {NoFd}
      /\ \A t \in Tasks : t # running => Held(t) = fdOf[t]
  BY <1>1 DEF Held, Placed, LibcoTypeOK
<1>4. taskFd' = [t \in Tasks |-> NoFd] /\ fdOf' = [t \in Tasks |-> Held(t)]
  <2>1. taskFd \in [Tasks -> Fds \cup {NoFd}] /\ fdOf \in [Tasks -> Fds \cup {NoFd}]
    BY DEF LibcoTypeOK
  <2>2. taskFd' = [t \in Tasks |-> NoFd]
    BY <1>1, <1>3, <2>1
  <2>3. fdOf' = [t \in Tasks |-> IF t = running THEN taskFd[running] ELSE fdOf[t]]
    BY <1>1, <2>1
  <2>4. \A t \in Tasks : Held(t) = IF t = running THEN taskFd[running] ELSE fdOf[t]
    BY <1>3
  <2> QED
    BY <2>2, <2>3, <2>4
<1>5. CASE taskFd[running] # NoFd /\ Polls /\ pool' = pool
  <2>1. Held(running) # NoFd
    BY <1>3, <1>5
  <2>2. /\ Placed' /\ Holds' /\ at' = "accept" /\ nested' = FALSE
        /\ fdOf' \in [Tasks -> Fds \cup {NoFd}] /\ polls' \subseteq Cos
        /\ polls \subseteq polls' /\ running' \in Cos \cup {Null}
    BY <1>1, <1>2, <1>4, <1>5, <2>1, PollsStep
  <2>3. taskFd' \in [Tasks -> Fds \cup {NoFd}]
    BY <1>4
  <2>4. LibcoTypeOK'
    BY <1>1, <1>5, <2>2, <2>3 DEF LibcoTypeOK
  <2> QED
    BY <1>2, <2>2, <2>4
<1>6. CASE taskFd[running] = NoFd /\ pool' = Append(pool, running) /\ Yields /\ polls' = polls
  <2>1. /\ running' = (IF nested THEN Acceptor ELSE Null) /\ at' = "accept" /\ nested' = FALSE
        /\ running' \notin Tasks /\ running' \in Cos \cup {Null}
    BY <1>6, Distinct DEF Yields
  <2>2. running \notin Range(pool)
    BY DEF Placed
  <2>3. /\ pool' \in Seq(Tasks) /\ Range(pool') = Range(pool) \cup {running}
        /\ IsInjective(pool')
    BY <1>1, <1>6, <2>2, Appended DEF LibcoTypeOK, Placed
  <2>4. /\ \A t \in Tasks : taskFd'[t] = NoFd /\ fdOf'[t] = Held(t)
        /\ Held(running) = NoFd
    BY <1>3, <1>4, <1>6
  <2>5. /\ Waiting' = Waiting /\ running \notin Waiting /\ Waiting \subseteq Cos
        /\ Range(pool) \subseteq Tasks
    BY <1>1, <1>6, RangeOf DEF Waiting, Placed, LibcoTypeOK
  <2>6. Placed'
    <3>1. \A t \in Range(pool') : /\ taskFd'[t] = NoFd /\ fdOf'[t] = NoFd
                                  /\ t \notin Waiting' /\ t # running'
      <4>1. ASSUME NEW t \in Range(pool)
            PROVE  t \in Tasks /\ t # running /\ fdOf[t] = NoFd /\ t \notin Waiting
        BY <2>5 DEF Placed
      <4> QED
        BY <1>1, <1>3, <2>1, <2>3, <2>4, <2>5, <4>1
    <3>2. \A t \in Tasks : t \in Waiting' => fdOf'[t] # NoFd
      BY <1>3, <2>4, <2>5 DEF Placed
    <3>3. running' \notin Waiting' /\ Acceptor \in Waiting' \cup {running'}
      BY <1>1, <2>1, <2>5, Distinct DEF Placed
    <3>4. IsInjective(active') /\ polls' \cap Range(active') = {}
      BY <1>1, <1>6 DEF Placed
    <3> QED
      BY <2>1, <2>3, <2>4, <3>1, <3>2, <3>3, <3>4 DEF Placed
  <2>7. Holds'
    <3>1. \A t \in Tasks : Held(t)' = Held(t)
      BY <2>1, <2>4 DEF Held
    <3>2. UNCHANGED sockets
      BY <1>1 DEF sockets
    <3>3. \A t \in Tasks : Held(t) # NoFd /\ t \in Waiting \cup {running}
                             => t \in Waiting' \cup {running'}
      BY <2>4, <2>5
    <3> QED
      BY <1>2, <3>1, <3>2, <3>3, HeldOn
  <2>8. LibcoTypeOK'
    <3>1. /\ taskFd' \in [Tasks -> Fds \cup {NoFd}] /\ fdOf' \in [Tasks -> Fds \cup {NoFd}]
      BY <1>1, <1>3 DEF LibcoTypeOK
    <3> QED
      BY <1>1, <1>6, <2>1, <2>3, <3>1 DEF LibcoTypeOK
  <2> QED
    BY <1>2, <2>6, <2>7, <2>8
<1> QED
  BY <1>1, <1>5, <1>6

(* Before a task's read, write or close: it serves what it holds, and      *)
(* nothing has been handed to any.                                         *)
LEMMA Serving ==
  ASSUME LibcoTypeOK, Placed, running \in Tasks, at \in {"read", "write", "close"}
  PROVE  /\ fdOf[running] \in Fds /\ taskFd = [t \in Tasks |-> NoFd]
         /\ fdOf = [t \in Tasks |-> Held(t)] /\ Held(running) # NoFd
<1>1. \A t \in Tasks : taskFd[t] = NoFd /\ Held(t) = fdOf[t]
  BY DEF Placed, Held
<1>2. fdOf[running] \in Fds /\ Held(running) # NoFd
  BY <1>1, Distinct DEF Placed, LibcoTypeOK
<1> QED
  BY <1>1, <1>2 DEF LibcoTypeOK

(* The inner loop reads or writes, and waits again or goes on.             *)
LEMMA TransferTaskStep ==
  ASSUME NetTypes, Connections, LibcoTypeOK, Placed, Holds, Read \/ Write
  PROVE  NetTypes' /\ Connections' /\ LibcoTypeOK' /\ Placed' /\ Holds'
<1>1. /\ running \in Tasks /\ at \in {"read", "write"}
      /\ UNCHANGED <<pool, taskFd, fdOf, napping, late, active, nonblock, agents>>
  BY DEF Read, Write, loop, sockets
<1>2. /\ fdOf[running] \in Fds /\ taskFd = [t \in Tasks |-> NoFd]
      /\ fdOf = [t \in Tasks |-> Held(t)] /\ Held(running) # NoFd
  BY <1>1, Serving
<1>3. recv(fdOf[running]) \/ send(fdOf[running]) \/ UNCHANGED netVars
  BY DEF Read, Write
<1>4. NetTypes' /\ Connections' /\ peer' = peer
  <2>1. CASE UNCHANGED netVars
    BY <2>1 DEF netVars, clientVars, tcp, NetTypes, Connections
  <2> QED
    BY <1>2, <1>3, <2>1, TransferStep
<1>5. errno' \in {"none", "EAGAIN", "EMFILE", "ECONNRESET"} /\ spun' \in BOOLEAN
  <2>1. CASE Read
    <3>1. errno' \in {"ECONNRESET", "EAGAIN", errno}
      BY <2>1, Zenon DEF Read
    <3>2. spun' \in BOOLEAN
      BY <2>1, Zenon DEF Read
    <3> QED
      BY <3>1, <3>2 DEF LibcoTypeOK
  <2>2. CASE Write
    BY <2>2 DEF Write, LibcoTypeOK
  <2> QED
    BY <2>1, <2>2
<1>6. Polls \/ (at' \in {"write", "close"} /\ UNCHANGED <<polls, running, nested>>)
  BY DEF Read, Write
<1>7. CASE Polls
  <2>1. /\ Placed' /\ Holds' /\ at' = "accept" /\ nested' = FALSE
        /\ fdOf' \in [Tasks -> Fds \cup {NoFd}] /\ polls' \subseteq Cos
        /\ polls \subseteq polls' /\ running' \in Cos \cup {Null}
    BY <1>1, <1>2, <1>4, <1>7, PollsStep
  <2>2. LibcoTypeOK'
    BY <1>1, <1>5, <2>1 DEF LibcoTypeOK
  <2> QED
    BY <1>4, <2>1, <2>2
<1>8. CASE at' \in {"write", "close"} /\ UNCHANGED <<polls, running, nested>>
  <2>1. LibcoTypeOK'
    BY <1>1, <1>5, <1>8 DEF LibcoTypeOK
  <2>2. Waiting' = Waiting
    BY <1>1, <1>8 DEF Waiting
  <2>3. fdOf[running] # NoFd /\ \A t \in Tasks : taskFd[t] = NoFd
    BY <1>1, <1>2, Distinct
  <2>4. Placed'
    BY <1>1, <1>8, <2>2, <2>3 DEF Placed
  <2>5. Holds'
    <3>1. \A t \in Tasks : Held(t)' = Held(t)
      BY <1>1, <1>8 DEF Held
    <3>2. UNCHANGED sockets
      BY <1>1 DEF sockets
    <3> QED
      BY <1>4, <1>8, <2>2, <3>1, <3>2, HeldOn
  <2> QED
    BY <1>4, <2>1, <2>4, <2>5
<1> QED
  BY <1>6, <1>7, <1>8

(* The hooked close: the task holds nothing any more.                      *)
LEMMA ClosedTaskStep ==
  ASSUME NetTypes, Connections, LibcoTypeOK, Placed, Holds, CoClose
  PROVE  NetTypes' /\ Connections' /\ LibcoTypeOK' /\ Placed' /\ Holds'
<1>1. PICK fd \in Fds : fd = fdOf[running]
  BY Serving DEF CoClose
<1>2. /\ running \in Tasks /\ at = "close" /\ close(fd) /\ at' = "take"
      /\ agents' = agents \ {fd} /\ nonblock' = nonblock \ {fd}
      /\ UNCHANGED <<pool, taskFd, fdOf, polls, napping, late, active, running, nested,
                     errno, spun>>
  BY <1>1 DEF CoClose, loop
<1>3. /\ NetTypes' /\ Connections'
      /\ \A gd \in Fds : peer'[gd] # Null <=> peer[gd] # Null /\ gd # fd
  BY <1>2, ClosedStep
<1>4. \A t \in Tasks : taskFd[t] = NoFd /\ Held(t) = fdOf[t] /\ fdOf[t] \in Fds \cup {NoFd}
  BY <1>2 DEF Placed, Held, LibcoTypeOK
<1>5. LibcoTypeOK'
  BY <1>2 DEF LibcoTypeOK
<1>6. Waiting' = Waiting
  BY <1>2 DEF Waiting
<1>7. Placed'
  BY <1>2, <1>4, <1>6 DEF Placed
<1>8. \A t \in Tasks : Held(t)' = IF t = running THEN NoFd ELSE fdOf[t]
  BY <1>2, <1>4 DEF Held
<1>9. Holds'
  <2>1. /\ \A t, v \in Tasks : fdOf[t] = fdOf[v] /\ fdOf[t] # NoFd => t = v
        /\ \A t \in Tasks :
             fdOf[t] # NoFd => peer[fdOf[t]] # Null /\ t \in Waiting \cup {running}
        /\ \A gd \in Fds : peer[gd] # Null => \E t \in Tasks : fdOf[t] = gd
    BY <1>4 DEF Holds
  <2>2. ASSUME NEW t \in Tasks, NEW v \in Tasks, Held(t)' = Held(v)', Held(t)' # NoFd
        PROVE  t = v
    BY <1>8, <2>1, <2>2
  <2>3. ASSUME NEW t \in Tasks, Held(t)' # NoFd
        PROVE  peer'[Held(t)'] # Null /\ t \in Waiting' \cup {running'}
    <3>1. t # running /\ Held(t)' = fdOf[t] /\ fdOf[t] \in Fds /\ fdOf[t] # fd
      BY <1>1, <1>2, <1>4, <1>8, <2>1, <2>3
    <3> QED
      BY <1>2, <1>3, <1>6, <2>1, <3>1, Distinct
  <2>4. ASSUME NEW gd \in Fds, peer'[gd] # Null PROVE \E t \in Tasks : Held(t)' = gd
    <3>1. peer[gd] # Null /\ gd # fd
      BY <1>3, <2>4
    <3>2. PICK t \in Tasks : fdOf[t] = gd
      BY <2>1, <3>1
    <3> QED
      BY <1>1, <1>8, <3>1, <3>2
  <2>5. agents' = Open' /\ nonblock' = Open'
    <3>1. Open' = Open \ {fd}
      BY <1>3 DEF Open
    <3> QED
      BY <1>2, <3>1 DEF Holds
  <2> HIDE DEF Held
  <2> QED
    BY <2>2, <2>3, <2>4, <2>5 DEF Holds
<1> QED
  BY <1>3, <1>5, <1>7, <1>9

-----------------------------------------------------------------------------
(* The initial states satisfy the inductive invariant.                     *)
LEMMA EchoBegins == Init => IndInv
<1> SUFFICES ASSUME Init PROVE IndInv
  OBVIOUS
<1>1. NetInit /\ EventInit /\ LibcoInit /\ libco \in BOOLEAN /\ (libco => ~oneShot)
  BY DEF Init
<1>2. NetTypes
  <2>1. 0 \in 0..MaxSends
    BY EchoAssumption
  <2>2. <<>> \in Seq(Clients)
    OBVIOUS
  <2> QED
    BY <1>1, <2>1, <2>2 DEF NetInit, NetTypes
<1>3. /\ Range(<<>>) = {} /\ IsInjective(<<>>)
      /\ \A fd \in Fds : peer[fd] = Null
  <2>1. <<>> \in Seq(Clients)
    OBVIOUS
  <2>2. \A fd \in Fds : peer[fd] = Null
    BY <1>1 DEF NetInit
  <2> QED
    BY <2>1, <2>2, RangeOf
<1>4. Connections
  BY <1>1, <1>3, Distinct DEF NetInit, Connections
<1>5. EventTypeOK
  <2>1. <<>> \in Seq(Fds \cup {Listen})
    OBVIOUS
  <2> QED
    BY <1>1, <2>1 DEF EventInit, EventTypeOK
<1>6. Known
  <2>1. Listen \notin Fds /\ Null \notin Fds \cup {Listen}
    BY EchoAssumption DEF Fds, Listen
  <2> QED
    BY <1>1, <1>3, <2>1 DEF EventInit, Known
<1>7. pool \in Seq(Tasks) /\ IsInjective(pool)
  <2>1. PICK T \in SUBSET Tasks : pool = SetToSeq(T)
    BY <1>1 DEF LibcoInit
  <2>2. SetToSeq(T) \in Seq(T) /\ IsInjective(SetToSeq(T))
    BY OneOrder, FS_Subset, TasksAssumption
  <2> QED
    BY <2>1, <2>2
<1>8. /\ taskFd = [t \in Tasks |-> NoFd] /\ fdOf = [t \in Tasks |-> NoFd]
      /\ polls = {} /\ napping = FALSE /\ late = {} /\ active = <<>>
      /\ running = Acceptor /\ nested = FALSE /\ at = "accept"
      /\ nonblock = {} /\ agents = {} /\ errno = "none" /\ spun = FALSE
  BY <1>1 DEF LibcoInit
<1>9. LibcoTypeOK
  <2>1. <<>> \in Seq(Cos)
    OBVIOUS
  <2> QED
    BY <1>7, <1>8, <2>1, Distinct DEF LibcoTypeOK
<1>10. Placed
  <2>1. Waiting = {} /\ Range(pool) \subseteq Tasks
    BY <1>3, <1>7, <1>8, RangeOf DEF Waiting
  <2> QED
    BY <1>3, <1>7, <1>8, <2>1, Distinct DEF Placed
<1>11. Holds
  <2>1. \A t \in Tasks : Held(t) = NoFd
    BY <1>8 DEF Held
  <2>2. Open = {}
    BY <1>3 DEF Open
  <2> HIDE DEF Held
  <2> QED
    BY <1>3, <1>8, <2>1, <2>2 DEF Holds
<1> QED
  BY <1>1, <1>2, <1>4, <1>5, <1>6, <1>9, <1>10, <1>11 DEF IndInv

(* Every step keeps it: a client's, and one of either server.  Only one of *)
(* the servers is there, and the state of the other stays as it was.       *)
LEMMA EchoKeeps == IndInv /\ [Next]_vars => IndInv'
<1> SUFFICES ASSUME IndInv, [Next]_vars PROVE IndInv'
  OBVIOUS
<1>1. /\ NetTypes /\ Connections /\ EventTypeOK /\ LibcoTypeOK /\ libco \in BOOLEAN
      /\ ~libco => Known
      /\ libco => ~oneShot /\ Placed /\ Holds
  BY DEF IndInv
<1>2. ASSUME UNCHANGED eventVars
      PROVE  EventTypeOK' /\ oneShot' = oneShot
  BY <1>1, <1>2 DEF eventVars, EventTypeOK
<1>3. ASSUME UNCHANGED libcoVars
      PROVE  LibcoTypeOK'
  BY <1>1, <1>3 DEF libcoVars, LibcoTypeOK
<1>4. ASSUME UNCHANGED <<eventVars, libcoVars, libco>>, NetTypes', Connections', peer' = peer
      PROVE  IndInv'
  <2>1. EventTypeOK' /\ oneShot' = oneShot /\ LibcoTypeOK' /\ libco' = libco
    BY <1>2, <1>3, <1>4
  <2>2. Known => Known'
    BY <1>4 DEF eventVars, Known
  <2>3. Placed => Placed'
    BY <1>4 DEF libcoVars, Placed, Waiting
  <2>4. Holds => Holds'
    <3>1. UNCHANGED sockets /\ Waiting' = Waiting /\ running' = running
      BY <1>4 DEF libcoVars, sockets, Waiting
    <3>2. \A t \in Tasks : Held(t)' = Held(t)
      BY <1>4 DEF libcoVars, Held
    <3> QED
      BY <1>4, <3>1, <3>2, HeldOn
  <2> QED
    BY <1>1, <1>4, <2>1, <2>2, <2>3, <2>4 DEF IndInv
<1>5. CASE ~libco /\ EventNext /\ UNCHANGED <<libcoVars, libco>>
  <2>1. Known
    BY <1>1, <1>5
  <2>2. NetTypes' /\ Connections' /\ EventTypeOK' /\ Known'
    BY <1>1, <1>5, <2>1, TurnStep, HandleStep, AcceptedStep, ServedStep DEF EventNext
  <2> QED
    BY <1>1, <1>3, <1>5, <2>2 DEF IndInv
<1>6. CASE libco /\ LibcoStep /\ UNCHANGED <<eventVars, libco>>
  <2>1. ~oneShot /\ Placed /\ Holds
    BY <1>1, <1>6
  <2>2. NetTypes' /\ Connections' /\ LibcoTypeOK' /\ Placed' /\ Holds'
    BY <1>1, <1>6, <2>1, CoTurnStep, ResumeStep, AcceptWaitsStep, AcceptHandsStep, TakeStep,
       TransferTaskStep, ClosedTaskStep DEF LibcoStep
  <2> QED
    BY <1>1, <1>2, <1>6, <2>1, <2>2 DEF IndInv
<1>7. ASSUME NEW c \in Clients, Client(c) PROVE IndInv'
  <2>1. NetTypes' /\ Connections' /\ peer' = peer
    BY <1>1, <1>7, ClientStep DEF Client
  <2> QED
    BY <1>4, <1>7, <2>1 DEF Client
<1>8. ASSUME NEW x \in Cos, TimesOut(x) PROVE IndInv'
  <2>1. libco /\ Timeout(x) /\ UNCHANGED <<eventVars, libco>>
    BY <1>8 DEF TimesOut
  <2>2. NetTypes' /\ Connections' /\ LibcoTypeOK' /\ Placed' /\ Holds'
    BY <1>1, <2>1, TimeoutStep
  <2> QED
    BY <1>1, <1>2, <2>1, <2>2 DEF IndInv
<1>9. CASE UNCHANGED vars
  <2>1. UNCHANGED <<netVars, eventVars, libcoVars, libco>>
    BY <1>9 DEF vars
  <2>2. NetTypes' /\ Connections' /\ peer' = peer
    BY <1>1, <2>1 DEF netVars, clientVars, tcp, NetTypes, Connections
  <2> QED
    BY <1>4, <2>1, <2>2
<1> QED
  BY <1>5, <1>6, <1>7, <1>8, <1>9 DEF Next, Server

(* Hence it holds in every reachable state.                                *)
LEMMA EchoInvariant == Spec => []IndInv
BY EchoBegins, EchoKeeps, PTL DEF Spec

-----------------------------------------------------------------------------
(* A connection has one place at most: with the backlog and the            *)
(* descriptors injective and apart, the sum in NetTypeOK is 1 or less.     *)
LEMMA OnePlace == NetTypes /\ Connections => NetTypeOK
<1> SUFFICES ASSUME NetTypes, Connections PROVE NetTypeOK
  OBVIOUS
<1>1. ASSUME NEW c \in Clients
      PROVE  Cardinality({fd \in Fds : peer[fd] = c})
               + Cardinality({i \in DOMAIN backlog : backlog[i] = c}) <= 1
  <2> DEFINE P == {fd \in Fds : peer[fd] = c}
             B == {i \in DOMAIN backlog : backlog[i] = c}
  <2>1. \A x, y \in P : x = y
    BY Distinct DEF Connections
  <2>2. \A x, y \in B : x = y
    BY DEF Connections, IsInjective
  <2>3. P = {} \/ B = {}
    <3>1. ASSUME NEW i \in B PROVE c \in Range(backlog)
      BY <3>1, Zenon DEF Range
    <3> QED
      BY <3>1 DEF Connections
  <2> HIDE DEF P, B
  <2>4. /\ P = {} => Cardinality(P) = 0
        /\ P # {} => Cardinality(P) = 1
        /\ B = {} => Cardinality(B) = 0
        /\ B # {} => Cardinality(B) = 1
    BY <2>1, <2>2, AtMostOne
  <2>5. Cardinality(P) + Cardinality(B) <= 1
    BY <2>3, <2>4
  <2> QED
    BY <2>5 DEF P, B
<1> QED
  BY <1>1 DEF NetTypes, NetTypeOK

(* The handlers counted: an open descriptor is in one place of the server  *)
(* of events.                                                              *)
LEMMA EventHandler ==
  ASSUME EventTypeOK, Known, NEW fd \in Fds
  PROVE  EventOwners(fd) = IF peer[fd] = Null THEN 0 ELSE 1
<1> DEFINE Q == {i \in DOMAIN queue : queue[i] = fd}
<1>1. \A x, y \in Q : x = y
  BY DEF Known, IsInjective
<1>2. Q # {} <=> fd \in Range(queue)
  BY Zenon DEF Range
<1>3. Contains(queue, fd) <=> fd \in Range(queue)
  BY RangeOf DEF EventTypeOK
<1>4. EventOwners(fd) =
        (IF fd \in watched /\ (oneShot \/ (cur # fd /\ ~Contains(queue, fd))) THEN 1 ELSE 0)
          + Cardinality(Q) + (IF cur = fd THEN 1 ELSE 0)
  BY DEF EventOwners
<1> HIDE DEF Q
<1>5. Cardinality(Q) = IF fd \in Range(queue) THEN 1 ELSE 0
  BY <1>1, <1>2, AtMostOne
<1>6. /\ oneShot => ~(fd \in watched /\ fd \in Range(queue)) /\ ~(fd \in watched /\ cur = fd)
      /\ ~(cur = fd /\ fd \in Range(queue))
      /\ peer[fd] # Null <=> fd \in watched \/ fd \in Range(queue) \/ cur = fd
  <2>1. oneShot => Range(queue) \cap watched = {} /\ cur \notin watched
    BY DEF Known
  <2>2. cur \notin Range(queue)
    BY DEF Known
  <2>3. peer[fd] # Null <=> fd \in watched \cup Range(queue) \cup {cur}
    BY DEF Known
  <2> QED
    BY <2>1, <2>2, <2>3
<1>7. CASE oneShot
  BY <1>3, <1>4, <1>5, <1>6, <1>7
<1>8. CASE ~oneShot
  BY <1>3, <1>4, <1>5, <1>6, <1>8
<1> QED
  BY <1>7, <1>8

(* And with one task of libco's.                                           *)
LEMMA TaskHandler ==
  ASSUME LibcoTypeOK, Placed, Holds, NEW fd \in Fds
  PROVE  LibcoOwners(fd) = IF peer[fd] = Null THEN 0 ELSE 1
<1> DEFINE A == {t \in Tasks : taskFd[t] = fd}
           B == {t \in Tasks : fdOf[t] = fd /\ ~(running = t /\ at = "take")}
<1>1. LibcoOwners(fd) = Cardinality(A) + Cardinality(B)
  BY DEF LibcoOwners
<1>2. \A t \in A : t \in Tasks /\ Held(t) = fd /\ running = t /\ at = "take"
  BY Distinct DEF Placed, Held
<1>3. \A t \in B : t \in Tasks /\ Held(t) = fd /\ ~(running = t /\ at = "take")
  BY DEF Held
<1>4. \A t \in Tasks : Held(t) = fd => t \in A \cup B
  BY DEF Held
<1> HIDE DEF A, B
<1>5. \A t, u \in A \cup B : t = u
  BY <1>2, <1>3, Distinct DEF Holds
<1>6. A = {} \/ B = {}
  BY <1>2, <1>3, <1>5
<1>7. A \cup B = {} <=> peer[fd] = Null
  BY <1>2, <1>3, <1>4, Distinct DEF Holds
<1>8. /\ A = {} => Cardinality(A) = 0
      /\ A # {} => Cardinality(A) = 1
      /\ B = {} => Cardinality(B) = 0
      /\ B # {} => Cardinality(B) = 1
  BY <1>5, AtMostOne
<1> QED
  BY <1>1, <1>6, <1>7, <1>8

(* What follows from the invariant.                                        *)
LEMMA EchoShown == IndInv => TypeOK /\ OneHandler /\ Attended
<1> SUFFICES ASSUME IndInv PROVE TypeOK /\ OneHandler /\ Attended
  OBVIOUS
<1>1. /\ NetTypes /\ Connections /\ EventTypeOK /\ LibcoTypeOK
      /\ ~libco => Known
      /\ libco => Placed /\ Holds
  BY DEF IndInv
<1>2. TypeOK
  BY <1>1, OnePlace DEF TypeOK
<1>3. OneHandler
  <2>1. CASE ~libco
    BY <1>1, <2>1, EventHandler DEF OneHandler
  <2>2. CASE libco
    BY <1>1, <2>2, TaskHandler DEF OneHandler, Holds
  <2> QED
    BY <2>1, <2>2
<1>4. Attended
  <2>1. ~libco => Listen \in watched \cup Range(queue) \cup {cur}
    BY <1>1 DEF Known
  <2>2. ASSUME libco, NEW fd \in Fds, peer[fd] # Null
        PROVE  \E t \in Waiting \cup {running} : t \in Tasks /\ Held(t) = fd
    <3>1. PICK t \in Tasks : Held(t) = fd
      BY <1>1, <2>2 DEF Holds
    <3>2. t \in Waiting \cup {running}
      BY <1>1, <2>2, <3>1, Distinct DEF Holds
    <3> QED
      BY <3>1, <3>2
  <2> QED
    BY <1>1, <2>1, <2>2 DEF Attended, Placed
<1> QED
  BY <1>2, <1>3, <1>4

(* The types of the clients, their connections and the servers, and that a *)
(* connection waits in the backlog or has one descriptor, never both.      *)
THEOREM EchoTypesHold == Spec => []TypeOK
BY EchoInvariant, EchoShown, PTL

(* However numbers are closed and given anew, every open descriptor has    *)
(* exactly one handler, a closed one none, and libco's table of entries    *)
(* has the open ones.                                                      *)
THEOREM OneHandlerHolds == Spec => []OneHandler
BY EchoInvariant, EchoShown, PTL

(* No path through a server loses a handler: the listener is watched,      *)
(* found ready or handled, accept_routine waits, runs or has resumed the   *)
(* task that runs, and each open descriptor of libco's server is with a    *)
(* task that waits for it or runs.                                         *)
THEOREM AttendedHolds == Spec => []Attended
BY EchoInvariant, EchoShown, PTL

-----------------------------------------------------------------------------
(* What a connection goes through, and the requests on it.                 *)

(* The server has read a request from fd and is about to answer it.        *)
Sending(fd) ==
  IF libco THEN running \in Tasks /\ at = "write" /\ fdOf[running] = fd
           ELSE cur = fd /\ step = "send"

Answering(c) == \E fd \in Fds : Sending(fd) /\ peer[fd] = c

(* Requests and replies alternate: a client that waits for a reply has its *)
(* request in exactly one place, unread, with the server, or answered, and *)
(* one that does not has none there, as long as the server has not closed  *)
(* the connection (client.cpp:54-75, corlib/main.cpp:46-83).               *)
Exchange ==
  \A c \in Clients : ~shut[c] =>
    /\ phase[c] = "recv" => req[c] \/ Answering(c) \/ rep[c]
    /\ phase[c] \in {"new", "send"} => ~req[c] /\ ~Answering(c) /\ ~rep[c]
    /\ ~(req[c] /\ Answering(c)) /\ ~(req[c] /\ rep[c]) /\ ~(Answering(c) /\ rep[c])

(* A connection that the server has closed is nowhere any more.            *)
ClosedIsGone ==
  \A c \in Clients : shut[c] =>
    phase[c] # "new" /\ c \notin Range(backlog) /\ \A fd \in Fds : peer[fd] # c

Stage(c) == IF \E fd \in Fds : peer[fd] = c THEN "open"
            ELSE IF c \in Range(backlog) THEN "waiting"
            ELSE IF shut[c] THEN "closed" ELSE "new"

(* A connection waits for accept once, is accepted once and closed once,   *)
(* in this order: none is dropped between, and none comes back.            *)
OnceThrough ==
  [][\A c \in Clients :
       \/ Stage(c)' = Stage(c)
       \/ <<Stage(c), Stage(c)'>> \in {<<"new", "waiting">>, <<"waiting", "open">>,
                                       <<"open", "closed">>}]_vars

(* The call on a connection that a step of the server makes, and whom it   *)
(* is answering before and after: it takes a request, answers it, or has   *)
(* none in hand.                                                           *)
Calls ==
  \/ UNCHANGED netVars /\ \A fd \in Fds : Sending(fd)' <=> Sending(fd)
  \/ Accepts /\ accept /\ \A fd \in Fds : ~Sending(fd) /\ ~Sending(fd)'
  \/ \E fd \in Fds : /\ peer[fd] # Null /\ Data(fd) /\ recv(fd)
                     /\ \A gd \in Fds : ~Sending(gd) /\ (Sending(gd)' <=> gd = fd)
  \/ \E fd \in Fds : /\ peer[fd] # Null /\ send(fd)
                     /\ \A gd \in Fds : (Sending(gd) <=> gd = fd) /\ ~Sending(gd)'
  \/ \E fd \in Fds : /\ peer[fd] # Null /\ close(fd)
                     /\ \A gd \in Fds : ~Sending(gd) /\ ~Sending(gd)'

(* The servers of events make these calls.                                 *)
LEMMA EventCalls ==
  ASSUME EventTypeOK, Known, ~libco, EventNext, libco' = libco
  PROVE  Calls
<1>1. /\ \A fd \in Fds : Sending(fd) <=> cur = fd /\ step = "send"
      /\ \A fd \in Fds : Sending(fd)' <=> cur' = fd /\ step' = "send"
  BY DEF Sending
<1>2. Null \notin Fds /\ Listen \notin Fds
  BY EchoAssumption DEF Fds, Listen
<1>3. cur \in Fds => peer[cur] # Null
  BY DEF Known
<1>4. CASE Turn
  <2>1. UNCHANGED netVars /\ cur' = cur /\ step' = step
    BY <1>4 DEF Turn
  <2> QED
    BY <1>1, <2>1 DEF Calls
<1>5. CASE Handle
  <2>1. UNCHANGED netVars /\ cur = Null /\ step' # "send"
    BY <1>5 DEF Handle
  <2> QED
    BY <1>1, <1>2, <2>1 DEF Calls
<1>6. CASE test_accept \/ accept_conn_cb
  <2>1. cur = Listen /\ cur' = Null /\ (UNCHANGED netVars \/ (Accepts /\ accept))
    BY <1>6 DEF test_accept, accept_conn_cb
  <2>2. \A fd \in Fds : ~Sending(fd) /\ ~Sending(fd)'
    BY <1>1, <1>2, <2>1
  <2> QED
    BY <2>1, <2>2 DEF Calls
<1>7. CASE Recv
  <2>1. /\ cur \in Fds /\ step = "recv" /\ cur' = cur
        /\ \/ Data(cur) /\ recv(cur) /\ step' = "send"
           \/ UNCHANGED netVars /\ step' = "close"
    BY <1>7 DEF Recv
  <2>2. \A fd \in Fds : ~Sending(fd) /\ (Sending(fd)' <=> cur = fd /\ step' = "send")
    BY <1>1, <2>1
  <2>3. CASE Data(cur) /\ recv(cur) /\ step' = "send"
    <3>1. \A gd \in Fds : ~Sending(gd) /\ (Sending(gd)' <=> gd = cur)
      BY <2>2, <2>3
    <3> QED
      BY <1>3, <2>1, <2>3, <3>1 DEF Calls
  <2>4. CASE UNCHANGED netVars /\ step' = "close"
    <3>1. \A fd \in Fds : Sending(fd)' <=> Sending(fd)
      BY <2>2, <2>4 DEF Sending
    <3> QED
      BY <2>4, <3>1 DEF Calls
  <2> QED
    BY <2>1, <2>3, <2>4
<1>8. CASE Send
  <2>1. cur \in Fds /\ step = "send" /\ cur' = cur /\ step' = "close" /\ send(cur)
    BY <1>8 DEF Send
  <2>2. \A gd \in Fds : (Sending(gd) <=> gd = cur) /\ ~Sending(gd)'
    BY <1>1, <2>1
  <2> QED
    BY <1>3, <2>1, <2>2 DEF Calls
<1>9. CASE Close
  <2>1. cur \in Fds /\ step = "close" /\ cur' = Null /\ close(cur)
    BY <1>9 DEF Close
  <2>2. \A gd \in Fds : ~Sending(gd) /\ ~Sending(gd)'
    BY <1>1, <1>2, <2>1
  <2> QED
    BY <1>3, <2>1, <2>2 DEF Calls
<1> QED
  BY <1>4, <1>5, <1>6, <1>7, <1>8, <1>9 DEF EventNext

(* libco's server makes these calls.                                       *)
LEMMA TaskCalls ==
  ASSUME LibcoTypeOK, Placed, Holds, libco, libco' = libco,
         LibcoStep \/ \E x \in Cos : Timeout(x)
  PROVE  Calls
<1>1. /\ \A fd \in Fds : Sending(fd) <=> running \in Tasks /\ at = "write" /\ fdOf[running] = fd
      /\ \A fd \in Fds : Sending(fd)' <=> running' \in Tasks /\ at' = "write" /\ fdOf'[running'] = fd
  BY DEF Sending
<1>2. Null \notin Tasks /\ Acceptor \notin Tasks
  BY TasksAssumption
<1>3. running \in Tasks /\ at \in {"read", "write", "close"} =>
        fdOf[running] \in Fds /\ peer[fdOf[running]] # Null
  BY Serving DEF Holds, Held
<1>4. ASSUME UNCHANGED netVars, running \notin Tasks \/ at # "write", at' # "write"
      PROVE  Calls
  BY <1>1, <1>4, Zenon DEF Calls
<1>5. ASSUME NEW x \in Cos, Timeout(x) PROVE Calls
  <2>1. UNCHANGED netVars /\ running' = running /\ at' = at /\ fdOf' = fdOf
    BY <1>5 DEF Timeout
  <2> QED
    BY <1>1, <2>1 DEF Calls
<1>6. CASE CoTurn
  <2>1. UNCHANGED netVars /\ running' = running /\ at' = at /\ fdOf' = fdOf
    BY <1>6 DEF CoTurn
  <2> QED
    BY <1>1, <2>1 DEF Calls
<1>7. CASE Resume
  <2>1. UNCHANGED netVars /\ running = Null /\ at' # "write"
    BY <1>7 DEF Resume
  <2> QED
    BY <1>2, <1>4, <2>1
<1>8. CASE AcceptWaits
  <2>1. UNCHANGED netVars /\ running = Acceptor /\ at' # "write"
    BY <1>8 DEF AcceptWaits, Polls, Yields
  <2> QED
    BY <1>2, <1>4, <2>1
<1>9. CASE AcceptHands
  <2>1. running = Acceptor /\ Accepts /\ accept /\ at' = "take"
    BY <1>9 DEF AcceptHands, co_accept
  <2>2. \A fd \in Fds : ~Sending(fd) /\ ~Sending(fd)'
    BY <1>1, <1>2, <2>1
  <2> QED
    BY <2>1, <2>2 DEF Calls
<1>10. CASE Take
  <2>1. UNCHANGED netVars /\ at = "take" /\ at' # "write"
    BY <1>10 DEF Take, Polls, Yields
  <2> QED
    BY <1>4, <2>1
<1>11. CASE Read
  <2>1. /\ running \in Tasks /\ at = "read" /\ fdOf' = fdOf
        /\ \/ Data(fdOf[running]) /\ recv(fdOf[running]) /\ at' = "write" /\ running' = running
           \/ UNCHANGED netVars /\ at' # "write"
    BY <1>11, Zenon DEF Read, Polls, Yields
  <2>2. CASE UNCHANGED netVars /\ at' # "write"
    BY <1>4, <2>1, <2>2
  <2>3. CASE Data(fdOf[running]) /\ recv(fdOf[running]) /\ at' = "write" /\ running' = running
    <3>1. \A gd \in Fds : ~Sending(gd) /\ (Sending(gd)' <=> gd = fdOf[running])
      BY <1>1, <2>1, <2>3
    <3> QED
      BY <1>3, <2>1, <2>3, <3>1 DEF Calls
  <2> QED
    BY <2>1, <2>2, <2>3
<1>12. CASE Write
  <2>1. running \in Tasks /\ at = "write" /\ at' = "accept" /\ send(fdOf[running])
    BY <1>12 DEF Write, Polls, Yields
  <2>2. \A gd \in Fds : (Sending(gd) <=> gd = fdOf[running]) /\ ~Sending(gd)'
    BY <1>1, <2>1
  <2> QED
    BY <1>3, <2>1, <2>2 DEF Calls
<1>13. CASE CoClose
  <2>1. running \in Tasks /\ at = "close" /\ at' = "take" /\ close(fdOf[running])
    BY <1>13 DEF CoClose
  <2>2. \A gd \in Fds : ~Sending(gd) /\ ~Sending(gd)'
    BY <1>1, <2>1
  <2> QED
    BY <1>3, <2>1, <2>2 DEF Calls
<1> QED
  BY <1>5, <1>6, <1>7, <1>8, <1>9, <1>10, <1>11, <1>12, <1>13 DEF LibcoStep

(* A step is one of these calls, or a client's.                            *)
LEMMA StepCalls ==
  ASSUME IndInv, [Next]_vars
  PROVE  \/ Calls
         \/ \E c \in Clients : /\ client_task(c) /\ peer' = peer
                               /\ \A fd \in Fds : Sending(fd)' <=> Sending(fd)
<1>1. ASSUME UNCHANGED <<eventVars, libcoVars, libco>>
      PROVE  \A fd \in Fds : Sending(fd)' <=> Sending(fd)
  BY <1>1 DEF eventVars, libcoVars, Sending
<1>2. CASE Server
  BY <1>2, EventCalls, TaskCalls DEF Server, IndInv
<1>3. ASSUME NEW c \in Clients, Client(c)
      PROVE  /\ client_task(c) /\ peer' = peer
             /\ \A fd \in Fds : Sending(fd)' <=> Sending(fd)
  BY <1>1, <1>3, ClientStep DEF Client, IndInv
<1>4. CASE \E x \in Cos : TimesOut(x)
  BY <1>4, TaskCalls DEF TimesOut, IndInv
<1>5. CASE UNCHANGED vars
  BY <1>1, <1>5 DEF vars, Calls
<1> QED
  BY <1>2, <1>3, <1>4, <1>5 DEF Next

(* accept() takes the connection that has waited longest.                  *)
LEMMA AcceptMoves ==
  ASSUME NetTypes, Connections, Accepts, accept
  PROVE  \E c \in Clients, n \in Fds :
           /\ c \in Range(backlog) /\ peer[n] = Null
           /\ Range(backlog') = Range(backlog) \ {c}
           /\ \A fd \in Fds : peer'[fd] = IF fd = n THEN c ELSE peer[fd]
           /\ UNCHANGED <<phase, req, rep, shut>>
<1>1. NewFd \in Fds /\ peer[NewFd] = Null
  BY NewIsFree DEF Accepts
<1>2. /\ Head(backlog) \in Clients
      /\ Range(backlog) = {Head(backlog)} \cup Range(Tail(backlog))
      /\ Head(backlog) \notin Range(Tail(backlog))
  BY Headed DEF NetTypes, Connections, Accepts
<1>3. /\ peer' = [peer EXCEPT ![NewFd] = Head(backlog)] /\ backlog' = Tail(backlog)
      /\ UNCHANGED <<phase, req, rep, shut>>
  BY DEF accept, clientVars
<1>4. PICK c \in Clients, n \in Fds : c = Head(backlog) /\ n = NewFd
  BY <1>1, <1>2
<1>5. \A fd \in Fds : peer'[fd] = IF fd = n THEN c ELSE peer[fd]
  BY <1>3, <1>4 DEF NetTypes
<1>6. /\ c \in Range(backlog) /\ peer[n] = Null
      /\ Range(backlog') = Range(backlog) \ {c}
  BY <1>1, <1>2, <1>3, <1>4
<1> QED
  BY <1>3, <1>5, <1>6

(* close() ends a connection that was open.                                *)
LEMMA CloseMoves ==
  ASSUME NetTypes, NEW fd \in Fds, peer[fd] # Null, close(fd)
  PROVE  /\ peer[fd] \in Clients
         /\ \A gd \in Fds : peer'[gd] = IF gd = fd THEN Null ELSE peer[gd]
         /\ \A c \in Clients : shut'[c] <=> shut[c] \/ c = peer[fd]
         /\ UNCHANGED <<phase, backlog, req, rep>>
<1>1. /\ peer' = [peer EXCEPT ![fd] = Null] /\ shut' = [shut EXCEPT ![peer[fd]] = TRUE]
      /\ UNCHANGED <<phase, backlog, req, rep>>
  BY DEF close, clientVars
<1>2. peer[fd] \in Clients
  BY DEF NetTypes
<1> QED
  BY <1>1, <1>2 DEF NetTypes

(* A client connects once, and never becomes new again.                    *)
LEMMA ClientMoves ==
  ASSUME NetTypes, NEW c \in Clients, client_task(c)
  PROVE  /\ shut' = shut
         /\ \A d \in Clients : phase'[d] = "new" => phase[d] = "new"
         /\ \/ backlog' = backlog
            \/ /\ Range(backlog') = Range(backlog) \cup {c}
               /\ phase[c] = "new" /\ phase'[c] # "new"
<1> USE DEF clientVars, tcp
<1>1. ASSUME Exit(c)
      PROVE  /\ shut' = shut /\ backlog' = backlog
             /\ \A d \in Clients : phase'[d] \in {phase[d], "gone"}
  BY <1>1, Zenon DEF Exit
<1>2. CASE Connect(c)
  <2>1. /\ phase[c] = "new" /\ phase' = [phase EXCEPT ![c] = "send"] /\ shut' = shut
        /\ backlog' = Append(backlog, c)
    BY <1>2 DEF Connect
  <2>2. Range(backlog') = Range(backlog) \cup {c}
    BY <2>1, Appended DEF NetTypes
  <2> QED
    BY <2>1, <2>2 DEF NetTypes
<1>3. CASE SendRequest(c)
  BY <1>1, <1>3 DEF SendRequest, NetTypes
<1>4. CASE ResetArrives(c)
  BY <1>4 DEF ResetArrives
<1>5. CASE ReceiveReply(c)
  BY <1>1, <1>5 DEF ReceiveReply, NetTypes
<1>6. CASE TimeUp(c)
  BY <1>6 DEF TimeUp, NetTypes
<1> QED
  BY <1>2, <1>3, <1>4, <1>5, <1>6 DEF client_task

(* Where the connections are before and after a step.                      *)
LEMMA StepMoves ==
  ASSUME IndInv, [Next]_vars
  PROVE  \/ /\ UNCHANGED <<backlog, peer, shut>>
            /\ \A c \in Clients : phase'[c] = "new" => phase[c] = "new"
         \/ \E c \in Clients :
              /\ UNCHANGED <<peer, shut>> /\ Range(backlog') = Range(backlog) \cup {c}
              /\ phase[c] = "new" /\ phase'[c] # "new"
              /\ \A d \in Clients : phase'[d] = "new" => phase[d] = "new"
         \/ \E c \in Clients, n \in Fds :
              /\ c \in Range(backlog) /\ peer[n] = Null
              /\ Range(backlog') = Range(backlog) \ {c}
              /\ \A fd \in Fds : peer'[fd] = IF fd = n THEN c ELSE peer[fd]
              /\ UNCHANGED <<phase, shut>>
         \/ \E fd \in Fds :
              /\ peer[fd] \in Clients /\ UNCHANGED <<phase, backlog>>
              /\ \A gd \in Fds : peer'[gd] = IF gd = fd THEN Null ELSE peer[gd]
              /\ \A c \in Clients : shut'[c] <=> shut[c] \/ c = peer[fd]
<1>1. NetTypes /\ Connections
  BY DEF IndInv
<1>2. ASSUME NEW c \in Clients, client_task(c), peer' = peer
      PROVE  /\ UNCHANGED <<peer, shut>>
             /\ \A d \in Clients : phase'[d] = "new" => phase[d] = "new"
             /\ \/ backlog' = backlog
                \/ /\ Range(backlog') = Range(backlog) \cup {c}
                   /\ phase[c] = "new" /\ phase'[c] # "new"
  BY <1>1, <1>2, ClientMoves
<1>3. CASE UNCHANGED netVars
  BY <1>3 DEF netVars, clientVars, tcp
<1>4. CASE Accepts /\ accept
  BY <1>1, <1>4, AcceptMoves
<1>5. ASSUME NEW fd \in Fds, recv(fd) \/ send(fd)
      PROVE  UNCHANGED <<phase, backlog, peer, shut>>
  BY <1>5 DEF recv, send, clientVars
<1>6. ASSUME NEW fd \in Fds, peer[fd] # Null, close(fd)
      PROVE  /\ peer[fd] \in Clients /\ UNCHANGED <<phase, backlog>>
             /\ \A gd \in Fds : peer'[gd] = IF gd = fd THEN Null ELSE peer[gd]
             /\ \A c \in Clients : shut'[c] <=> shut[c] \/ c = peer[fd]
  BY <1>1, <1>6, CloseMoves
<1>7. CASE Calls
  BY <1>3, <1>4, <1>5, <1>6, <1>7 DEF Calls
<1>8. CASE \E c \in Clients : client_task(c) /\ peer' = peer
  BY <1>2, <1>8
<1> QED
  BY <1>7, <1>8, StepCalls

(* A connection that has been closed is not found again.                   *)
LEMMA GoneStep ==
  ASSUME IndInv, ClosedIsGone, [Next]_vars
  PROVE  ClosedIsGone'
<1>1. /\ \A fd, gd \in Fds : peer[fd] = peer[gd] /\ peer[fd] # Null => fd = gd
      /\ \A fd \in Fds : peer[fd] \notin Range(backlog)
      /\ \A c \in Clients : phase[c] = "new" =>
           c \notin Range(backlog) /\ \A fd \in Fds : peer[fd] # c
  BY DEF IndInv, Connections
<1>2. Null \notin Clients
  BY EchoAssumption
<1> USE DEF ClosedIsGone
<1>3. CASE /\ UNCHANGED <<backlog, peer, shut>>
           /\ \A c \in Clients : phase'[c] = "new" => phase[c] = "new"
  BY <1>3
<1>4. ASSUME NEW c \in Clients, UNCHANGED <<peer, shut>>, phase[c] = "new",
             Range(backlog') = Range(backlog) \cup {c},
             \A d \in Clients : phase'[d] = "new" => phase[d] = "new"
      PROVE  ClosedIsGone'
  BY <1>4
<1>5. ASSUME NEW c \in Clients, NEW n \in Fds, c \in Range(backlog),
             Range(backlog') = Range(backlog) \ {c}, UNCHANGED <<phase, shut>>,
             \A fd \in Fds : peer'[fd] = IF fd = n THEN c ELSE peer[fd]
      PROVE  ClosedIsGone'
  BY <1>5
<1>6. ASSUME NEW fd \in Fds, peer[fd] \in Clients, UNCHANGED <<phase, backlog>>,
             \A gd \in Fds : peer'[gd] = IF gd = fd THEN Null ELSE peer[gd],
             \A c \in Clients : shut'[c] <=> shut[c] \/ c = peer[fd]
      PROVE  ClosedIsGone'
  BY <1>1, <1>2, <1>6
<1> QED
  BY <1>3, <1>4, <1>5, <1>6, StepMoves

(* Requests and replies stay in turn.                                      *)
LEMMA ExchangeStep ==
  ASSUME IndInv, ClosedIsGone, Exchange, [Next]_vars
  PROVE  Exchange'
<1>1. NetTypes /\ Connections /\ Null \notin Clients
  BY EchoAssumption DEF IndInv
<1>2. ASSUME NEW c \in Clients, client_task(c), peer' = peer,
             \A fd \in Fds : Sending(fd)' <=> Sending(fd)
      PROVE  Exchange'
  <2> USE DEF clientVars, tcp
  <2>1. \A d \in Clients : Answering(d)' <=> Answering(d)
    BY <1>2 DEF Answering
  <2>2. ASSUME Exit(c) PROVE Exchange'
    <3>1. UNCHANGED <<req, rep, shut>> /\ \A d \in Clients : phase'[d] \in {phase[d], "gone"}
      BY <2>2, Zenon DEF Exit
    <3> QED
      BY <2>1, <3>1 DEF Exchange
  <2>3. CASE Connect(c)
    <3>1. /\ UNCHANGED <<req, rep, shut>> /\ phase[c] = "new" /\ phase'[c] = "send"
          /\ \A d \in Clients : d # c => phase'[d] = phase[d]
      BY <1>1, <2>3 DEF Connect, NetTypes
    <3> QED
      BY <2>1, <3>1 DEF Exchange
  <2>4. CASE SendRequest(c) /\ ~resetC[c]
    <3>1. /\ UNCHANGED <<rep, shut>> /\ phase[c] = "send" /\ phase'[c] = "recv" /\ req'[c]
          /\ \A d \in Clients : d # c => phase'[d] = phase[d] /\ req'[d] = req[d]
      BY <1>1, <2>4 DEF SendRequest, NetTypes
    <3> QED
      BY <2>1, <3>1 DEF Exchange
  <2>5. CASE ResetArrives(c)
    <3>1. UNCHANGED <<phase, req, rep, shut>>
      BY <2>5 DEF ResetArrives
    <3> QED
      BY <2>1, <3>1 DEF Exchange
  <2>6. CASE ReceiveReply(c) /\ (rep[c] \/ (shut[c] /\ ~resetC[c]))
    <3>1. /\ UNCHANGED <<req, shut>> /\ phase[c] = "recv" /\ phase'[c] = "send" /\ ~rep'[c]
          /\ rep[c] \/ shut[c]
          /\ \A d \in Clients : d # c => phase'[d] = phase[d] /\ rep'[d] = rep[d]
      BY <1>1, <2>6, Zenon DEF ReceiveReply, NetTypes
    <3> QED
      BY <2>1, <3>1 DEF Exchange
  <2>7. CASE TimeUp(c)
    <3>1. /\ UNCHANGED <<req, rep, shut>> /\ phase'[c] = "gone"
          /\ \A d \in Clients : d # c => phase'[d] = phase[d]
      BY <1>1, <2>7 DEF TimeUp, NetTypes
    <3> QED
      BY <2>1, <3>1 DEF Exchange
  <2> QED
    BY <1>2, <2>2, <2>3, <2>4, <2>5, <2>6, <2>7 DEF client_task, SendRequest, ReceiveReply
<1>3. CASE UNCHANGED netVars /\ \A fd \in Fds : Sending(fd)' <=> Sending(fd)
  <2>1. UNCHANGED <<peer, phase, req, rep, shut>>
    BY <1>3 DEF netVars, clientVars, tcp
  <2>2. \A c \in Clients : Answering(c)' <=> Answering(c)
    BY <1>3, <2>1 DEF Answering
  <2> QED
    BY <2>1, <2>2 DEF Exchange
<1>4. CASE Accepts /\ accept /\ \A fd \in Fds : ~Sending(fd) /\ ~Sending(fd)'
  <2>1. \A c \in Clients : ~Answering(c) /\ ~Answering(c)'
    BY <1>4 DEF Answering
  <2>2. UNCHANGED <<phase, req, rep, shut>>
    BY <1>4 DEF accept, clientVars
  <2> QED
    BY <2>1, <2>2 DEF Exchange
<1>5. ASSUME NEW fd \in Fds, peer[fd] # Null, Data(fd), recv(fd),
             \A gd \in Fds : ~Sending(gd) /\ (Sending(gd)' <=> gd = fd)
      PROVE  Exchange'
  <2>1. /\ UNCHANGED <<peer, phase, rep, shut>> /\ req[peer[fd]]
        /\ req' = [req EXCEPT ![peer[fd]] = FALSE]
    BY <1>5 DEF recv, clientVars, Data
  <2>2. PICK d \in Clients : d = peer[fd]
    BY <1>1, <1>5 DEF NetTypes
  <2>3. \A c \in Clients : ~Answering(c) /\ (Answering(c)' <=> c = d)
    BY <1>5, <2>1, <2>2 DEF Answering
  <2>4. ~req'[d] /\ req[d] /\ \A c \in Clients : c # d => req'[c] = req[c]
    BY <1>1, <2>1, <2>2 DEF NetTypes
  <2> QED
    BY <2>1, <2>3, <2>4 DEF Exchange
<1>6. ASSUME NEW fd \in Fds, peer[fd] # Null, send(fd),
             \A gd \in Fds : (Sending(gd) <=> gd = fd) /\ ~Sending(gd)'
      PROVE  Exchange'
  <2>1. /\ UNCHANGED <<peer, phase, req, shut>>
        /\ rep' = [rep EXCEPT ![peer[fd]] = phase[peer[fd]] # "gone"]
    BY <1>6 DEF send, clientVars
  <2>2. PICK d \in Clients : d = peer[fd]
    BY <1>1, <1>6 DEF NetTypes
  <2>3. \A c \in Clients : (Answering(c) <=> c = d) /\ ~Answering(c)'
    BY <1>6, <2>1, <2>2 DEF Answering
  <2>4. (rep'[d] <=> phase[d] # "gone") /\ \A c \in Clients : c # d => rep'[c] = rep[c]
    BY <1>1, <2>1, <2>2 DEF NetTypes
  <2> QED
    BY <1>1, <2>1, <2>3, <2>4 DEF Exchange
<1>7. ASSUME NEW fd \in Fds, peer[fd] # Null, close(fd),
             \A gd \in Fds : ~Sending(gd) /\ ~Sending(gd)'
      PROVE  Exchange'
  <2>1. \A c \in Clients : ~Answering(c) /\ ~Answering(c)'
    BY <1>7 DEF Answering
  <2>2. /\ \A c \in Clients : shut'[c] <=> shut[c] \/ c = peer[fd]
        /\ UNCHANGED <<phase, req, rep>>
    BY <1>1, <1>7, CloseMoves
  <2> QED
    BY <2>1, <2>2 DEF Exchange
<1> QED
  BY <1>2, <1>3, <1>4, <1>5, <1>6, <1>7, StepCalls DEF Calls

(* A step takes a connection to its next stage or leaves it.               *)
LEMMA StageStep ==
  ASSUME IndInv, ClosedIsGone, [Next]_vars, NEW c \in Clients
  PROVE  \/ Stage(c)' = Stage(c)
         \/ <<Stage(c), Stage(c)'>> \in {<<"new", "waiting">>, <<"waiting", "open">>,
                                         <<"open", "closed">>}
<1>1. /\ \A fd, gd \in Fds : peer[fd] = peer[gd] /\ peer[fd] # Null => fd = gd
      /\ \A fd \in Fds : peer[fd] \notin Range(backlog)
      /\ \A d \in Clients : phase[d] = "new" =>
           d \notin Range(backlog) /\ \A fd \in Fds : peer[fd] # d
  BY DEF IndInv, Connections
<1>2. /\ Null \notin Clients
      /\ shut[c] => phase[c] # "new" /\ c \notin Range(backlog) /\ \A fd \in Fds : peer[fd] # c
  BY EchoAssumption DEF ClosedIsGone
<1>3. CASE UNCHANGED <<backlog, peer, shut>>
  BY <1>3 DEF Stage
<1>4. ASSUME NEW d \in Clients, UNCHANGED <<peer, shut>>, phase[d] = "new",
             Range(backlog') = Range(backlog) \cup {d}
      PROVE  Stage(c)' = Stage(c) \/ (Stage(c) = "new" /\ Stage(c)' = "waiting")
  <2>1. CASE c = d
    BY <1>1, <1>2, <1>4, <2>1 DEF Stage
  <2>2. CASE c # d
    BY <1>4, <2>2 DEF Stage
  <2> QED
    BY <2>1, <2>2
<1>5. ASSUME NEW d \in Clients, NEW n \in Fds, d \in Range(backlog), peer[n] = Null,
             Range(backlog') = Range(backlog) \ {d}, UNCHANGED <<phase, shut>>,
             \A fd \in Fds : peer'[fd] = IF fd = n THEN d ELSE peer[fd]
      PROVE  Stage(c)' = Stage(c) \/ (Stage(c) = "waiting" /\ Stage(c)' = "open")
  <2>1. CASE c = d
    <3>1. Stage(c) = "waiting"
      BY <1>1, <1>5, <2>1 DEF Stage
    <3>2. Stage(c)' = "open"
      BY <1>5, <2>1 DEF Stage
    <3> QED
      BY <3>1, <3>2
  <2>2. CASE c # d
    <3>1. (\E fd \in Fds : peer'[fd] = c) <=> \E fd \in Fds : peer[fd] = c
      BY <1>2, <1>5, <2>2
    <3>2. c \in Range(backlog') <=> c \in Range(backlog)
      BY <1>5, <2>2
    <3> QED
      BY <1>5, <3>1, <3>2 DEF Stage
  <2> QED
    BY <2>1, <2>2
<1>6. ASSUME NEW fd \in Fds, peer[fd] \in Clients, UNCHANGED <<phase, backlog>>,
             \A gd \in Fds : peer'[gd] = IF gd = fd THEN Null ELSE peer[gd],
             \A d \in Clients : shut'[d] <=> shut[d] \/ d = peer[fd]
      PROVE  Stage(c)' = Stage(c) \/ (Stage(c) = "open" /\ Stage(c)' = "closed")
  <2>1. CASE c = peer[fd]
    <3>1. Stage(c) = "open"
      BY <2>1 DEF Stage
    <3>2. c \notin Range(backlog') /\ shut'[c] /\ \A gd \in Fds : peer'[gd] # c
      BY <1>1, <1>2, <1>6, <2>1
    <3>3. Stage(c)' = "closed"
      BY <3>2 DEF Stage
    <3> QED
      BY <3>1, <3>3
  <2>2. CASE c # peer[fd]
    <3>1. (\E gd \in Fds : peer'[gd] = c) <=> \E gd \in Fds : peer[gd] = c
      BY <1>2, <1>6, <2>2
    <3>2. (shut'[c] <=> shut[c]) /\ (c \in Range(backlog') <=> c \in Range(backlog))
      BY <1>6, <2>2
    <3> QED
      BY <3>1, <3>2 DEF Stage
  <2> QED
    BY <2>1, <2>2
<1> QED
  BY <1>3, <1>4, <1>5, <1>6, StepMoves

LEMMA ExchangeInvariant == Spec => [](IndInv /\ ClosedIsGone /\ Exchange)
<1>1. Init => ClosedIsGone
  BY DEF Init, NetInit, ClosedIsGone
<1>2. ASSUME Init PROVE Exchange
  <2>1. \A fd \in Fds : peer[fd] = Null
    BY <1>2 DEF Init, NetInit
  <2>2. \A c \in Clients : ~Answering(c)
    BY <2>1, EchoAssumption DEF Answering
  <2>3. \A c \in Clients : phase[c] = "new" /\ ~req[c] /\ ~rep[c]
    BY <1>2 DEF Init, NetInit
  <2> QED
    BY <2>2, <2>3 DEF Exchange
<1> QED
  BY <1>1, <1>2, EchoInvariant, GoneStep, ExchangeStep, PTL DEF Spec

(* No request is lost between a client and the server, none is answered    *)
(* twice and no reply comes that was not asked for, whichever server runs. *)
THEOREM ExchangeHolds == Spec => []Exchange
BY ExchangeInvariant, PTL

(* The server serves each connection from accept to close, once.           *)
THEOREM OnceThroughHolds == Spec => OnceThrough
<1>1. ASSUME IndInv, ClosedIsGone, [Next]_vars
      PROVE  [\A c \in Clients :
                \/ Stage(c)' = Stage(c)
                \/ <<Stage(c), Stage(c)'>> \in {<<"new", "waiting">>, <<"waiting", "open">>,
                                                <<"open", "closed">>}]_vars
  BY <1>1, StageStep
<1> QED
  BY <1>1, ExchangeInvariant, PTL DEF Spec, OnceThrough
=============================================================================
