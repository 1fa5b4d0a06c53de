---------------------------- MODULE FdTablesProofs ----------------------------
(***************************************************************************)
(* Proofs about FdTables, for any threads, descriptors and first sizes: no *)
(* entry lies beyond the end of its vector, an open connection keeps its   *)
(* FdCtx while the vectors grow, and every registered event can be found   *)
(* unless two threads have resized m_fdContexts at once.                   *)
(*                                                                         *)
(* What is behind it: a vector grows to fd * 1.5, which is more than fd    *)
(* because fd is at least 2 when the vector is too short for it, and a     *)
(* thread that resizes m_fdContexts has read a size that was too small.    *)
(***************************************************************************)
EXTENDS FdTables, SocketFlags, TLAPS

(* Where the threads are: a thread creates and resizes only for a          *)
(* descriptor that is too large for what it has read, and registers in an  *)
(* entry of the vector, or else in one that has dropped out.               *)
Places ==
  /\ dsize >= 2 /\ csize >= 2
  /\ \A t \in Threads :
       /\ pc[t] # "idle" => cur[t] \in Fds
       /\ pc[t] = "resize" => cur[t] >= 2 /\ cur[t] >= seen[t]
       /\ pc[t] = "register" /\ t \notin outdated => cur[t] < csize
       /\ t \in outdated => pc[t] = "register"

(* A thread's pointer drops out only when two threads have resized.        *)
OutdatedRaced == outdated # {} => raced

IndInv == TypeOK /\ Places /\ OutdatedRaced /\ CtxStays /\ EventsFound

-----------------------------------------------------------------------------
(* fd * 1.5 is larger than fd.                                             *)
LEMMA LargerIsLarger ==
  ASSUME NEW n \in Nat
  PROVE  Larger(n) \in Nat /\ (n >= 2 => Larger(n) > n /\ Larger(n) >= 2)
BY DEF Larger

(* The initial state satisfies the inductive invariant.                    *)
LEMMA InitInductive == Init => IndInv
<1> SUFFICES ASSUME Init PROVE IndInv
  OBVIOUS
<1>1. TypeOK
  BY SizesAssumption DEF Init, TypeOK
<1>2. Places
  BY SizesAssumption DEF Init, Places
<1> QED
  BY <1>1, <1>2 DEF Init, IndInv, OutdatedRaced, CtxStays, EventsFound

(* Every step keeps it: one step of the proof per action.                  *)
LEMMA NextInductive == IndInv /\ [Next]_vars => IndInv'
<1> SUFFICES ASSUME IndInv, [Next]_vars PROVE IndInv'
  OBVIOUS
<1> USE SizesAssumption DEF IndInv, TypeOK, Places, OutdatedRaced, CtxStays,
        EventsFound, Goto
<1>1. ASSUME NEW t \in Threads, NEW fd \in Fds, Accept(t, fd) PROVE IndInv'
  <2>1. TypeOK'
    BY <1>1 DEF Accept
  <2>2. Places'
    BY <1>1 DEF Accept
  <2>3. OutdatedRaced'
    BY <1>1 DEF Accept
  <2>4. CtxStays'
    BY <1>1 DEF Accept
  <2>5. EventsFound'
    BY <1>1 DEF Accept
  <2> QED
    BY <2>1, <2>2, <2>3, <2>4, <2>5
<1>2. ASSUME NEW t \in Threads, NEW fd \in Fds, Lookup(t, fd) PROVE IndInv'
  <2>1. TypeOK'
    BY <1>2 DEF Lookup
  <2>2. Places'
    BY <1>2 DEF Lookup
  <2>3. OutdatedRaced'
    BY <1>2 DEF Lookup
  <2>4. CtxStays'
    BY <1>2 DEF Lookup
  <2>5. EventsFound'
    BY <1>2 DEF Lookup
  <2> QED
    BY <2>1, <2>2, <2>3, <2>4, <2>5
<1>3. ASSUME NEW t \in Threads, Create(t) PROVE IndInv'
  <2>1. /\ cur[t] \in Fds /\ cur[t] \in Nat
        /\ dsize' = IF dsize <= cur[t] THEN Larger(cur[t]) ELSE dsize
    BY <1>3 DEF Create
  <2>2. dsize' \in Nat /\ dsize' >= dsize /\ cur[t] < dsize'
    BY <2>1, LargerIsLarger
  <2>3. datas' = datas \cup {cur[t]}
    <3>1. datas' = {fd \in datas \cup {cur[t]} : fd < dsize'}
      BY <1>3 DEF Create
    <3>2. \A fd \in datas : fd \in Nat /\ fd < dsize'
      BY <2>2
    <3> QED
      BY <2>2, <3>1, <3>2
  <2>4. TypeOK'
    BY <1>3, <2>1, <2>2, <2>3 DEF Create
  <2>5. Places' /\ OutdatedRaced' /\ EventsFound'
    BY <1>3, <2>2 DEF Create
  <2>6. CtxStays'
    BY <1>3, <2>3 DEF Create
  <2> QED
    BY <2>4, <2>5, <2>6
<1>4. ASSUME NEW t \in Threads, Resize(t) PROVE IndInv'
  <2>1. /\ cur[t] \in Fds /\ cur[t] \in Nat /\ cur[t] >= 2
        /\ csize' = Larger(cur[t])
    BY <1>4 DEF Resize
  <2>2. csize' \in Nat /\ csize' >= 2 /\ cur[t] < csize'
    BY <2>1, LargerIsLarger
  <2>3. TypeOK'
    <3>1. /\ waiting' \subseteq {fd \in Fds : fd < csize'}
          /\ orphans' \subseteq Fds /\ outdated' \subseteq Threads
      BY <1>4 DEF Resize
    <3>2. raced' \in BOOLEAN
      BY <1>4 DEF Resize
    <3> QED
      BY <1>4, <2>2, <3>1, <3>2 DEF Resize
  <2>4. Places'
    <3>1. ASSUME NEW u \in Threads, u # t
          PROVE  /\ pc'[u] = pc[u] /\ cur'[u] = cur[u] /\ seen'[u] = seen[u]
                 /\ u \in outdated => u \in outdated'
                 /\ u \in outdated' => pc[u] = "register"
                 /\ pc[u] = "register" /\ u \notin outdated'
                      => cur[u] < csize'
      <4>1. pc[u] = "register" => cur[u] \in Nat
        OBVIOUS
      <4>2. outdated' = outdated \cup
              {v \in Threads : pc[v] = "register" /\ cur[v] >= csize'}
        BY <1>4 DEF Resize
      <4> QED
        BY <1>4, <2>2, <3>1, <4>1, <4>2 DEF Resize
    <3>2. pc'[t] = "register" /\ cur' = cur /\ dsize' = dsize
          /\ seen' = seen /\ (t \in outdated' => pc[t] = "register")
      BY <1>4 DEF Resize
    <3>3. \A u \in Threads :
            /\ pc'[u] # "idle" => cur'[u] \in Fds
            /\ pc'[u] = "resize" => cur'[u] >= 2 /\ cur'[u] >= seen'[u]
            /\ pc'[u] = "register" /\ u \notin outdated' => cur'[u] < csize'
            /\ u \in outdated' => pc'[u] = "register"
      BY <2>1, <2>2, <3>1, <3>2
    <3> QED
      BY <2>2, <3>2, <3>3
  <2>5. CtxStays'
    BY <1>4 DEF Resize
  <2>6. OutdatedRaced' /\ EventsFound'
    <3>1. CASE csize = seen[t]
      <4>1. csize' > csize
        BY <1>4, <2>1, <2>2, <3>1 DEF Resize
      <4>2. waiting' = waiting
        <5>1. \A fd \in waiting : fd \in Nat /\ fd < csize'
          BY <2>2, <4>1
        <5> QED
          BY <1>4, <5>1 DEF Resize
      <4>3. orphans' = orphans
        BY <1>4, <4>2 DEF Resize
      <4>4. outdated' = outdated
        <5>1. ASSUME NEW u \in Threads, pc[u] = "register", u \notin outdated
              PROVE  ~ (cur[u] >= csize')
          <6>1. cur[u] \in Nat /\ cur[u] < csize
            BY <5>1
          <6> QED
            BY <2>2, <4>1, <6>1
        <5>2. outdated' = outdated \cup
                {u \in Threads : pc[u] = "register" /\ cur[u] >= csize'}
          BY <1>4 DEF Resize
        <5> QED
          BY <5>1, <5>2
      <4> QED
        BY <1>4, <4>3, <4>4 DEF Resize
    <3>2. CASE csize # seen[t]
      BY <1>4, <3>2 DEF Resize
    <3> QED
      BY <3>1, <3>2
  <2> QED
    BY <2>3, <2>4, <2>5, <2>6
<1>5. ASSUME NEW t \in Threads, Register(t) PROVE IndInv'
  <2>1. TypeOK'
    <3>1. cur[t] \in Fds /\ (t \notin outdated => cur[t] < csize)
      BY <1>5 DEF Register
    <3>2. waiting' \in {waiting, waiting \cup {cur[t]}}
          /\ (waiting' # waiting => t \notin outdated)
      BY <1>5 DEF Register
    <3>3. orphans' \in {orphans, orphans \cup {cur[t]}}
      BY <1>5 DEF Register
    <3>4. waiting' \subseteq {fd \in Fds : fd < csize'}
      BY <1>5, <3>1, <3>2 DEF Register
    <3>5. outdated' \subseteq Threads /\ orphans' \subseteq Fds
      BY <1>5, <3>1, <3>3 DEF Register
    <3> QED
      BY <1>5, <3>4, <3>5 DEF Register
  <2>2. Places'
    BY <1>5 DEF Register
  <2>3. OutdatedRaced'
    BY <1>5 DEF Register
  <2>4. CtxStays'
    BY <1>5 DEF Register
  <2>5. EventsFound'
    BY <1>5 DEF Register
  <2> QED
    BY <2>1, <2>2, <2>3, <2>4, <2>5
<1>6. ASSUME NEW fd \in Fds, Served(fd) PROVE IndInv'
  <2>1. TypeOK'
    BY <1>6 DEF Served
  <2>2. Places'
    BY <1>6 DEF Served
  <2>3. OutdatedRaced'
    BY <1>6 DEF Served
  <2>4. CtxStays'
    BY <1>6 DEF Served
  <2>5. EventsFound'
    BY <1>6 DEF Served
  <2> QED
    BY <2>1, <2>2, <2>3, <2>4, <2>5
<1>7. ASSUME NEW fd \in Fds, CloseBegin(fd) PROVE IndInv'
  <2>1. TypeOK'
    BY <1>7 DEF CloseBegin, Busy
  <2>2. Places'
    BY <1>7 DEF CloseBegin, Busy
  <2>3. OutdatedRaced'
    BY <1>7 DEF CloseBegin, Busy
  <2>4. CtxStays'
    BY <1>7 DEF CloseBegin, Busy
  <2>5. EventsFound'
    BY <1>7 DEF CloseBegin, Busy
  <2> QED
    BY <2>1, <2>2, <2>3, <2>4, <2>5
<1>9. ASSUME NEW fd \in Fds, CloseEnd(fd) PROVE IndInv'
  <2>1. TypeOK'
    BY <1>9 DEF CloseEnd
  <2>2. Places'
    BY <1>9 DEF CloseEnd
  <2>3. OutdatedRaced'
    BY <1>9 DEF CloseEnd
  <2>4. CtxStays'
    BY <1>9 DEF CloseEnd
  <2>5. EventsFound'
    BY <1>9 DEF CloseEnd
  <2> QED
    BY <2>1, <2>2, <2>3, <2>4, <2>5
<1>8. CASE UNCHANGED vars
  BY <1>8 DEF vars
<1> QED
  BY <1>1, <1>2, <1>3, <1>4, <1>5, <1>6, <1>7, <1>8, <1>9 DEF Next

LEMMA Inductive == Spec => []IndInv
BY InitInductive, NextInductive, PTL DEF Spec

-----------------------------------------------------------------------------
(* The type invariant: no entry lies beyond the end of its vector.         *)
THEOREM TableTypesHold == Spec => []TypeOK
<1>1. IndInv => TypeOK
  BY DEF IndInv
<1> QED
  BY Inductive, <1>1, PTL

(* An open connection keeps its FdCtx, whatever other descriptors make     *)
(* m_datas grow.                                                           *)
THEOREM CtxStaysHolds == Spec => []CtxStays
<1>1. IndInv => CtxStays
  BY DEF IndInv
<1> QED
  BY Inductive, <1>1, PTL

(* A registered event is where cancelEvent and close() look for it, unless *)
(* two threads have resized m_fdContexts at once.                          *)
THEOREM EventsFoundHolds == Spec => []EventsFound
<1>1. IndInv => EventsFound
  BY DEF IndInv
<1> QED
  BY Inductive, <1>1, PTL

-----------------------------------------------------------------------------
(* SocketFlags, for any descriptors and timeouts: the types, that          *)
(* no socket of corlib's blocks a worker, and that the user sees the modes *)
(* that were asked for.                                                    *)
(*                                                                         *)
(* UserView alone is not inductive: a socket made with SOCK_NONBLOCK is    *)
(* outside it until fcntl() is called, and its timeout must agree then     *)
(* too.  And an entry of the table is either a socket's or none at all.    *)
(* All of it is said of one descriptor at a time (Good): a call changes    *)
(* one and leaves the others as they were.                                 *)
FlagTypes ==
  /\ kernel \in [Descriptors -> [is : {"free", "socket", "other"},
                               nonblock : BOOLEAN]]
  /\ ctx \in [Descriptors -> [is : {"none", "socket"}, sys : BOOLEAN,
                            user : BOOLEAN, timeout : Timeouts \cup {Forever}]]
  /\ wants \in [Descriptors -> [nonblock : BOOLEAN,
                              timeout : Timeouts \cup {Forever}]]
  /\ odd \in [Descriptors -> SUBSET {"born", "stale", "ioctl", "zero",
                                     "unhooked", "failed"}]

(* What holds of a descriptor: a socket has its FdCtx, which asks for      *)
(* O_NONBLOCK; an entry of the table that is no socket's is empty; and     *)
(* unless the FdCtx is another's, the timeout agrees, the kernel's socket  *)
(* is non-blocking but for FIONBIO, and the user's mode is the user's.     *)
Good(fd) ==
  /\ ctx[fd].is = "none" => ctx[fd] = NoCtx
  /\ Managed(fd) => ctx[fd].sys
  /\ Is(fd, "socket") =>
       /\ Managed(fd)
       /\ "stale" \notin odd[fd] =>
            /\ {"zero", "unhooked", "failed"} \cap odd[fd] = {}
                 => ctx[fd].timeout = wants[fd].timeout
            /\ "ioctl" \notin odd[fd] => kernel[fd].nonblock
            /\ "born" \notin odd[fd] => GetFl(fd) = wants[fd].nonblock

FlagsInv == FlagTypes /\ \A fd \in Descriptors : Good(fd)

-----------------------------------------------------------------------------
(* The initial state satisfies the inductive invariant.                    *)
LEMMA FlagsBegin == FlagsInit => FlagsInv
BY DEF FlagsInit, FlagsInv, FlagTypes, Good, Is, Managed, Free,
       NoCtx, Defaults, GetFl

(* What holds of a descriptor holds after a step that leaves it alone.     *)
LEMMA Frame ==
  ASSUME NEW x \in Descriptors, Good(x), kernel'[x] = kernel[x],
         ctx'[x] = ctx[x], wants'[x] = wants[x], odd'[x] = odd[x]
  PROVE  Good(x)'
BY DEF Good, Is, Managed, GetFl

(* Every step keeps it: one step of the proof per call.                    *)
LEMMA FlagsStep == FlagsInv /\ [FlagsNext]_flagVars => FlagsInv'
<1> SUFFICES ASSUME FlagsInv, [FlagsNext]_flagVars PROVE FlagsInv'
  OBVIOUS
<1> USE DEF FlagsInv
<1>1. ASSUME NEW fd \in Descriptors, NEW b \in BOOLEAN, Open(fd, b)
      PROVE FlagsInv'
  <2>1. FlagTypes'
    BY <1>1 DEF FlagTypes, Open, GetCtx, FreshCtx, Defaults,
           NoCtx, Managed
  <2>2. ASSUME NEW x \in Descriptors, x # fd PROVE Good(x)'
    BY <1>1, <2>2, Frame DEF FlagTypes, Open, GetCtx
  <2>3. Good(fd)'
    <3>1. CASE ctx[fd] = NoCtx
      <4>1. /\ ctx'[fd] = FreshCtx("socket")
            /\ kernel'[fd] = [is |-> "socket", nonblock |-> TRUE]
            /\ "born" \notin odd'[fd] => b = FALSE
            /\ wants'[fd] = [nonblock |-> b, timeout |-> Forever]
        BY <1>1, <3>1 DEF FlagTypes, Open, GetCtx, Defaults
      <4> QED
        <5>1. FreshCtx("socket") = [is |-> "socket", sys |-> TRUE,
                                    user |-> FALSE, timeout |-> Forever]
          BY DEF FreshCtx
        <5>2. /\ ctx'[fd].is = "socket" /\ ctx'[fd].user = FALSE
              /\ ctx'[fd].timeout = Forever
          BY <4>1, <5>1
        <5>3. ctx'[fd].sys
          BY <4>1, <5>1
        <5>4. "born" \notin odd'[fd] => wants'[fd].nonblock = FALSE
          BY <4>1
        <5>5. kernel'[fd].nonblock /\ wants'[fd].timeout = Forever
          BY <4>1
        <5> QED
          BY <5>2, <5>3, <5>4, <5>5 DEF Good, Is, Managed, GetFl
    <3>2. CASE ctx[fd] # NoCtx
      <4>1. /\ ctx'[fd] = ctx[fd]
            /\ "stale" \in odd'[fd]
            /\ Managed(fd)
        BY <1>1, <3>2 DEF FlagTypes, Open, GetCtx, Good, Managed
      <4> QED
        BY <4>1 DEF Good, Is, Managed, GetFl, NoCtx
    <3> QED
      BY <3>1, <3>2
  <2> QED
    BY <2>1, <2>2, <2>3
<1>2. ASSUME NEW fd \in Descriptors, NEW b \in BOOLEAN, SetFl(fd, b)
      PROVE FlagsInv'
  <2>1. CASE Managed(fd)
    <3>1. /\ kernel' = [kernel EXCEPT ![fd].nonblock = ctx[fd].sys]
          /\ ctx' = [ctx EXCEPT ![fd].user = b]
          /\ wants' = [wants EXCEPT ![fd].nonblock = b]
          /\ odd' = [odd EXCEPT ![fd] = @ \ {"born", "ioctl"}]
      BY <1>2, <2>1 DEF SetFl
    <3>2. FlagTypes'
      <4>1. [ctx[fd] EXCEPT !.user = b] \in
              [is : {"none", "socket"}, sys : BOOLEAN, user : BOOLEAN,
               timeout : Timeouts \cup {Forever}]
        BY DEF FlagTypes
      <4>2. ctx' \in [Descriptors -> [is : {"none", "socket"}, sys : BOOLEAN,
                            user : BOOLEAN,
                            timeout : Timeouts \cup {Forever}]]
        BY <3>1, <4>1 DEF FlagTypes
      <4>3. /\ kernel' \in [Descriptors -> [is : {"free", "socket", "other"},
                                  nonblock : BOOLEAN]]
            /\ wants' \in [Descriptors -> [nonblock : BOOLEAN,
                                 timeout : Timeouts \cup {Forever}]]
            /\ odd' \in [Descriptors ->
                          SUBSET {"born", "stale", "ioctl", "zero",
                                  "unhooked", "failed"}]
        BY <3>1 DEF FlagTypes
      <4> QED
        BY <4>2, <4>3 DEF FlagTypes
    <3>3. ASSUME NEW x \in Descriptors, x # fd PROVE Good(x)'
      BY <3>1, <3>3, Frame DEF FlagTypes
    <3>4. Good(fd)'
      <4>1. odd'[fd] = odd[fd] \ {"born", "ioctl"}
        BY <3>1 DEF FlagTypes
      <4>2. {"zero", "unhooked", "failed"} \cap odd'[fd]
              = {"zero", "unhooked", "failed"} \cap odd[fd]
        BY <4>1
      <4>3. ctx'[fd].timeout = ctx[fd].timeout
        BY <3>1 DEF FlagTypes
      <4>4. wants'[fd].timeout = wants[fd].timeout
        BY <3>1 DEF FlagTypes
      <4>5. /\ ctx'[fd].is = ctx[fd].is
            /\ ctx'[fd].user = b
            /\ ctx'[fd].sys = ctx[fd].sys
        BY <3>1 DEF FlagTypes
      <4>6. wants'[fd].nonblock = b
        BY <3>1 DEF FlagTypes
      <4>7. kernel'[fd].is = kernel[fd].is /\ kernel'[fd].nonblock = ctx[fd].sys
        BY <3>1 DEF FlagTypes
      <4> QED
        BY <2>1, <4>1, <4>2, <4>3, <4>4, <4>5, <4>6, <4>7
        DEF Good, Is, Managed, GetFl
    <3> QED
      BY <3>2, <3>3, <3>4
  <2>2. CASE ~Managed(fd)
    <3>1. /\ kernel' = [kernel EXCEPT ![fd].nonblock = b]
          /\ ctx' = ctx
          /\ wants' = [wants EXCEPT ![fd].nonblock = b]
          /\ odd' = [odd EXCEPT ![fd] = @ \ {"born", "ioctl"}]
      BY <1>2, <2>2 DEF SetFl
    <3>2. FlagTypes'
      BY <3>1 DEF FlagTypes
    <3>3. ASSUME NEW x \in Descriptors, x # fd PROVE Good(x)'
      BY <3>1, <3>3, Frame DEF FlagTypes
    <3>4. Good(fd)'
      BY <3>1, <2>2 DEF FlagTypes, Good, Is, Managed
    <3> QED
      BY <3>2, <3>3, <3>4
  <2> QED
    BY <2>1, <2>2
<1>3. ASSUME NEW fd \in Descriptors, NEW b \in BOOLEAN, Fionbio(fd, b)
      PROVE FlagsInv'
  <2>1. CASE Managed(fd)
    <3>1. /\ kernel' = [kernel EXCEPT ![fd].nonblock = b]
          /\ ctx' = [ctx EXCEPT ![fd].user = b]
          /\ wants' = [wants EXCEPT ![fd].nonblock = b]
          /\ odd' = [odd EXCEPT ![fd] = (@ \ {"born"}) \cup {"ioctl"}]
      BY <1>3, <2>1 DEF Fionbio
    <3>2. FlagTypes'
      <4>1. [ctx[fd] EXCEPT !.user = b] \in
              [is : {"none", "socket"}, sys : BOOLEAN, user : BOOLEAN,
               timeout : Timeouts \cup {Forever}]
        BY DEF FlagTypes
      <4>2. ctx' \in [Descriptors -> [is : {"none", "socket"}, sys : BOOLEAN,
                            user : BOOLEAN,
                            timeout : Timeouts \cup {Forever}]]
        BY <3>1, <4>1 DEF FlagTypes
      <4>3. /\ kernel' \in [Descriptors -> [is : {"free", "socket", "other"},
                                  nonblock : BOOLEAN]]
            /\ wants' \in [Descriptors -> [nonblock : BOOLEAN,
                                 timeout : Timeouts \cup {Forever}]]
            /\ odd' \in [Descriptors ->
                          SUBSET {"born", "stale", "ioctl", "zero",
                                  "unhooked", "failed"}]
        BY <3>1 DEF FlagTypes
      <4> QED
        BY <4>2, <4>3 DEF FlagTypes
    <3>3. ASSUME NEW x \in Descriptors, x # fd PROVE Good(x)'
      BY <3>1, <3>3, Frame DEF FlagTypes
    <3>4. Good(fd)'
      <4>1. odd'[fd] = (odd[fd] \ {"born"}) \cup {"ioctl"}
        BY <3>1 DEF FlagTypes
      <4>2. {"zero", "unhooked", "failed"} \cap odd'[fd]
              = {"zero", "unhooked", "failed"} \cap odd[fd]
        BY <4>1
      <4>3. ctx'[fd].timeout = ctx[fd].timeout
        BY <3>1 DEF FlagTypes
      <4>4. wants'[fd].timeout = wants[fd].timeout
        BY <3>1 DEF FlagTypes
      <4>5. /\ ctx'[fd].is = ctx[fd].is
            /\ ctx'[fd].user = b
            /\ ctx'[fd].sys = ctx[fd].sys
        BY <3>1 DEF FlagTypes
      <4>6. wants'[fd].nonblock = b
        BY <3>1 DEF FlagTypes
      <4>7. kernel'[fd].is = kernel[fd].is /\ kernel'[fd].nonblock = b
        BY <3>1 DEF FlagTypes
      <4> QED
        BY <2>1, <4>1, <4>2, <4>3, <4>4, <4>5, <4>6, <4>7
        DEF Good, Is, Managed, GetFl
    <3> QED
      BY <3>2, <3>3, <3>4
  <2>2. CASE ~Managed(fd)
    <3>1. /\ kernel' = [kernel EXCEPT ![fd].nonblock = b]
          /\ ctx' = ctx
          /\ wants' = [wants EXCEPT ![fd].nonblock = b]
          /\ odd' = [odd EXCEPT ![fd] = (@ \ {"born"}) \cup {"ioctl"}]
      BY <1>3, <2>2 DEF Fionbio
    <3>2. FlagTypes'
      BY <3>1 DEF FlagTypes
    <3>3. ASSUME NEW x \in Descriptors, x # fd PROVE Good(x)'
      BY <3>1, <3>3, Frame DEF FlagTypes
    <3>4. Good(fd)'
      BY <3>1, <2>2 DEF FlagTypes, Good, Is, Managed
    <3> QED
      BY <3>2, <3>3, <3>4
  <2> QED
    BY <2>1, <2>2
<1>4. ASSUME NEW fd \in Descriptors, OpenOther(fd)
      PROVE FlagsInv'
  <2>1. FlagTypes'
    BY <1>4 DEF FlagTypes, OpenOther, Defaults, NoCtx, Managed
  <2>2. ASSUME NEW x \in Descriptors, x # fd PROVE Good(x)'
    BY <1>4, <2>2, Frame DEF FlagTypes, OpenOther
  <2>3. Good(fd)'
    BY <1>4 DEF FlagTypes, Good, Is, Managed, GetFl, NoCtx,
           OpenOther, Defaults
  <2> QED
    BY <2>1, <2>2, <2>3
<1>5. ASSUME NEW fd \in Descriptors, CloseHooked(fd)
      PROVE FlagsInv'
  <2>1. FlagTypes'
    BY <1>5 DEF FlagTypes, CloseHooked, Free, NoCtx, Managed
  <2>2. ASSUME NEW x \in Descriptors, x # fd PROVE Good(x)'
    BY <1>5, <2>2, Frame DEF FlagTypes, CloseHooked
  <2>3. Good(fd)'
    BY <1>5 DEF FlagTypes, Good, Is, Managed, GetFl, NoCtx,
           CloseHooked, Free
  <2> QED
    BY <2>1, <2>2, <2>3
<1>6. ASSUME NEW fd \in Descriptors, CloseUnhooked(fd)
      PROVE FlagsInv'
  <2>1. FlagTypes'
    BY <1>6 DEF FlagTypes, CloseUnhooked, Free, NoCtx, Managed
  <2>2. ASSUME NEW x \in Descriptors, x # fd PROVE Good(x)'
    BY <1>6, <2>2, Frame DEF FlagTypes, CloseUnhooked
  <2>3. Good(fd)'
    BY <1>6 DEF FlagTypes, Good, Is, Managed, GetFl, NoCtx,
           CloseUnhooked, Free
  <2> QED
    BY <2>1, <2>2, <2>3
<1>7. ASSUME NEW fd \in Descriptors, NEW v \in Timeouts, SetTimeout(fd, v)
      PROVE FlagsInv'
  <2>0. /\ kernel' = kernel
        /\ ctx' = IF ctx[fd] # NoCtx THEN [ctx EXCEPT ![fd].timeout = v]
                  ELSE ctx
        /\ wants' = [wants EXCEPT ![fd].timeout = Meant(v)]
        /\ Meant(v) \in Timeouts \cup {Forever} /\ (v # 0 => Meant(v) = v)
    BY <1>7 DEF SetTimeout, Meant
  <2>1. /\ odd' \in [Descriptors -> SUBSET {"born", "stale", "ioctl", "zero",
                                             "unhooked", "failed"}]
        /\ \A x \in Descriptors : x # fd => odd'[x] = odd[x]
        /\ odd'[fd] \ {"zero", "unhooked", "failed"}
             = odd[fd] \ {"zero", "unhooked", "failed"}
        /\ (v = 0 => "zero" \in odd'[fd])
    BY <1>7 DEF SetTimeout, FlagTypes, Timing
  <2>2. FlagTypes'
    <3>1. [ctx[fd] EXCEPT !.timeout = v] \in
            [is : {"none", "socket"}, sys : BOOLEAN, user : BOOLEAN,
             timeout : Timeouts \cup {Forever}]
      BY DEF FlagTypes
    <3>2. ctx' \in [Descriptors -> [is : {"none", "socket"}, sys : BOOLEAN,
                          user : BOOLEAN, timeout : Timeouts \cup {Forever}]]
      BY <2>0, <3>1 DEF FlagTypes
    <3>3. wants' \in [Descriptors -> [nonblock : BOOLEAN,
                            timeout : Timeouts \cup {Forever}]]
      BY <2>0 DEF FlagTypes
    <3> QED
      BY <2>0, <2>1, <3>2, <3>3 DEF FlagTypes
  <2>3. ASSUME NEW x \in Descriptors, x # fd PROVE Good(x)'
    BY <2>0, <2>1, <2>3, Frame DEF FlagTypes
  <2>4. Good(fd)'
    <3>1. Managed(fd) /\ ctx[fd] # NoCtx /\ ctx[fd].sys
      BY <1>7 DEF SetTimeout, Good, Managed, NoCtx
    <3>2. ctx' = [ctx EXCEPT ![fd].timeout = v]
      BY <2>0, <3>1
    <3>3. ctx'[fd].timeout = v
      BY <3>2 DEF FlagTypes
    <3>4. ctx'[fd].is = ctx[fd].is
      BY <3>2 DEF FlagTypes
    <3>5. ctx'[fd].user = ctx[fd].user
      BY <3>2 DEF FlagTypes
    <3>6. ctx'[fd].sys = ctx[fd].sys
      BY <3>2 DEF FlagTypes
    <3>7. wants'[fd].timeout = Meant(v)
      BY <2>0 DEF FlagTypes
    <3>8. wants'[fd].nonblock = wants[fd].nonblock
      BY <2>0 DEF FlagTypes
    <3>9. {"zero", "unhooked", "failed"} \cap odd'[fd] = {}
            => ctx'[fd].timeout = wants'[fd].timeout
      BY <2>0, <2>1, <3>3, <3>7
    <3>10. "stale" \in odd'[fd] <=> "stale" \in odd[fd]
      BY <2>1
    <3>11. "ioctl" \in odd'[fd] <=> "ioctl" \in odd[fd]
      BY <2>1
    <3>12. "born" \in odd'[fd] <=> "born" \in odd[fd]
      BY <2>1
    <3>13. /\ Managed(fd)' /\ GetFl(fd)' = ctx[fd].user
           /\ GetFl(fd) = ctx[fd].user
      BY <3>1, <3>4, <3>5 DEF Managed, GetFl
    <3>14. /\ "stale" \notin odd[fd] /\ "ioctl" \notin odd[fd]
             => kernel[fd].nonblock
           /\ "stale" \notin odd[fd] /\ "born" \notin odd[fd]
             => GetFl(fd) = wants[fd].nonblock
      BY <1>7 DEF SetTimeout, Good
    <3>15. ctx'[fd].is # "none" /\ ctx'[fd].sys
      BY <3>1, <3>4, <3>6 DEF Managed
    <3>16. /\ "stale" \notin odd'[fd] /\ "ioctl" \notin odd'[fd]
             => kernel'[fd].nonblock
           /\ "stale" \notin odd'[fd] /\ "born" \notin odd'[fd]
             => GetFl(fd)' = wants'[fd].nonblock
      BY <2>0, <3>8, <3>10, <3>11, <3>12, <3>13, <3>14
    <3>17. ctx'[fd].is = "none" => ctx'[fd] = NoCtx
      BY <3>15
    <3>18. Managed(fd)' => ctx'[fd].sys
      BY <3>15
    <3> QED
      BY <3>9, <3>13, <3>16, <3>17, <3>18 DEF Good
  <2> QED
    BY <2>2, <2>3, <2>4
<1>9. ASSUME NEW fd \in Descriptors, NEW v \in Timeouts,
             SetTimeoutUnhooked(fd, v)
      PROVE FlagsInv'
  <2>1. /\ kernel' = kernel /\ ctx' = ctx
        /\ wants' = [wants EXCEPT ![fd].timeout = Meant(v)]
        /\ odd' = [odd EXCEPT ![fd] = @ \cup {"unhooked"}]
        /\ Meant(v) \in Timeouts \cup {Forever}
    BY <1>9 DEF SetTimeoutUnhooked, Meant
  <2>2. FlagTypes'
    BY <2>1 DEF FlagTypes
  <2>3. ASSUME NEW x \in Descriptors, x # fd PROVE Good(x)'
    BY <2>1, <2>3, Frame DEF FlagTypes
  <2>4. Good(fd)'
    <3>1. wants'[fd].nonblock = wants[fd].nonblock
      BY <2>1 DEF FlagTypes
    <3>2. "unhooked" \in odd'[fd] /\ odd'[fd] = odd[fd] \cup {"unhooked"}
      BY <2>1 DEF FlagTypes
    <3> QED
      BY <2>1, <3>1, <3>2 DEF Good, Is, Managed, GetFl
  <2> QED
    BY <2>2, <2>3, <2>4
<1>10. ASSUME NEW fd \in Descriptors, NEW v \in Timeouts,
              SetTimeoutFails(fd, v)
       PROVE FlagsInv'
  <2>1. /\ kernel' = kernel /\ wants' = wants
        /\ ctx' = [ctx EXCEPT ![fd].timeout = v]
        /\ odd' = [odd EXCEPT ![fd] = @ \cup {"failed"}]
        /\ ctx[fd] # NoCtx
    BY <1>10 DEF SetTimeoutFails
  <2>2. FlagTypes'
    <3>1. [ctx[fd] EXCEPT !.timeout = v] \in
            [is : {"none", "socket"}, sys : BOOLEAN, user : BOOLEAN,
             timeout : Timeouts \cup {Forever}]
      BY DEF FlagTypes
    <3>2. ctx' \in [Descriptors -> [is : {"none", "socket"}, sys : BOOLEAN,
                          user : BOOLEAN, timeout : Timeouts \cup {Forever}]]
      BY <2>1, <3>1 DEF FlagTypes
    <3> QED
      BY <2>1, <3>2 DEF FlagTypes
  <2>3. ASSUME NEW x \in Descriptors, x # fd PROVE Good(x)'
    BY <2>1, <2>3, Frame DEF FlagTypes
  <2>4. Good(fd)'
    <3>1. "failed" \in odd'[fd] /\ odd'[fd] = odd[fd] \cup {"failed"}
      BY <2>1 DEF FlagTypes
    <3>2. ctx[fd].is # "none"
      BY <2>1 DEF Good
    <3>3. ctx'[fd].is = ctx[fd].is
      BY <2>1 DEF FlagTypes
    <3>4. ctx'[fd].user = ctx[fd].user
      BY <2>1 DEF FlagTypes
    <3>5. ctx'[fd].sys = ctx[fd].sys
      BY <2>1 DEF FlagTypes
    <3>6. Managed(fd)' <=> Managed(fd)
      BY <3>3 DEF Managed
    <3>7. GetFl(fd)' = GetFl(fd)
      BY <2>1, <3>4, <3>6 DEF GetFl
    <3> QED
      BY <2>1, <3>1, <3>2, <3>3, <3>5, <3>6, <3>7 DEF Good, Is
  <2> QED
    BY <2>2, <2>3, <2>4
<1>8. CASE UNCHANGED flagVars
  BY <1>8, Frame DEF flagVars, FlagTypes
<1> QED
  BY <1>1, <1>2, <1>3, <1>4, <1>5, <1>6, <1>7, <1>8, <1>9,
     <1>10 DEF FlagsNext

LEMMA FlagsInductive == FlagsSpec => []FlagsInv
BY FlagsBegin, FlagsStep, PTL DEF FlagsSpec

-----------------------------------------------------------------------------
(* The type invariant: every open socket has an FdCtx that asks for        *)
(* O_NONBLOCK.                                                             *)
THEOREM FlagTypesHold == FlagsSpec => []SocketTypes
<1>1. FlagsInv => SocketTypes
  BY DEF FlagsInv, FlagTypes, Good, SocketTypes, Timing
<1> QED
  BY FlagsInductive, <1>1, PTL

(* No call blocks a worker: the kernel's socket is non-blocking, whatever  *)
(* is set, unless FIONBIO was the last to set it or it found another's     *)
(* FdCtx.                                                                  *)
THEOREM NeverBlocksHolds == FlagsSpec => []NeverBlocks
<1>1. FlagsInv => NeverBlocks
  BY DEF FlagsInv, Good, NeverBlocks
<1> QED
  BY FlagsInductive, <1>1, PTL

(* do_io and F_GETFL treat a socket the way its user asked for since it    *)
(* was opened.                                                             *)
THEOREM UserViewHolds == FlagsSpec => []UserView
<1>1. FlagsInv => UserView
  BY DEF FlagsInv, Good, UserView, Timing
<1> QED
  BY FlagsInductive, <1>1, PTL
=============================================================================
