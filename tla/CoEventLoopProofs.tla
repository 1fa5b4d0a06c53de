------------------------- MODULE CoEventLoopProofs -------------------------
(***************************************************************************)
(* Proofs about libco's event loop on the coroutines of one thread, for    *)
(* any coroutines, shared stacks, descriptors and wheel.                   *)
(*                                                                         *)
(* StackIntact follows from whose frames are where (Frames): the occupant  *)
(* of a shared stack has its own in place, and every other coroutine that  *)
(* has begun has them in its buffer.                                       *)
(*                                                                         *)
(* The waits rest on an item being in one place (Linked, Placed): on one   *)
(* slot of the wheel or on the active list, once, while its coroutine is   *)
(* off the processor.  What makes the active list end a wait is recorded   *)
(* with its items (Reasons), and OnTime and WakersKept say what becomes of *)
(* that once an item is taken.                                             *)
(***************************************************************************)
EXTENDS CoEventLoop, FiniteSetTheorems, SequenceTheorems, WellFoundedInduction, TLAPS
-----------------------------------------------------------------------------
(* The coroutines and their stacks.                                        *)
Members == Cos \cup {Main}

CoTypes ==
  /\ callStack \in Seq(Members) /\ callStack # <<>> /\ Head(callStack) = Main
  /\ life \in [Members -> {"none", "made", "started", "ended"}]
  /\ stackMem \in [Members -> Stacks \cup {Null}] /\ allocIdx \in Stacks
  /\ occupy \in [Stacks -> Cos \cup {Null}] /\ content \in [Stacks -> Cos \cup {Null}]
  /\ saved \in [Cos -> {"none", "fresh", "stale"}] /\ vacated \subseteq Stacks
  /\ ~Shares(Main)

(* Each coroutine is resumed once, and the running one has its stack.      *)
Resumed ==
  /\ IsInjective(callStack)
  /\ \A c \in Range(callStack) : life[c] = "started"
  /\ Shares(Top) => occupy[stackMem[Top]] = Top

Frames ==
  /\ \A k \in Stacks : occupy[k] # Null =>
       /\ stackMem[occupy[k]] = k /\ Shares(occupy[k])
       /\ life[occupy[k]] \in {"started", "ended"}
  /\ \A c \in Cos : Shares(c) /\ life[c] = "started" /\ stackMem[c] \notin vacated =>
       LET k == stackMem[c]
       IN  IF occupy[k] = c THEN content[k] = c ELSE occupy[k] # Null /\ saved[c] = "fresh"

CoInv == CoTypes /\ Resumed /\ Frames

-----------------------------------------------------------------------------
(* The lists.                                                              *)
Slots == 0..(WheelSize - 1)
OnWheel(c) == \E i \in Slots : c \in Range(slots[i])
OnActive(c) == c \in Range(active)
OnCond(c) == c \in Range(cond)
OffStack(c) == c \notin Range(callStack)
Waits(c) == wait[c] \in {"poll", "cond"}

LoopTypes ==
  /\ now \in 0..MaxNow /\ back \in BOOLEAN /\ ready \subseteq Fds
  /\ start \in 0..MaxNow /\ idx \in Slots
  /\ wait \in [Cos -> {"no", "hand", "poll", "cond"}]
  /\ pollFd \in [Cos -> Fds \cup {Null}] /\ expire \in [Cos -> Nat]
  /\ bTimeout \in [Cos -> BOOLEAN] /\ detach \in [Cos -> BOOLEAN]
  /\ interest \in [Fds -> Cos \cup {Null}]
  /\ loop \in {"out", "wait", "active"} /\ loopNow \in Nat /\ calls \in Nat

(* An item is on one list at most, and there once.                         *)
Linked ==
  /\ slots \in [Slots -> Seq(Cos)] /\ active \in Seq(Cos) /\ cond \in Seq(Cos)
  /\ \A i \in Slots : IsInjective(slots[i])
  /\ IsInjective(active) /\ IsInjective(cond)
  /\ \A c \in Cos, i, j \in Slots :
       c \in Range(slots[i]) /\ c \in Range(slots[j]) => i = j
  /\ \A c \in Cos : ~(OnWheel(c) /\ OnActive(c))

(* Who is on the lists: coroutines that wait and do not run.               *)
Placed ==
  /\ \A c \in Cos :
       /\ OnWheel(c) \/ OnActive(c) => Waits(c) /\ OffStack(c)
       /\ OnCond(c) => wait[c] = "cond"
       /\ wait[c] # "no" => life[c] = "started" /\ (OffStack(c) \/ c = Top)

(* The descriptors that are polled, and by whom.                           *)
Polled ==
  /\ \A c \in Cos : wait[c] = "poll" =>
       /\ pollFd[c] \in Fds
       /\ interest[pollFd[c]] = c \/ pollFd[c] \in contested
  /\ \A fd \in Fds : interest[fd] # Null =>
       wait[interest[fd]] = "poll" /\ pollFd[interest[fd]] = fd

(* Why an item is on the active list: its event, a signal, or a timeout of *)
(* this turn.                                                              *)
Event(c) == wait[c] = "poll" /\ detach[c]
Signal(c) == wait[c] = "cond" /\ ~OnCond(c)
Reasons ==
  \A c \in Cos :
    /\ detach[c] => wait[c] = "poll" /\ ~bTimeout[c] /\ (OnActive(c) \/ c = Top)
    /\ bTimeout[c] => Waits(c) /\ (OnActive(c) \/ c = Top)
    /\ OnActive(c) =>
         /\ loop # "active" => Signal(c) /\ ~bTimeout[c]
         /\ Event(c) \/ Signal(c) \/ (bTimeout[c] /\ loopNow >= start)
         /\ Signal(c) /\ bTimeout[c] => c \in overtaken \/ loopNow >= expire[c]

(* OnTime, in two parts, and WakersKept's signals.                         *)
Distance(i) == ((i - idx) + WheelSize) % WheelSize
NotLate == \A i \in Slots : \A c \in Range(slots[i]) : start + Distance(i) <= expire[c]
NotEarly == \A c \in Cos : c = Top /\ Waits(c) =>
              Event(c) \/ Signal(c) \/ loopNow >= expire[c]
SignalKept == \A c \in Cos : c # Top /\ Signal(c) => OnActive(c) \/ c \in overtaken

LoopInv == /\ LoopTypes /\ Linked /\ Placed /\ Polled /\ Reasons
           /\ NotLate /\ NotEarly /\ SignalKept

IndInv == CoInv /\ LoopInv
-----------------------------------------------------------------------------
(* Induction up to N, over a set.                                          *)
LEMMA UpTo ==
  ASSUME NEW N \in Nat, NEW A, 0 \in A, \A n \in 1..N : n - 1 \in A => n \in A
  PROVE  0..N \subseteq A
<1> DEFINE R == OpToRel(<, Nat)
           B == (0..N) \ A
<1>1. SUFFICES ASSUME B # {} PROVE FALSE
  OBVIOUS
<1>2. \A d, e \in Nat : e < d => <<e, d>> \in R
  BY Zenon DEF OpToRel
<1>3. IsWellFoundedOn(R, Nat)
  BY NatLessThanWellFounded, Zenon
<1>4. B \subseteq Nat
  OBVIOUS
<1> HIDE DEF R, B
<1>5. PICK n \in B : \A m \in B : ~ (<<m, n>> \in R)
  BY <1>1, <1>3, <1>4, WFMin, Zenon
<1>6. n \in 1..N /\ n - 1 \in 0..N /\ n - 1 < n /\ n - 1 \in Nat /\ n \in Nat
  BY <1>5 DEF B
<1>7. n - 1 \notin B
  BY <1>2, <1>5, <1>6
<1> QED
  BY <1>5, <1>6, <1>7 DEF B

(* The elements of a sequence after an operation on it.                    *)
LEMMA RangeOf ==
  ASSUME NEW S, NEW s \in Seq(S)
  PROVE  /\ Range(s) \subseteq S /\ DOMAIN s = 1..Len(s) /\ Len(s) \in Nat
         /\ Range(s) = {s[i] : i \in 1..Len(s)}
         /\ Range(<<>>) = {} /\ (Range(s) = {} <=> s = <<>>)
         /\ IsInjective(<<>>)
         /\ \A e : Contains(s, e) <=> e \in Range(s)
<1>1. /\ DOMAIN s = 1..Len(s) /\ Len(s) \in Nat /\ \A i \in 1..Len(s) : s[i] \in S
      /\ Len(s) = 0 <=> s = <<>>
  BY LenProperties, ElementOfSeq, EmptySeq
<1>2. Range(s) = {s[i] : i \in 1..Len(s)}
  BY <1>1, Zenon DEF Range
<1>3. Range(s) = {} <=> s = <<>>
  <2>1. Len(s) # 0 => 1 \in 1..Len(s)
    BY <1>1
  <2>2. Len(s) = 0 => 1..Len(s) = {}
    BY <1>1
  <2> QED
    BY <1>1, <1>2, <2>1, <2>2, Zenon
<1>4. DOMAIN <<>> = {}
  OBVIOUS
<1>5. Range(<<>>) = {} /\ IsInjective(<<>>)
  BY <1>4, Zenon DEF Range, IsInjective
<1>6. \A e : Contains(s, e) <=> e \in Range(s)
  BY <1>2, Zenon DEF Contains
<1>7. Range(s) \subseteq S
  BY <1>1, <1>2
<1> QED
  BY <1>1, <1>2, <1>3, <1>5, <1>6, <1>7

(* One element more.                                                       *)
LEMMA Appended ==
  ASSUME NEW S, NEW s \in Seq(S), NEW e \in S
  PROVE  /\ Append(s, e) \in Seq(S) /\ Range(Append(s, e)) = Range(s) \cup {e}
         /\ Append(s, e) # <<>> /\ Last(Append(s, e)) = e
         /\ Head(Append(s, e)) = IF s = <<>> THEN e ELSE Head(s)
         /\ IsInjective(s) /\ e \notin Range(s) => IsInjective(Append(s, e))
<1> DEFINE t == Append(s, e)
<1>1. /\ t \in Seq(S) /\ Len(t) = Len(s) + 1 /\ t # <<>> /\ t[Len(s) + 1] = e
      /\ \A i \in 1..Len(s) : t[i] = s[i]
      /\ DOMAIN s = 1..Len(s) /\ DOMAIN t = 1..Len(t) /\ Len(s) \in Nat
  BY AppendProperties, LenProperties
<1>2. Range(t) = Range(s) \cup {e}
  BY <1>1 DEF Range
<1>3. IsInjective(s) /\ e \notin Range(s) => IsInjective(t)
  BY <1>1 DEF IsInjective, Range
<1> QED
  BY <1>1, <1>2, <1>3, HeadTailAppend DEF Last

(* The first element and the others.                                       *)
LEMMA Headed ==
  ASSUME NEW S, NEW s \in Seq(S), s # <<>>
  PROVE  /\ Head(s) \in S /\ Tail(s) \in Seq(S) /\ Range(s) = {Head(s)} \cup Range(Tail(s))
         /\ IsInjective(s) => Head(s) \notin Range(Tail(s)) /\ IsInjective(Tail(s))
<1>1. /\ Head(s) \in S /\ Tail(s) \in Seq(S) /\ Len(Tail(s)) = Len(s) - 1
      /\ \A i \in 1..Len(Tail(s)) : Tail(s)[i] = s[i + 1]
      /\ DOMAIN s = 1..Len(s) /\ DOMAIN Tail(s) = 1..Len(Tail(s)) /\ Len(s) \in Nat \ {0}
      /\ Head(s) = s[1]
  BY HeadTailProperties, LenProperties, EmptySeq
<1>2. \A i \in 2..Len(s) : i - 1 \in 1..Len(Tail(s)) /\ s[i] = Tail(s)[i - 1]
  BY <1>1
<1>3. Range(s) = {Head(s)} \cup Range(Tail(s))
  <2>1. ASSUME NEW e \in Range(s) PROVE e \in {Head(s)} \cup Range(Tail(s))
    <3>1. PICK i \in 1..Len(s) : s[i] = e
      BY <1>1, Zenon DEF Range
    <3>2. CASE i = 1
      BY <1>1, <3>1, <3>2
    <3>3. CASE i # 1
      <4>1. i - 1 \in DOMAIN Tail(s) /\ Tail(s)[i - 1] = e
        BY <1>1, <1>2, <3>1, <3>3
      <4> QED
        BY <4>1, Zenon DEF Range
    <3> QED
      BY <3>2, <3>3
  <2>2. Head(s) \in Range(s)
    <3>1. 1 \in DOMAIN s
      BY <1>1
    <3> QED
      BY <1>1, <3>1, Zenon DEF Range
  <2>3. ASSUME NEW i \in DOMAIN Tail(s) PROVE Tail(s)[i] \in Range(s)
    <3>1. i + 1 \in DOMAIN s /\ Tail(s)[i] = s[i + 1]
      BY <1>1
    <3> QED
      BY <3>1, Zenon DEF Range
  <2>4. Range(Tail(s)) \subseteq Range(s)
    BY <2>3, Zenon DEF Range
  <2> QED
    BY <2>1, <2>2, <2>4
<1>4. IsInjective(s) => Head(s) \notin Range(Tail(s)) /\ IsInjective(Tail(s))
  BY <1>1 DEF IsInjective, Range
<1> QED
  BY <1>1, <1>3, <1>4

(* The last element and the others.                                        *)
LEMMA Fronted ==
  ASSUME NEW S, NEW s \in Seq(S), s # <<>>
  PROVE  /\ Last(s) \in S /\ Front(s) \in Seq(S) /\ Range(s) = {Last(s)} \cup Range(Front(s))
         /\ IsInjective(s) => Last(s) \notin Range(Front(s)) /\ IsInjective(Front(s))
         /\ Front(s) # <<>> => Head(Front(s)) = Head(s) /\ Last(Front(s)) \in Range(Front(s))
         /\ Front(s) = <<>> => Last(s) = Head(s)
<1>1. DOMAIN s = 1..Len(s) /\ Len(s) \in Nat \ {0} /\ \A i \in 1..Len(s) : s[i] \in S
  BY LenProperties, EmptySeq, ElementOfSeq
<1>2. /\ Front(s) \in Seq(S) /\ Len(Front(s)) = Len(s) - 1
      /\ \A i \in 1..(Len(s) - 1) : Front(s)[i] = s[i]
  <2>1. 1 \in Int /\ Len(s) - 1 \in Int /\ \A i \in 1..(Len(s) - 1) : s[i] \in S
    BY <1>1
  <2> QED
    BY <1>1, <2>1, SubSeqProperties DEF Front
<1>3. DOMAIN Front(s) = 1..(Len(s) - 1)
  BY <1>2
<1>4. Range(s) = {Last(s)} \cup Range(Front(s))
  BY <1>1, <1>2, <1>3 DEF Range, Last
<1>5. IsInjective(s) => Last(s) \notin Range(Front(s)) /\ IsInjective(Front(s))
  BY <1>1, <1>2, <1>3 DEF IsInjective, Range, Last
<1>6. Front(s) # <<>> => /\ Len(s) - 1 \in 1..(Len(s) - 1) /\ Head(Front(s)) = Head(s)
                         /\ Last(Front(s)) \in Range(Front(s))
  <2>1. Front(s) # <<>> => Len(s) - 1 # 0
    BY <1>1, <1>2
  <2>2. Len(s) - 1 # 0 => 1 \in 1..(Len(s) - 1) /\ Len(s) - 1 \in 1..(Len(s) - 1)
    BY <1>1
  <2>3. Front(s) # <<>> => Head(Front(s)) = Front(s)[1] /\ Head(s) = s[1]
    BY <1>1, <1>2
  <2> QED
    BY <1>2, <1>3, <2>1, <2>2, <2>3 DEF Last, Range
<1>7. Front(s) = <<>> => Last(s) = Head(s)
  <2>1. Front(s) = <<>> => Len(Front(s)) = 0
    BY EmptySeq
  <2>2. Front(s) = <<>> => Len(s) = 1
    <3>1. \A n \in Nat \ {0} : n - 1 = 0 => n = 1
      OBVIOUS
    <3> QED
      BY <1>1, <1>2, <2>1, <3>1, Zenon
  <2>3. Head(s) = s[1]
    BY <1>1
  <2> QED
    BY <2>2, <2>3 DEF Last
<1> QED
  BY <1>1, <1>2, <1>4, <1>5, <1>6, <1>7 DEF Last

(* Two sequences, one after the other.                                     *)
LEMMA Joined ==
  ASSUME NEW S, NEW s \in Seq(S), NEW t \in Seq(S)
  PROVE  /\ s \o t \in Seq(S) /\ Range(s \o t) = Range(s) \cup Range(t)
         /\ IsInjective(s) /\ IsInjective(t) /\ Range(s) \cap Range(t) = {}
              => IsInjective(s \o t)
<1>1. /\ s \o t \in Seq(S) /\ Len(s \o t) = Len(s) + Len(t)
      /\ \A i \in 1..(Len(s) + Len(t)) :
           (s \o t)[i] = IF i <= Len(s) THEN s[i] ELSE t[i - Len(s)]
      /\ DOMAIN s = 1..Len(s) /\ DOMAIN t = 1..Len(t) /\ Len(s) \in Nat /\ Len(t) \in Nat
  BY ConcatProperties, LenProperties
<1>2. DOMAIN (s \o t) = 1..(Len(s) + Len(t))
  BY <1>1
<1>3. \A i \in 1..(Len(s) + Len(t)) : i > Len(s) => i - Len(s) \in 1..Len(t)
  BY <1>1
<1>4. ASSUME IsInjective(s), IsInjective(t), Range(s) \cap Range(t) = {}
      PROVE  IsInjective(s \o t)
  <2> DEFINE u == s \o t
             n == Len(s)
             m == Len(t)
  <2>1. /\ DOMAIN u = 1..(n + m) /\ n \in Nat /\ m \in Nat
        /\ \A i \in 1..(n + m) : u[i] = IF i <= n THEN s[i] ELSE t[i - n]
        /\ \A i, j \in 1..n : s[i] = s[j] => i = j
        /\ \A i, j \in 1..m : t[i] = t[j] => i = j
    BY <1>1, <1>2, <1>4, Zenon DEF IsInjective
  <2>2. \A i \in 1..n, j \in 1..m : s[i] # t[j]
    <3>1. \A i \in 1..n : s[i] \in Range(s)
      BY <1>1, Zenon DEF Range
    <3>2. \A j \in 1..m : t[j] \in Range(t)
      BY <1>1, Zenon DEF Range
    <3> QED
      BY <1>4, <3>1, <3>2
  <2> HIDE DEF u, n, m
  <2>3. ASSUME NEW i \in 1..(n + m), NEW j \in 1..(n + m), u[i] = u[j] PROVE i = j
    <3>1. /\ i <= n => i \in 1..n
          /\ j <= n => j \in 1..n
          /\ i > n => i - n \in 1..m
          /\ j > n => j - n \in 1..m
      BY <2>1
    <3>2. /\ u[i] = IF i <= n THEN s[i] ELSE t[i - n]
          /\ u[j] = IF j <= n THEN s[j] ELSE t[j - n]
      BY <2>1
    <3>3. i <= n <=> j <= n
      <4>1. CASE i <= n /\ ~(j <= n)
        <5>1. i \in 1..n /\ j - n \in 1..m /\ u[i] = s[i] /\ u[j] = t[j - n]
          BY <2>1, <3>1, <3>2, <4>1
        <5> QED
          BY <2>2, <2>3, <5>1, Zenon
      <4>2. CASE j <= n /\ ~(i <= n)
        <5>1. j \in 1..n /\ i - n \in 1..m /\ u[j] = s[j] /\ u[i] = t[i - n]
          BY <2>1, <3>1, <3>2, <4>2
        <5> QED
          BY <2>2, <2>3, <5>1, Zenon
      <4> QED
        BY <4>1, <4>2
    <3>4. CASE i <= n
      BY <2>1, <2>3, <3>1, <3>2, <3>3, <3>4
    <3>5. CASE i > n
      <4>1. i - n = j - n
        <5>1. /\ i - n \in 1..m /\ j - n \in 1..m
              /\ u[i] = t[i - n] /\ u[j] = t[j - n]
          BY <2>1, <3>1, <3>2, <3>3, <3>5
        <5> QED
          BY <2>1, <2>3, <5>1, Zenon
      <4> QED
        BY <4>1, <2>1
    <3> QED
      BY <3>4, <3>5, <2>1
  <2> QED
    BY <2>1, <2>3, Zenon DEF IsInjective, u
<1> QED
  BY <1>1, <1>4, RangeConcatenation

(* What is left of s without its first elements.                           *)
LEMMA Rest ==
  ASSUME NEW S, NEW s \in Seq(S), NEW t \in Seq(S), Len(t) <= Len(s), IsInjective(s),
         \A i \in 1..Len(t) : t[i] = s[i]
  PROVE  LET r == SubSeq(s, Len(t) + 1, Len(s))
         IN  /\ r \in Seq(S) /\ IsInjective(r) /\ IsInjective(t)
             /\ Range(r) = Range(s) \ Range(t)
<1> DEFINE r == SubSeq(s, Len(t) + 1, Len(s))
<1>1. /\ DOMAIN s = 1..Len(s) /\ DOMAIN t = 1..Len(t) /\ Len(s) \in Nat /\ Len(t) \in Nat
      /\ \A i \in 1..Len(s) : s[i] \in S
  BY LenProperties, ElementOfSeq
<1>2. /\ r \in Seq(S) /\ Len(r) = Len(s) - Len(t)
      /\ \A i \in 1..(Len(s) - Len(t)) : r[i] = s[Len(t) + i]
  <2>1. Len(t) + 1 \in Int /\ Len(s) \in Int /\ \A i \in (Len(t) + 1)..Len(s) : s[i] \in S
    BY <1>1
  <2>2. /\ r \in Seq(S)
        /\ Len(r) = IF Len(t) + 1 <= Len(s) THEN Len(s) - (Len(t) + 1) + 1 ELSE 0
        /\ \A i \in 1..(Len(s) - (Len(t) + 1) + 1) : r[i] = s[(Len(t) + 1) + i - 1]
    BY <2>1, SubSeqProperties
  <2>3. Len(r) = Len(s) - Len(t)
    <3>1. Len(t) + 1 <= Len(s) => Len(s) - (Len(t) + 1) + 1 = Len(s) - Len(t)
      BY <1>1
    <3>2. \A n, m \in Nat : m <= n /\ ~(m + 1 <= n) => n - m = 0
      OBVIOUS
    <3> QED
      BY <1>1, <2>2, <3>1, <3>2, Zenon
  <2>4. ASSUME NEW i \in 1..(Len(s) - Len(t)) PROVE r[i] = s[Len(t) + i]
    <3>1. i \in 1..(Len(s) - (Len(t) + 1) + 1) /\ (Len(t) + 1) + i - 1 = Len(t) + i
      BY <1>1
    <3> QED
      BY <2>2, <3>1, Zenon
  <2> QED
    BY <2>2, <2>3, <2>4, Zenon
<1>3. DOMAIN r = 1..(Len(s) - Len(t))
  BY <1>2
<1> HIDE DEF r
<1> DEFINE n == Len(s)
           m == Len(t)
<1>4. /\ n \in Nat /\ m \in Nat /\ m <= n
      /\ DOMAIN s = 1..n /\ DOMAIN t = 1..m /\ DOMAIN r = 1..(n - m)
      /\ \A i, j \in 1..n : s[i] = s[j] => i = j
      /\ \A i \in 1..m : t[i] = s[i]
      /\ \A i \in 1..(n - m) : r[i] = s[m + i]
  BY <1>1, <1>2, <1>3 DEF IsInjective
<1> HIDE DEF n, m
<1>5. /\ \A i \in 1..m : i \in 1..n
      /\ \A i \in 1..(n - m) : m + i \in 1..n
      /\ \A i \in 1..n : i \in 1..m \/ (i - m \in 1..(n - m) /\ m + (i - m) = i)
      /\ \A i \in 1..m, j \in 1..(n - m) : i # m + j
      /\ \A i, j \in 1..(n - m) : m + i = m + j => i = j
  BY <1>4
<1>6. IsInjective(r) /\ IsInjective(t)
  <2>1. ASSUME NEW i \in 1..(n - m), NEW j \in 1..(n - m), r[i] = r[j] PROVE i = j
    <3>1. s[m + i] = s[m + j] /\ m + i \in 1..n /\ m + j \in 1..n
      BY <1>4, <1>5, <2>1, Zenon
    <3> QED
      BY <1>4, <1>5, <3>1, Zenon
  <2>2. ASSUME NEW i \in 1..m, NEW j \in 1..m, t[i] = t[j] PROVE i = j
    BY <1>4, <1>5, <2>2, Zenon
  <2> QED
    BY <1>4, <2>1, <2>2, Zenon DEF IsInjective
<1>7. ASSUME NEW e \in Range(r) PROVE e \in Range(s) \ Range(t)
  <2>1. PICK j \in 1..(n - m) : r[j] = e
    BY <1>4, <1>7, Zenon DEF Range
  <2>2. m + j \in 1..n /\ e = s[m + j]
    BY <1>4, <1>5, <2>1
  <2>3. \A i \in 1..m : t[i] # e
    BY <1>4, <1>5, <2>2
  <2> QED
    BY <1>4, <2>2, <2>3, Zenon DEF Range
<1>8. ASSUME NEW e \in Range(s), e \notin Range(t) PROVE e \in Range(r)
  <2>1. PICK i \in 1..n : s[i] = e
    BY <1>4, <1>8, Zenon DEF Range
  <2>2. i \notin 1..m
    BY <1>4, <1>8, <2>1, Zenon DEF Range
  <2>3. i - m \in 1..(n - m) /\ r[i - m] = e
    BY <1>4, <1>5, <2>1, <2>2
  <2> QED
    BY <1>4, <2>3, Zenon DEF Range
<1> QED
  BY <1>2, <1>6, <1>7, <1>8 DEF r
-----------------------------------------------------------------------------
(* Without takes out the elements of cs.                                   *)
LEMMA Filtered ==
  ASSUME NEW S, NEW s \in Seq(S), NEW cs
  PROVE  /\ Without(s, cs) \in Seq(S) /\ Range(Without(s, cs)) = Range(s) \ cs
         /\ IsInjective(s) => IsInjective(Without(s, cs))
<1> DEFINE N == Len(s)
           kept == CHOOSE kept : kept = [n \in 0..Len(s) |->
                     IF n = 0 THEN <<>> ELSE IF s[n] \in cs THEN kept[n - 1]
                     ELSE Append(kept[n - 1], s[n])]
           Elem(g, n) == IF n = 0 THEN <<>> ELSE IF s[n] \in cs THEN g[n - 1]
                         ELSE Append(g[n - 1], s[n])
           First(n) == {s[i] : i \in 1..n} \ cs
<1>1. N \in Nat /\ \A n \in 1..N : s[n] \in S
  BY LenProperties, ElementOfSeq
<1>2. \E g : g = [n \in 0..N |-> Elem(g, n)]
  <2> DEFINE Built(n) == \E g \in [0..n -> Seq(S)] : \A m \in 0..n : g[m] = Elem(g, m)
             A == {n \in 0..N : Built(n)}
  <2>1. 0 \in A
    <3> DEFINE g == [m \in 0..0 |-> <<>>]
    <3>1. g \in [0..0 -> Seq(S)] /\ \A m \in 0..0 : g[m] = Elem(g, m)
      BY EmptySeq
    <3> HIDE DEF g, Elem
    <3>2. Built(0)
      BY <3>1, Zenon
    <3> QED
      BY <1>1, <3>2
  <2>2. ASSUME NEW n \in 1..N, n - 1 \in A PROVE n \in A
    <3>1. PICK g \in [0..(n - 1) -> Seq(S)] : \A m \in 0..(n - 1) : g[m] = Elem(g, m)
      BY <2>2
    <3>2. n \in Nat /\ n - 1 \in 0..(n - 1) /\ n # 0 /\ n \in 0..N /\ n \notin 0..(n - 1)
          /\ (\A m \in 0..n : m # n => m \in 0..(n - 1))
          /\ \A m \in 0..(n - 1) : m # 0 => m - 1 \in 0..(n - 1)
      BY <1>1
    <3> DEFINE h == [j \in 0..n |-> IF j = n THEN Elem(g, n) ELSE g[j]]
    <3>3. Elem(g, n) \in Seq(S)
      BY <1>1, <3>2, AppendProperties
    <3>4. h \in [0..n -> Seq(S)]
      BY <3>2, <3>3
    <3>5. ASSUME NEW j \in 0..n PROVE h[j] = Elem(h, j)
      <4>1. CASE j = n
        BY <3>2, <4>1
      <4>2. CASE j # n
        <5>1. j \in 0..(n - 1) /\ h[j] = g[j]
          BY <3>2, <4>2
        <5>2. j # 0 => j - 1 \in 0..(n - 1)
          BY <3>2, <5>1
        <5>3. j # 0 => j - 1 \in 0..n /\ j - 1 # n
          BY <3>2, <5>2
        <5>4. j # 0 => h[j - 1] = g[j - 1]
          BY <5>3
        <5>5. h[j] = Elem(g, j)
          BY <3>1, <5>1
        <5> HIDE DEF h
        <5> QED
          BY <5>4, <5>5
      <4> QED
        BY <4>1, <4>2
    <3> HIDE DEF h, Elem
    <3>6. Built(n)
      BY <3>4, <3>5, Zenon
    <3> QED
      BY <3>2, <3>6
  <2> HIDE DEF A
  <2>3. 0..N \subseteq A /\ N \in 0..N
    <3> HIDE DEF N
    <3>1. 0..N \subseteq A
      BY <1>1, <2>1, <2>2, UpTo, Zenon
    <3> QED
      BY <1>1, <3>1
  <2>4. PICK g \in [0..N -> Seq(S)] : \A m \in 0..N : g[m] = Elem(g, m)
    BY <2>3 DEF A
  <2>5. g = [n \in 0..N |-> Elem(g, n)]
    BY <2>4
  <2> QED
    BY <2>5
<1>3. kept = [n \in 0..N |-> Elem(kept, n)]
  BY <1>2, Zenon
<1>4. Without(s, cs) = kept[N]
  BY Zenon DEF Without
<1> HIDE DEF kept
<1> DEFINE A == {n \in 0..N : /\ kept[n] \in Seq(S) /\ Range(kept[n]) = First(n)
                              /\ IsInjective(s) => IsInjective(kept[n])}
<1>5. 0 \in A
  <2>1. kept[0] = <<>> /\ First(0) = {}
    BY <1>1, <1>3
  <2>2. Range(<<>>) = {} /\ IsInjective(<<>>) /\ <<>> \in Seq(S)
    BY EmptySeq, RangeOf
  <2>3. Range(kept[0]) = First(0) /\ IsInjective(kept[0]) /\ kept[0] \in Seq(S)
    BY <2>1, <2>2, Zenon
  <2>4. 0 \in 0..N
    BY <1>1
  <2> HIDE DEF First
  <2> QED
    BY <2>3, <2>4
<1>6. ASSUME NEW n \in 1..N, n - 1 \in A PROVE n \in A
  <2>1. /\ n \in 0..N /\ n # 0 /\ n - 1 \in 0..N /\ s[n] \in S
        /\ n \notin 1..(n - 1) /\ \A i \in 1..n : i # n => i \in 1..(n - 1)
        /\ \A i \in 1..(n - 1) : i \in 1..n /\ i \in 1..N
        /\ DOMAIN s = 1..N
    BY <1>1, LenProperties
  <2>2. /\ kept[n - 1] \in Seq(S) /\ Range(kept[n - 1]) = First(n - 1)
        /\ IsInjective(s) => IsInjective(kept[n - 1])
    BY <1>6
  <2>3. kept[n] = IF s[n] \in cs THEN kept[n - 1] ELSE Append(kept[n - 1], s[n])
    BY <1>3, <2>1
  <2>4. First(n) = IF s[n] \in cs THEN First(n - 1) ELSE First(n - 1) \cup {s[n]}
    BY <2>1
  <2>5. IsInjective(s) => s[n] \notin First(n - 1)
    BY <2>1 DEF IsInjective
  <2> HIDE DEF First, N
  <2>6. CASE s[n] \in cs
    BY <2>1, <2>2, <2>3, <2>4, <2>6
  <2>7. CASE s[n] \notin cs
    <3> DEFINE t == Append(kept[n - 1], s[n])
    <3>1. /\ t \in Seq(S) /\ Range(t) = First(n - 1) \cup {s[n]}
          /\ IsInjective(s) => IsInjective(t)
      BY <2>1, <2>2, <2>5, Appended
    <3>2. kept[n] = t /\ First(n) = First(n - 1) \cup {s[n]}
      BY <2>3, <2>4, <2>7
    <3> HIDE DEF t
    <3> QED
      BY <2>1, <3>1, <3>2
  <2> QED
    BY <2>6, <2>7
<1>7. N \in A
  <2> HIDE DEF A, N
  <2>1. 0..N \subseteq A
    BY <1>1, <1>5, <1>6, UpTo, Zenon
  <2> QED
    BY <1>1, <2>1
<1>8. First(N) = Range(s) \ cs
  BY RangeOf
<1> QED
  BY <1>4, <1>7, <1>8

(* FlattenSeq joins sequences.                                             *)
LEMMA Flattened ==
  ASSUME NEW S, NEW ss \in Seq(Seq(S))
  PROVE  /\ FlattenSeq(ss) \in Seq(S)
         /\ Range(FlattenSeq(ss)) = UNION {Range(ss[i]) : i \in 1..Len(ss)}
         /\ /\ \A i \in 1..Len(ss) : IsInjective(ss[i])
            /\ \A i, j \in 1..Len(ss) : i # j => Range(ss[i]) \cap Range(ss[j]) = {}
            => IsInjective(FlattenSeq(ss))
<1> DEFINE N == Len(ss)
           flatten == CHOOSE flatten : flatten = [i \in 1..Len(ss) |->
                        IF i = 1 THEN ss[i] ELSE flatten[i - 1] \o ss[i]]
           Elem(g, i) == IF i = 1 THEN ss[i] ELSE g[i - 1] \o ss[i]
           First(n) == UNION {Range(ss[i]) : i \in 1..n}
           Apart == /\ \A i \in 1..N : IsInjective(ss[i])
                    /\ \A i, j \in 1..N : i # j => Range(ss[i]) \cap Range(ss[j]) = {}
<1>1. N \in Nat /\ (\A n \in 1..N : ss[n] \in Seq(S)) /\ (N = 0 <=> ss = <<>>)
  BY LenProperties, ElementOfSeq, EmptySeq
<1>2. CASE N = 0
  <2>1. FlattenSeq(ss) = <<>>
    BY <1>1, <1>2, Zenon DEF FlattenSeq
  <2>2. First(N) = {}
    BY <1>2
  <2>3. Range(<<>>) = {} /\ IsInjective(<<>>) /\ <<>> \in Seq(S)
    BY EmptySeq, RangeOf
  <2> QED
    BY <2>1, <2>2, <2>3
<1>3. CASE N # 0
  <2>1. \E g : g = [i \in 1..N |-> Elem(g, i)]
    <3> DEFINE Built(n) == \E g \in [1..n -> Seq(S)] : \A m \in 1..n : g[m] = Elem(g, m)
               A == {n \in 0..N : Built(n)}
    <3>1. 0 \in A
      <4> DEFINE g == [m \in 1..0 |-> <<>>]
      <4>1. g \in [1..0 -> Seq(S)] /\ \A m \in 1..0 : g[m] = Elem(g, m)
        OBVIOUS
      <4> HIDE DEF g, Elem
      <4>2. Built(0)
        BY <4>1, Zenon
      <4>3. 0 \in 0..N
        BY <1>1
      <4> HIDE DEF Built, N
      <4> QED
        BY <4>2, <4>3
    <3>2. ASSUME NEW n \in 1..N, n - 1 \in A PROVE n \in A
      <4>1. PICK g \in [1..(n - 1) -> Seq(S)] : \A m \in 1..(n - 1) : g[m] = Elem(g, m)
        BY <3>2
      <4>2. /\ n \in Nat /\ n # 0 /\ n \in 0..N /\ n \notin 1..(n - 1)
            /\ n # 1 => n - 1 \in 1..(n - 1) /\ n - 1 # n
            /\ (\A m \in 1..n : m # n => m \in 1..(n - 1))
            /\ \A m \in 1..(n - 1) : m # 1 => m - 1 \in 1..(n - 1) /\ m - 1 \in 1..n /\ m - 1 # n
        BY <1>1
      <4> DEFINE h == [m \in 1..n |-> IF m = n THEN Elem(g, n) ELSE g[m]]
      <4>3. Elem(g, n) \in Seq(S)
        BY <1>1, <4>2, ConcatProperties
      <4>4. h \in [1..n -> Seq(S)]
        BY <4>2, <4>3
      <4>5. ASSUME NEW j \in 1..n PROVE h[j] = Elem(h, j)
        <5>1. CASE j = n
          BY <4>2, <5>1
        <5>2. CASE j # n
          <6>1. j \in 1..(n - 1) /\ h[j] = g[j]
            BY <4>2, <5>2
          <6>2. j # 1 => j - 1 \in 1..n /\ j - 1 # n
            BY <4>2, <6>1
          <6>3. j # 1 => h[j - 1] = g[j - 1]
            BY <6>2
          <6>4. h[j] = Elem(g, j)
            BY <4>1, <6>1
          <6> HIDE DEF h
          <6> QED
            BY <6>3, <6>4
        <5> QED
          BY <5>1, <5>2
      <4> HIDE DEF h, Elem
      <4>6. Built(n)
        BY <4>4, <4>5, Zenon
      <4> QED
        BY <4>2, <4>6
    <3> HIDE DEF A
    <3>3. 0..N \subseteq A /\ N \in 0..N
      <4> HIDE DEF N
      <4>1. 0..N \subseteq A
        BY <1>1, <3>1, <3>2, UpTo, Zenon
      <4> QED
        BY <1>1, <4>1
    <3>4. PICK g \in [1..N -> Seq(S)] : \A m \in 1..N : g[m] = Elem(g, m)
      BY <3>3 DEF A
    <3>5. g = [i \in 1..N |-> Elem(g, i)]
      BY <3>4
    <3> QED
      BY <3>5
  <2>2. flatten = [i \in 1..N |-> Elem(flatten, i)]
    BY <2>1, Zenon
  <2>3. FlattenSeq(ss) = flatten[N]
    BY <1>3, Zenon DEF FlattenSeq
  <2> HIDE DEF flatten
  <2> DEFINE A == {n \in 0..N : n > 0 => /\ flatten[n] \in Seq(S) /\ Range(flatten[n]) = First(n)
                                         /\ Apart => IsInjective(flatten[n])}
  <2>4. 0 \in A
    BY <1>1
  <2>5. ASSUME NEW n \in 1..N, n - 1 \in A PROVE n \in A
    <3>1. /\ n \in 0..N /\ n > 0 /\ n - 1 \in 0..N /\ ss[n] \in Seq(S)
          /\ n # 1 => n - 1 > 0
          /\ n \notin 1..(n - 1) /\ \A i \in 1..n : i # n => i \in 1..(n - 1)
          /\ \A i \in 1..(n - 1) : i \in 1..n /\ i \in 1..N
      BY <1>1
    <3>2. CASE n = 1
      <4>1. First(n) = Range(ss[1]) /\ flatten[n] = ss[1]
        BY <1>1, <2>2, <3>1, <3>2
      <4> QED
        BY <3>1, <3>2, <4>1
    <3>3. CASE n # 1
      <4>1. /\ flatten[n - 1] \in Seq(S) /\ Range(flatten[n - 1]) = First(n - 1)
            /\ Apart => IsInjective(flatten[n - 1])
        BY <2>5, <3>1, <3>3
      <4>2. flatten[n] = flatten[n - 1] \o ss[n]
        BY <2>2, <3>1, <3>3
      <4>3. First(n) = First(n - 1) \cup Range(ss[n])
        BY <3>1
      <4>4. Apart => IsInjective(ss[n]) /\ First(n - 1) \cap Range(ss[n]) = {}
        <5>1. SUFFICES ASSUME Apart
                       PROVE  IsInjective(ss[n]) /\ First(n - 1) \cap Range(ss[n]) = {}
          OBVIOUS
        <5>2. \A i \in 1..(n - 1) : Range(ss[i]) \cap Range(ss[n]) = {}
          <6>1. \A i \in 1..(n - 1) : i \in 1..N /\ i # n
            BY <3>1
          <6> QED
            BY <5>1, <6>1
        <5> HIDE DEF N
        <5> QED
          BY <5>1, <5>2
      <4> HIDE DEF First, Apart, N
      <4> DEFINE t == flatten[n - 1] \o ss[n]
      <4>5. /\ t \in Seq(S) /\ Range(t) = First(n - 1) \cup Range(ss[n])
            /\ Apart => IsInjective(t)
        BY <3>1, <4>1, <4>4, Joined
      <4>6. flatten[n] = t
        BY <4>2
      <4> HIDE DEF t
      <4> QED
        BY <3>1, <4>3, <4>5, <4>6
    <3> QED
      BY <3>2, <3>3
  <2>6. N \in A
    <3> HIDE DEF A, N
    <3>1. 0..N \subseteq A
      BY <1>1, <2>4, <2>5, UpTo, Zenon
    <3> QED
      BY <1>1, <3>1
  <2>7. N > 0
    BY <1>1, <1>3
  <2> HIDE DEF First, Apart
  <2>8. /\ flatten[N] \in Seq(S) /\ Range(flatten[N]) = First(N)
        /\ Apart => IsInjective(flatten[N])
    BY <2>6, <2>7
  <2> QED
    BY <2>3, <2>8, Zenon DEF First, Apart
<1> QED
  BY <1>2, <1>3
-----------------------------------------------------------------------------
(* The coroutines.                                                         *)
LEMMA TopRuns ==
  ASSUME CoTypes
  PROVE  Top \in Members /\ Top \in Range(callStack) /\ Range(callStack) \subseteq Members
<1>1. callStack \in Seq(Members) /\ callStack # <<>>
  BY DEF CoTypes
<1> QED
  BY <1>1, Fronted, RangeOf DEF Top

(* Main and Null are no coroutines of Cos.                                 *)
LEMMA Apart == Main \notin Cos /\ Null \notin Cos /\ Cos \subseteq Members /\ Main \in Members
  BY CosAssumption DEF Members

(* The coroutines that have been made with shared stacks.                  *)
LEMMA CoBegin == CoInit => CoInv
<1> SUFFICES ASSUME CoInit PROVE CoInv
  OBVIOUS
<1>1. \A x \in Nat : x % StackCount \in Stacks
  BY StackCountAssumption DEF Stacks
<1>2. Cardinality(Cos) \in Nat
  BY CosAssumption, FS_CardinalityType
<1>3. callStack \in Seq(Members) /\ callStack # <<>> /\ Head(callStack) = Main
  BY Apart DEF CoInit
<1>4. PICK turn \in Turns :
        stackMem = [c \in Members |-> IF c = Main THEN Null ELSE turn[c] % StackCount]
  BY DEF CoInit, Members
<1>5. \A c \in Cos : turn[c] \in Nat
  BY <1>2, <1>4 DEF Turns
<1>6. stackMem \in [Members -> Stacks \cup {Null}] /\ ~Shares(Main)
  BY <1>1, <1>4, <1>5, Apart DEF Members, Shares
<1>7. CoTypes
  BY <1>1, <1>2, <1>3, <1>6 DEF CoInit, CoTypes, Members
<1>8. Resumed
  <2>1. Len(callStack) = 1 /\ callStack[1] = Main /\ DOMAIN callStack = {1}
    BY DEF CoInit
  <2>2. Top = Main /\ Range(callStack) = {Main} /\ IsInjective(callStack)
    BY <2>1 DEF Top, Last, Range, IsInjective
  <2> QED
    BY <1>6, <2>2, Apart DEF CoInit, Resumed, Members
<1>9. Frames
  BY Apart DEF CoInit, Frames, Members
<1> QED
  BY <1>7, <1>8, <1>9 DEF CoInv

(* co_swap puts the frames of c in place and keeps everybody else's.       *)
LEMMA SwapKeeps ==
  ASSUME CoTypes, Frames, NEW c \in Members, life[c] \in {"made", "started"}, co_swap(c),
         UNCHANGED <<stackMem, vacated>>,
         life' \in [Members -> {"none", "made", "started", "ended"}], life'[c] = "started",
         \A d \in Members \ {c} :
           life'[d] = life[d] \/ (life[d] = "started" /\ life'[d] = "ended")
  PROVE  /\ occupy' \in [Stacks -> Cos \cup {Null}] /\ content' \in [Stacks -> Cos \cup {Null}]
         /\ saved' \in [Cos -> {"none", "fresh", "stale"}]
         /\ Frames' /\ (Shares(c) => occupy'[stackMem[c]] = c)
<1>1. CASE ~Shares(c)
  <2>1. UNCHANGED <<occupy, content, saved>>
    BY <1>1 DEF co_swap
  <2>2. \A d \in Cos : Shares(d) /\ life'[d] = "started" => life[d] = "started"
    BY <1>1, Apart
  <2>3. \A d \in Cos : Shares(d)' <=> Shares(d)
    BY DEF Shares
  <2>5. \A d \in Cos : life[d] \in {"started", "ended"} => life'[d] \in {"started", "ended"}
    BY Apart
  <2> QED
    BY <1>1, <2>1, <2>2, <2>3, <2>5, Apart DEF CoTypes, Frames
<1>2. CASE Shares(c)
  <2> DEFINE k == stackMem[c]
             out == IF Copies(c) THEN [saved EXCEPT ![occupy[k]] = "fresh"] ELSE saved
  <2>1. c \in Cos /\ k \in Stacks /\ k # Null
    BY <1>2 DEF CoTypes, Shares, Members
  <2>2. /\ occupy' = [occupy EXCEPT ![k] = c]
        /\ content' = [content EXCEPT ![k] = Restored(c, out, @)]
        /\ saved' = [out EXCEPT ![c] = IF @ = "fresh" THEN "stale" ELSE @]
    BY <1>2 DEF co_swap
  <2>3. Copies(c) <=> occupy[k] # Null /\ occupy[k] # c
    BY DEF Copies
  <2>4. /\ out \in [Cos -> {"none", "fresh", "stale"}]
        /\ \A d \in Cos : out[d] = IF Copies(c) /\ d = occupy[k] THEN "fresh" ELSE saved[d]
    BY <2>1, <2>3 DEF CoTypes
  <2>5. Restored(c, out, content[k]) \in Cos \cup {Null}
    BY <2>1 DEF Restored, CoTypes
  <2> HIDE DEF out
  <2>6. /\ occupy' \in [Stacks -> Cos \cup {Null}] /\ content' \in [Stacks -> Cos \cup {Null}]
        /\ saved' \in [Cos -> {"none", "fresh", "stale"}]
    BY <2>1, <2>2, <2>4, <2>5 DEF CoTypes
  <2>7. \A j \in Stacks : /\ occupy'[j] = IF j = k THEN c ELSE occupy[j]
                          /\ content'[j] = IF j = k THEN Restored(c, out, content[k]) ELSE content[j]
    BY <2>1, <2>2 DEF CoTypes
  <2>8. \A d \in Cos \ {c} : saved'[d] = IF Copies(c) /\ d = occupy[k] THEN "fresh" ELSE saved[d]
    BY <2>1, <2>2, <2>4
  <2>9. \A j \in Stacks : occupy'[j] # Null => /\ stackMem'[occupy'[j]] = j /\ stackMem'[occupy'[j]] # Null
                                               /\ life'[occupy'[j]] \in {"started", "ended"}
    <3>1. ASSUME NEW j \in Stacks, j # k, occupy[j] # Null
          PROVE  /\ stackMem[occupy[j]] = j /\ stackMem[occupy[j]] # Null
                 /\ life'[occupy[j]] \in {"started", "ended"}
      <4>1. /\ occupy[j] \in Cos /\ stackMem[occupy[j]] = j /\ stackMem[occupy[j]] # Null
            /\ life[occupy[j]] \in {"started", "ended"}
        BY <3>1 DEF CoTypes, Frames, Shares
      <4>2. occupy[j] # c
        BY <4>1, <3>1
      <4> QED
        BY <4>1, <4>2, Apart
    <3> QED
      BY <2>1, <2>7, <3>1
  <2>10. ASSUME NEW d \in Cos, Shares(d), life'[d] = "started", stackMem[d] \notin vacated
         PROVE  LET j == stackMem[d]
                IN  IF occupy'[j] = d THEN content'[j] = d
                    ELSE occupy'[j] # Null /\ saved'[d] = "fresh"
    <3>1. stackMem[d] \in Stacks
      BY <2>10, Apart DEF CoTypes, Shares
    <3>2. d # c => life[d] = "started"
      BY <2>10, Apart
    <3>3. d # c => LET j == stackMem[d]
                   IN  IF occupy[j] = d THEN content[j] = d
                       ELSE occupy[j] # Null /\ saved[d] = "fresh"
      BY <2>10, <3>2 DEF Frames
    <3>4. CASE d = c
      <4>1. life[c] = "started" => IF occupy[k] = c THEN content[k] = c
                                   ELSE occupy[k] # Null /\ saved[c] = "fresh"
        BY <2>1, <2>10, <3>4 DEF Frames
      <4>2. life[c] = "started" /\ occupy[k] # c => Copies(c) /\ out[c] = "fresh"
        BY <2>1, <2>3, <2>4, <4>1
      <4>3. life[c] = "started" /\ occupy[k] = c => ~Copies(c) /\ content[k] = c
        BY <2>3, <4>1
      <4>4. Restored(c, out, content[k]) = c
        BY <4>2, <4>3 DEF Restored
      <4> QED
        BY <2>1, <2>7, <3>4, <4>4
    <3>5. CASE d # c /\ stackMem[d] = k
      BY <2>1, <2>3, <2>7, <2>8, <3>3, <3>5, Apart
    <3>6. CASE d # c /\ stackMem[d] # k
      <4>1. d # occupy[k] \/ ~Copies(c)
        BY <2>1, <2>3, <3>6 DEF Frames
      <4> QED
        BY <2>7, <2>8, <3>1, <3>3, <3>6, <4>1
    <3> QED
      BY <3>4, <3>5, <3>6
  <2>11. Frames'
    BY <2>9, <2>10 DEF Frames, Shares
  <2> QED
    BY <2>1, <2>6, <2>7, <2>11
<1> QED
  BY <1>1, <1>2

(* co_resume of a coroutine that is not on the call stack.                 *)
LEMMA ResumeKeeps ==
  ASSUME CoInv, NEW c \in Cos, OffStack(c), life[c] \in {"made", "started"}, co_resume(c)
  PROVE  /\ CoInv' /\ Top' = c /\ Range(callStack') = Range(callStack) \cup {c}
         /\ life' = [life EXCEPT ![c] = "started"]
<1>1. /\ callStack' = Append(callStack, c) /\ life' = [life EXCEPT ![c] = "started"]
      /\ co_swap(c) /\ UNCHANGED <<stackMem, allocIdx, vacated>>
  BY DEF co_resume
<1>2. c \in Members /\ callStack \in Seq(Members) /\ callStack # <<>>
  BY Apart DEF CoInv, CoTypes
<1>3. /\ callStack' \in Seq(Members) /\ callStack' # <<>> /\ Head(callStack') = Main
      /\ Top' = c /\ Range(callStack') = Range(callStack) \cup {c} /\ IsInjective(callStack')
  <2>1. IsInjective(callStack) /\ c \notin Range(callStack) /\ Head(callStack) = Main
    BY DEF CoInv, CoTypes, Resumed, OffStack
  <2> QED
    BY <1>1, <1>2, <2>1, Appended DEF Top
<1>4. /\ life' \in [Members -> {"none", "made", "started", "ended"}] /\ life'[c] = "started"
      /\ \A d \in Members \ {c} : life'[d] = life[d]
  BY <1>1, <1>2 DEF CoInv, CoTypes
<1>5. /\ occupy' \in [Stacks -> Cos \cup {Null}] /\ content' \in [Stacks -> Cos \cup {Null}]
      /\ saved' \in [Cos -> {"none", "fresh", "stale"}]
      /\ Frames' /\ (Shares(c) => occupy'[stackMem[c]] = c)
  BY <1>1, <1>2, <1>4, SwapKeeps DEF CoInv
<1>6. CoTypes'
  BY <1>1, <1>3, <1>4, <1>5 DEF CoInv, CoTypes, Shares
<1>7. Resumed'
  <2>1. \A d \in Range(callStack') : life'[d] = "started"
    BY <1>2, <1>3, <1>4, RangeOf DEF CoInv, Resumed
  <2>2. Shares(Top)' => (occupy[stackMem[Top]])' = Top'
    BY <1>1, <1>3, <1>5 DEF Shares
  <2> QED
    BY <1>3, <2>1, <2>2 DEF Resumed
<1> QED
  BY <1>1, <1>3, <1>5, <1>6, <1>7 DEF CoInv

(* The top leaves the call stack: co_yield_env and the end of              *)
(* CoRoutineFunc.                                                          *)
LEMMA BackKeeps ==
  ASSUME CoInv, NEW c \in Cos, c = Top, Back,
         UNCHANGED life \/ life' = [life EXCEPT ![c] = "ended"]
  PROVE  /\ CoInv' /\ Range(callStack') = Range(callStack) \ {c}
         /\ Top' \in Range(callStack')
<1> DEFINE b == Last(Front(callStack))
<1>1. /\ callStack' = Front(callStack) /\ co_swap(b)
      /\ UNCHANGED <<stackMem, allocIdx, vacated>>
  BY DEF Back
<1>2. /\ callStack \in Seq(Members) /\ callStack # <<>> /\ Head(callStack) = Main
      /\ IsInjective(callStack) /\ Range(callStack) \subseteq Members
      /\ \A d \in Range(callStack) : life[d] = "started"
      /\ Last(callStack) = c /\ c # Main
  BY TopRuns, Apart DEF CoInv, CoTypes, Resumed, Top
<1>3. Front(callStack) # <<>>
  BY <1>2, Fronted
<1>4. /\ callStack' \in Seq(Members) /\ callStack' # <<>> /\ Head(callStack') = Main
      /\ IsInjective(callStack') /\ Range(callStack') = Range(callStack) \ {c}
      /\ b \in Range(callStack') /\ Top' = b
  BY <1>1, <1>2, <1>3, Fronted DEF Top
<1> HIDE DEF b
<1>5. b \in Members /\ b # c /\ life[b] = "started" /\ life[c] = "started" /\ c \in Members
  BY <1>2, <1>4, Apart, TopRuns DEF CoInv
<1>6. /\ life' \in [Members -> {"none", "made", "started", "ended"}] /\ life'[b] = "started"
      /\ \A d \in Members \ {b} :
           life'[d] = life[d] \/ (life[d] = "started" /\ life'[d] = "ended")
      /\ \A d \in Members \ {c} : life'[d] = life[d]
  BY <1>5 DEF CoInv, CoTypes
<1>7. /\ occupy' \in [Stacks -> Cos \cup {Null}] /\ content' \in [Stacks -> Cos \cup {Null}]
      /\ saved' \in [Cos -> {"none", "fresh", "stale"}]
      /\ Frames' /\ (Shares(b) => occupy'[stackMem[b]] = b)
  BY <1>1, <1>5, <1>6, SwapKeeps DEF CoInv
<1>8. CoTypes'
  BY <1>1, <1>4, <1>6, <1>7 DEF CoInv, CoTypes, Shares
<1>9. Resumed'
  BY <1>1, <1>2, <1>4, <1>6, <1>7 DEF Resumed, Shares
<1> QED
  BY <1>4, <1>7, <1>8, <1>9 DEF CoInv

(* co_create, co_reset and co_free of a coroutine that is not resumed.     *)
LEMMA ManageKeeps ==
  ASSUME CoInv, NEW c \in Cos, OffStack(c), co_create(c) \/ co_reset(c) \/ co_free(c)
  PROVE  /\ CoInv' /\ callStack' = callStack /\ life'[c] # "started"
         /\ \A d \in Cos \ {c} : life'[d] = life[d]
<1>1. /\ c \in Members /\ c # Top /\ Top \in Members /\ Top \in Range(callStack)
      /\ Range(callStack) \subseteq Members /\ c \notin Range(callStack)
  BY TopRuns, Apart DEF CoInv, OffStack
<1>2. CoTypes /\ Resumed /\ Frames
  BY DEF CoInv
<1>3. CASE co_create(c)
  <2>1. /\ life[c] = "none" /\ life' = [life EXCEPT ![c] = "made"]
        /\ UNCHANGED <<callStack, occupy, content, saved, vacated>>
        /\ stackMem' \in [Members -> Stacks \cup {Null}] /\ allocIdx' \in Stacks
        /\ \A d \in Members \ {c} : stackMem'[d] = stackMem[d]
    <3>1. (allocIdx + 1) % StackCount \in Stacks
      BY <1>2, StackCountAssumption DEF CoTypes, Stacks
    <3> QED
      BY <1>1, <1>2, <1>3, <3>1 DEF co_create, CoTypes
  <2>2. /\ life' \in [Members -> {"none", "made", "started", "ended"}] /\ life'[c] = "made"
        /\ \A d \in Members \ {c} : life'[d] = life[d]
    BY <1>1, <1>2, <2>1 DEF CoTypes
  <2>3. CoTypes'
    BY <1>1, <1>2, <2>1, <2>2, Apart DEF CoTypes, Shares
  <2>4. Resumed'
    BY <1>1, <1>2, <2>1, <2>2 DEF Resumed, Shares, Top
  <2>5. \A k \in Stacks : occupy[k] # c
    BY <1>2, <2>1, Apart DEF CoTypes, Frames
  <2>6. Frames'
    BY <1>2, <2>1, <2>2, <2>5, Apart DEF CoTypes, Frames, Shares
  <2> QED
    BY <2>1, <2>2, <2>3, <2>4, <2>6, Apart DEF CoInv
<1>4. CASE co_reset(c) \/ co_free(c)
  <2> DEFINE k == stackMem[c]
  <2>1. /\ UNCHANGED <<callStack, allocIdx, content>> /\ Vacate(c)
        /\ saved' = [saved EXCEPT ![c] = "none"]
        /\ life' \in [Members -> {"none", "made", "started", "ended"}] /\ life'[c] # "started"
        /\ \A d \in Members \ {c} : life'[d] = life[d]
        /\ stackMem' \in [Members -> Stacks \cup {Null}]
        /\ \A d \in Members \ {c} : stackMem'[d] = stackMem[d]
    BY <1>1, <1>2, <1>4 DEF co_reset, co_free, CoTypes
  <2>2. /\ occupy' \in [Stacks -> Cos \cup {Null}] /\ vacated' \subseteq Stacks
        /\ vacated \subseteq vacated'
        /\ \A j \in Stacks : occupy'[j] = IF Shares(c) /\ j = k /\ occupy[k] = c
                                          THEN Null ELSE occupy[j]
        /\ Shares(c) /\ occupy[k] = c /\ (\E d \in Cos \ {c} : life[d] = "started" /\ stackMem[d] = k)
             => k \in vacated'
    BY <1>1, <1>2, <2>1 DEF Vacate, CoTypes, Shares
  <2>3. ASSUME NEW j \in Stacks PROVE occupy'[j] # c
    <3>1. CASE occupy[j] = c
      <4>1. j = k
        BY <1>2, <3>1, Apart DEF Frames
      <4>2. Shares(c)
        BY <1>2, <3>1, Apart DEF Frames
      <4> QED
        BY <2>2, <3>1, <4>1, <4>2, Apart
    <3>2. CASE occupy[j] # c
      BY <2>2, <3>2, Apart
    <3> QED
      BY <3>1, <3>2
  <2>4. CoTypes'
    BY <1>1, <1>2, <2>1, <2>2, Apart DEF CoTypes, Shares
  <2>5. Resumed'
    <3>1. Top' = Top /\ (Shares(Top)' <=> Shares(Top)) /\ stackMem'[Top] = stackMem[Top]
      BY <1>1, <2>1 DEF Top, Shares
    <3>2. Shares(Top) => occupy'[stackMem[Top]] = Top
      BY <1>1, <1>2, <2>2 DEF Resumed, CoTypes, Shares
    <3> QED
      BY <1>1, <1>2, <2>1, <3>1, <3>2 DEF Resumed
  <2>6. \A j \in Stacks : occupy'[j] # Null => /\ stackMem'[occupy'[j]] = j /\ stackMem'[occupy'[j]] # Null
                                               /\ life'[occupy'[j]] \in {"started", "ended"}
    BY <1>2, <2>1, <2>2, <2>3, Apart DEF CoTypes, Frames, Shares
  <2>7. ASSUME NEW d \in Cos, Shares(d)', life'[d] = "started", stackMem'[d] \notin vacated'
        PROVE  LET j == stackMem'[d]
               IN  IF occupy'[j] = d THEN content'[j] = d
                   ELSE occupy'[j] # Null /\ saved'[d] = "fresh"
    <3>1. /\ d # c /\ stackMem'[d] = stackMem[d] /\ Shares(d) /\ life[d] = "started"
          /\ saved'[d] = saved[d] /\ stackMem[d] \in Stacks /\ stackMem[d] \notin vacated
      BY <1>2, <2>1, <2>2, <2>7, Apart DEF CoTypes, Shares
    <3>2. ~(stackMem[d] = k /\ Shares(c) /\ occupy[k] = c)
      BY <2>2, <2>7, <3>1
    <3>3. occupy'[stackMem[d]] = occupy[stackMem[d]]
      BY <2>2, <3>1, <3>2
    <3> QED
      BY <1>2, <2>1, <3>1, <3>3 DEF Frames
  <2>8. Frames'
    BY <2>6, <2>7 DEF Frames, Shares
  <2> QED
    BY <2>1, <2>4, <2>5, <2>8, Apart DEF CoInv
<1> QED
  BY <1>3, <1>4

(* StackIntact and the occupants' part of the type invariant follow.       *)
LEMMA CoShown == CoInv => CoTypeOK /\ StackIntact
<1> SUFFICES ASSUME CoInv PROVE CoTypeOK /\ StackIntact
  OBVIOUS
<1>1. CoTypeOK
  BY DEF CoInv, CoTypes, Frames, CoTypeOK, Members
<1>2. StackIntact
  <2>1. Top \in Members /\ Top \in Range(callStack)
    BY TopRuns DEF CoInv
  <2>2. SUFFICES ASSUME Shares(Top), life[Top] = "started", stackMem[Top] \notin vacated
                 PROVE  content[stackMem[Top]] = Top
    BY DEF StackIntact, Intact
  <2>3. Top \in Cos
    BY <2>1, <2>2 DEF CoInv, CoTypes, Members
  <2> QED
    BY <2>2, <2>3 DEF CoInv, Resumed, Frames
<1> QED
  BY <1>1, <1>2
-----------------------------------------------------------------------------
(* The wheel.                                                              *)
LEMMA Modulo ==
  ASSUME NEW w \in Nat \ {0}, NEW x \in 0..(w - 1), NEW y \in 0..(w - 1)
  PROVE  /\ (x + y) % w = IF x + y < w THEN x + y ELSE x + y - w
         /\ ((x - y) + w) % w = IF x >= y THEN x - y ELSE x - y + w
<1>1. (x + y) % w = IF x + y < w THEN x + y ELSE x + y - w
  OBVIOUS
<1>2. ((x - y) + w) % w = IF x >= y THEN x - y ELSE x - y + w
  OBVIOUS
<1> QED
  BY <1>1, <1>2

LEMMA Turning ==
  ASSUME NEW x \in Slots, x = idx
  PROVE  /\ \A n \in Slots : /\ (x + n) % WheelSize \in Slots
                             /\ (x + n) % WheelSize = IF x + n < WheelSize THEN x + n
                                                      ELSE x + n - WheelSize
                             /\ Distance((x + n) % WheelSize) = n
         /\ \A i \in Slots : /\ Distance(i) \in Slots /\ (x + Distance(i)) % WheelSize = i
                             /\ Distance(i) = IF i >= x THEN i - x ELSE i - x + WheelSize
<1>1. WheelSize \in Nat \ {0} /\ x \in 0..(WheelSize - 1)
  BY LoopAssumption DEF Slots
<1>2. ASSUME NEW n \in 0..(WheelSize - 1)
      PROVE  (x + n) % WheelSize = IF x + n < WheelSize THEN x + n ELSE x + n - WheelSize
  BY <1>1, Modulo
<1>3. ASSUME NEW i \in 0..(WheelSize - 1)
      PROVE  ((i - x) + WheelSize) % WheelSize = IF i >= x THEN i - x ELSE i - x + WheelSize
  BY <1>1, Modulo
<1>4. ASSUME NEW n \in 0..(WheelSize - 1)
      PROVE  /\ (x + n) % WheelSize \in 0..(WheelSize - 1)
             /\ Distance((x + n) % WheelSize) = n
  <2> DEFINE i == IF x + n < WheelSize THEN x + n ELSE x + n - WheelSize
  <2>1. i \in 0..(WheelSize - 1) /\ (x + n) % WheelSize = i
    BY <1>1, <1>2
  <2>2. ((i - x) + WheelSize) % WheelSize = IF i >= x THEN i - x ELSE i - x + WheelSize
    BY <1>3, <2>1
  <2>3. (IF i >= x THEN i - x ELSE i - x + WheelSize) = n
    BY <1>1
  <2> HIDE DEF i
  <2> QED
    BY <2>1, <2>2, <2>3 DEF Distance
<1>5. ASSUME NEW i \in 0..(WheelSize - 1)
      PROVE  /\ Distance(i) \in 0..(WheelSize - 1) /\ (x + Distance(i)) % WheelSize = i
             /\ Distance(i) = IF i >= x THEN i - x ELSE i - x + WheelSize
  <2>1. Distance(i) = IF i >= x THEN i - x ELSE i - x + WheelSize
    BY <1>3 DEF Distance
  <2>2. Distance(i) \in 0..(WheelSize - 1)
    BY <1>1, <2>1
  <2>3. (x + Distance(i)) % WheelSize = IF x + Distance(i) < WheelSize THEN x + Distance(i)
                                        ELSE x + Distance(i) - WheelSize
    BY <1>2, <2>2
  <2> QED
    BY <1>1, <2>1, <2>2, <2>3
<1> QED
  BY <1>2, <1>4, <1>5 DEF Slots

(* AddTimeout puts c on a slot that is not after its deadline.             *)
LEMMA Added ==
  ASSUME LoopTypes, Linked, NEW c \in Cos, ~OnWheel(c), NEW deadline \in Nat,
         deadline >= start, AddTimeout(c, deadline)
  PROVE  /\ slots' \in [Slots -> Seq(Cos)] /\ start' = start /\ idx' = idx
         /\ \A i \in Slots : IsInjective(slots'[i])
         /\ \A i \in Slots : \A d \in Range(slots'[i]) :
              d \in Range(slots[i]) \/ (d = c /\ start + Distance(i) <= deadline)
         /\ \A d \in Cos, i, j \in Slots :
              d \in Range(slots'[i]) /\ d \in Range(slots'[j]) => i = j
         /\ \A d \in Cos : OnWheel(d)' <=> OnWheel(d) \/ d = c
<1> DEFINE diff == deadline - start
           n == IF diff >= WheelSize THEN WheelSize - 1 ELSE diff
           k == SlotOf(deadline)
<1>1. /\ n \in Slots /\ start + n <= deadline /\ start \in Nat /\ idx \in Slots
      /\ WheelSize \in Nat \ {0}
  BY LoopAssumption DEF LoopTypes, Slots
<1>2. k = (idx + n) % WheelSize
  BY DEF SlotOf
<1> HIDE DEF n, k, diff
<1>3. k \in Slots /\ start + Distance(k) <= deadline
  BY <1>1, <1>2, Turning
<1>4. /\ slots' = [slots EXCEPT ![k] = Append(@, c)] /\ start' = start /\ idx' = idx
  BY DEF AddTimeout, k
<1>5. /\ slots \in [Slots -> Seq(Cos)] /\ \A i \in Slots : IsInjective(slots[i])
      /\ \A d \in Cos, i, j \in Slots :
           d \in Range(slots[i]) /\ d \in Range(slots[j]) => i = j
      /\ \A i \in Slots : c \notin Range(slots[i])
  BY DEF Linked, OnWheel
<1>6. /\ Append(slots[k], c) \in Seq(Cos) /\ Range(Append(slots[k], c)) = Range(slots[k]) \cup {c}
      /\ IsInjective(Append(slots[k], c))
  BY <1>3, <1>5, Appended
<1>7. /\ slots' \in [Slots -> Seq(Cos)] /\ slots'[k] = Append(slots[k], c)
      /\ \A i \in Slots \ {k} : slots'[i] = slots[i]
  BY <1>3, <1>4, <1>5, <1>6
<1>8. \A i \in Slots : Range(slots'[i]) = IF i = k THEN Range(slots[i]) \cup {c}
                                          ELSE Range(slots[i])
  BY <1>6, <1>7
<1>9. \A d \in Cos, i, j \in Slots :
        d \in Range(slots'[i]) /\ d \in Range(slots'[j]) => i = j
  <2>1. ASSUME NEW d \in Cos, NEW i \in Slots, NEW j \in Slots,
               d \in Range(slots'[i]), d \in Range(slots'[j])
        PROVE  i = j
    <3>1. CASE d = c
      <4>1. c \notin Range(slots[i]) /\ c \notin Range(slots[j])
        BY <1>5
      <4> QED
        BY <1>8, <2>1, <3>1, <4>1
    <3>2. CASE d # c
      <4>0. \A l \in Slots : Range(slots'[l]) \subseteq Range(slots[l]) \cup {c}
        BY <1>8
      <4>1. d \in Range(slots[i]) /\ d \in Range(slots[j])
        BY <2>1, <3>2, <4>0
      <4> QED
        BY <1>5, <4>1
    <3> QED
      BY <3>1, <3>2
  <2> QED
    BY <2>1
<1>10. \A d \in Cos : OnWheel(d)' <=> OnWheel(d) \/ d = c
  <2>1. \A d \in Cos : OnWheel(d)' <=> \E i \in Slots : d \in Range(slots'[i])
    BY DEF OnWheel, Slots
  <2> QED
    BY <1>3, <1>8, <2>1 DEF OnWheel
<1>11. \A i \in Slots : IsInjective(slots'[i])
  BY <1>5, <1>6, <1>7
<1>12. \A i \in Slots : \A d \in Range(slots'[i]) :
         d \in Range(slots[i]) \/ (d = c /\ start + Distance(i) <= deadline)
  BY <1>3, <1>8
<1> QED
  BY <1>4, <1>7, <1>9, <1>10, <1>11, <1>12

(* What Unlinked leaves on the wheel.                                      *)
LEMMA Kept ==
  ASSUME Linked, NEW cs
  PROVE  LET s == Unlinked(cs)
         IN  /\ s \in [Slots -> Seq(Cos)]
             /\ \A i \in Slots : IsInjective(s[i]) /\ Range(s[i]) = Range(slots[i]) \ cs
<1>1. slots \in [Slots -> Seq(Cos)] /\ \A i \in Slots : IsInjective(slots[i])
  BY DEF Linked
<1>2. \A i \in Slots : Without(slots[i], cs) \in Seq(Cos) /\ IsInjective(Without(slots[i], cs))
                        /\ Range(Without(slots[i], cs)) = Range(slots[i]) \ cs
  BY <1>1, Filtered
<1>3. Unlinked(cs) = [i \in Slots |-> Without(slots[i], cs)]
  BY <1>1 DEF Unlinked
<1> QED
  BY <1>2, <1>3

(* TakeAllTimeout takes the first slots, and the others come no later.     *)
LEMMA Advanced ==
  ASSUME LoopTypes, NEW s \in [Slots -> Seq(Cos)],
         \A i \in Slots : IsInjective(s[i]),
         \A d \in Cos, i, j \in Slots : d \in Range(s[i]) /\ d \in Range(s[j]) => i = j,
         TakeAllTimeout(s, now)
  PROVE  /\ slots' \in [Slots -> Seq(Cos)] /\ start' \in 0..MaxNow /\ idx' \in Slots
         /\ Taken(s, now) \in Seq(Cos) /\ IsInjective(Taken(s, now))
         /\ \A i \in Slots : IsInjective(slots'[i])
         /\ \A i \in Slots :
              \/ Range(slots'[i]) = {} /\ Range(s[i]) \subseteq Range(Taken(s, now))
              \/ /\ slots'[i] = s[i] /\ Range(s[i]) \cap Range(Taken(s, now)) = {}
                 /\ start' + Distance(i)' <= start + Distance(i)
         /\ \A d \in Range(Taken(s, now)) : \E i \in Slots : d \in Range(s[i])
         /\ Taken(s, now) = <<>> \/ now >= start'
<1> DEFINE N == Count(now)
           ss == [i \in 1..N |-> s[((idx + i) - 1) % WheelSize]]
           T == {i \in Slots : Distance(i) < N}
<1>1. /\ start \in Nat /\ now \in 0..MaxNow /\ start \in 0..MaxNow /\ idx \in Slots
      /\ WheelSize \in Nat \ {0} /\ MaxNow \in Nat /\ N \in 0..WheelSize
  BY LoopAssumption DEF LoopTypes, Count
<1>a. /\ \A i \in Slots : /\ Distance(i) \in Slots /\ (idx + Distance(i)) % WheelSize = i
                          /\ Distance(i) = IF i >= idx THEN i - idx ELSE i - idx + WheelSize
      /\ \A n \in Slots : n \in Nat /\ n < WheelSize
  BY <1>1, Turning DEF Slots
<1>2. \A i \in 1..N : i - 1 \in Slots /\ (idx + i) - 1 = idx + (i - 1) /\ i - 1 < N
  BY <1>1 DEF Slots
<1>3. \A i \in 1..N : /\ ((idx + i) - 1) % WheelSize \in Slots
                      /\ Distance(((idx + i) - 1) % WheelSize) = i - 1
  BY <1>1, <1>2, Turning
<1>4. \A i \in T : \E j \in 1..N : i = ((idx + j) - 1) % WheelSize
  <2>1. ASSUME NEW i \in T PROVE \E j \in 1..N : i = ((idx + j) - 1) % WheelSize
    <3>1. Distance(i) + 1 \in 1..N /\ (idx + (Distance(i) + 1)) - 1 = idx + Distance(i)
      <4>1. Distance(i) \in Nat /\ Distance(i) < N /\ idx \in Nat
        BY <1>1, <1>a
      <4> HIDE DEF N
      <4> QED
        BY <1>1, <4>1
    <3>2. (idx + Distance(i)) % WheelSize = i
      BY <1>1, Turning
    <3> QED
      BY <3>1, <3>2
  <2> QED
    BY <2>1
<1>5. \A i \in Slots : (\E j \in 1..N : i = ((idx + j) - 1) % WheelSize) <=> i \in T
  BY <1>1, <1>2, <1>3, <1>4
<1>6. slots' = [i \in Slots |-> IF i \in T THEN <<>> ELSE s[i]]
  <2>1. slots' = [i \in Slots |-> IF \E j \in 1..N : i = ((idx + j) - 1) % WheelSize
                                  THEN <<>> ELSE s[i]]
    BY DEF TakeAllTimeout
  <2> HIDE DEF N, T
  <2> QED
    BY <1>5, <2>1
<1>7. /\ ss \in Seq(Seq(Cos)) /\ Len(ss) = N
      /\ \A i \in 1..N : /\ ss[i] = s[((idx + i) - 1) % WheelSize] /\ IsInjective(ss[i])
                         /\ ((idx + i) - 1) % WheelSize \in T
  <2>1. \A i \in 1..N : /\ s[((idx + i) - 1) % WheelSize] \in Seq(Cos)
                        /\ IsInjective(s[((idx + i) - 1) % WheelSize])
    BY <1>3
  <2>2. \A i \in 1..N : ((idx + i) - 1) % WheelSize \in T
    BY <1>2, <1>3
  <2> HIDE DEF N, T
  <2> QED
    BY <1>1, <2>1, <2>2
<1>8. ASSUME NEW i \in 1..N, NEW j \in 1..N, i # j PROVE Range(ss[i]) \cap Range(ss[j]) = {}
  <2>1. ((idx + i) - 1) % WheelSize # ((idx + j) - 1) % WheelSize
    <3>1. i - 1 # j - 1
      BY <1>1, <1>8
    <3> QED
      BY <1>3, <3>1
  <2>2. /\ Range(ss[i]) \subseteq Cos /\ ss[i] = s[((idx + i) - 1) % WheelSize]
        /\ ss[j] = s[((idx + j) - 1) % WheelSize]
    BY <1>3, <1>7, RangeOf
  <2> HIDE DEF ss
  <2> QED
    BY <1>3, <2>1, <2>2
<1>9. Taken(s, now) = FlattenSeq(ss)
  BY DEF Taken
<1> HIDE DEF N, ss, T
<1>10. /\ Taken(s, now) \in Seq(Cos) /\ IsInjective(Taken(s, now))
       /\ Range(Taken(s, now)) = UNION {Range(ss[i]) : i \in 1..N}
  <2>1. /\ \A i \in 1..Len(ss) : IsInjective(ss[i])
        /\ \A i, j \in 1..Len(ss) : i # j => Range(ss[i]) \cap Range(ss[j]) = {}
    BY <1>7, <1>8
  <2>2. /\ FlattenSeq(ss) \in Seq(Cos) /\ IsInjective(FlattenSeq(ss))
        /\ Range(FlattenSeq(ss)) = UNION {Range(ss[i]) : i \in 1..Len(ss)}
    BY <1>7, <2>1, Flattened, Zenon
  <2> QED
    BY <1>7, <1>9, <2>2
<1>11. \A d : d \in Range(Taken(s, now)) <=> \E i \in T : d \in Range(s[i])
  <2>1. \A d : d \in Range(Taken(s, now)) <=> \E i \in 1..N : d \in Range(ss[i])
    BY <1>10
  <2>2. ASSUME NEW d, NEW i \in T, d \in Range(s[i]) PROVE \E j \in 1..N : d \in Range(ss[j])
    BY <1>4, <1>7, <2>2
  <2> QED
    BY <1>7, <2>1, <2>2
<1>12. /\ slots' \in [Slots -> Seq(Cos)]
       /\ \A i \in Slots : slots'[i] = IF i \in T THEN <<>> ELSE s[i]
       /\ T \subseteq Slots
  BY <1>6, EmptySeq DEF T
<1>13. \A i \in Slots : IsInjective(slots'[i])
  BY <1>12, RangeOf
<1>14. ASSUME NEW i \in Slots
       PROVE  \/ Range(slots'[i]) = {} /\ Range(s[i]) \subseteq Range(Taken(s, now))
              \/ slots'[i] = s[i] /\ Range(s[i]) \cap Range(Taken(s, now)) = {} /\ i \notin T
  <2>1. CASE i \in T
    BY <1>11, <1>12, <2>1, RangeOf
  <2>2. CASE i \notin T
    <3>1. Range(s[i]) \subseteq Cos
      BY RangeOf
    <3>2. \A j \in T : j \in Slots /\ j # i
      BY <1>12, <2>2
    <3> QED
      BY <1>11, <1>12, <2>2, <3>1, <3>2
  <2> QED
    BY <2>1, <2>2
<1>15. CASE now < start
  <2>1. N = 0 /\ start' = start /\ idx' = idx
    BY <1>1, <1>15 DEF TakeAllTimeout, Count, N
  <2>2. \A i \in Slots : Distance(i)' = Distance(i) /\ Distance(i) \in Nat
    BY <1>1, <2>1, Turning DEF Distance, Slots
  <2>3. T = {}
    BY <2>1, <2>2 DEF T
  <2>4. Taken(s, now) = <<>>
    <3>1. Range(Taken(s, now)) = {}
      BY <1>11, <2>3
    <3> QED
      BY <1>10, <3>1, RangeOf
  <2> QED
    BY <1>1, <1>10, <1>12, <1>13, <1>14, <1>11, <2>1, <2>2, <2>4
<1>16. CASE ~(now < start)
  <2>1. /\ start' = now /\ idx' = ((idx + N) - 1) % WheelSize
        /\ N = IF now - start + 1 > WheelSize THEN WheelSize ELSE now - start + 1
    BY <1>1, <1>16 DEF TakeAllTimeout, Count, N
  <2>2. N \in 1..WheelSize
    BY <1>1, <1>16, <2>1
  <2>3. N - 1 \in Slots /\ (idx + N) - 1 = idx + (N - 1)
    BY <1>1, <2>2 DEF Slots
  <2>4. /\ idx' \in Slots
        /\ idx' = IF idx + (N - 1) < WheelSize THEN idx + (N - 1)
                  ELSE idx + (N - 1) - WheelSize
    BY <1>1, <2>1, <2>3, Turning
  <2>5. ASSUME NEW i \in Slots, i \notin T PROVE start' + Distance(i)' <= start + Distance(i)
    <3>1. Distance(i) >= N /\ Distance(i) \in Slots
      <4>1. Distance(i) \in Nat /\ ~(Distance(i) < N) /\ N \in Nat
        BY <1>1, <1>a, <2>2, <2>5 DEF T
      <4> QED
        BY <4>1, <1>a
    <3>2. /\ Distance(i) = IF i >= idx THEN i - idx ELSE i - idx + WheelSize
          /\ Distance(i)' = ((i - idx') + WheelSize) % WheelSize
      BY <1>a DEF Distance
    <3>3. ((i - idx') + WheelSize) % WheelSize = IF i >= idx' THEN i - idx'
                                                 ELSE i - idx' + WheelSize
      <4>1. /\ i \in 0..(WheelSize - 1) /\ idx' \in 0..(WheelSize - 1)
            /\ WheelSize \in Nat \ {0}
        BY <1>1, <2>4 DEF Slots
      <4> QED
        BY <4>1, Modulo
    <3>4. N = now - start + 1
      BY <1>1, <2>1, <2>2, <3>1 DEF Slots
    <3>5. i \in Nat /\ idx \in Nat /\ idx' \in Nat /\ i < WheelSize /\ idx < WheelSize
      BY <1>1, <2>4 DEF Slots
    <3>6. Distance(i)' = Distance(i) - (N - 1)
      <4>2. /\ N - 1 \in Nat /\ N - 1 < WheelSize /\ Distance(i) >= N - 1
        BY <1>1, <1>a, <2>2, <3>1
      <4>3. Distance(i) \in Int /\ WheelSize \in Nat
        BY <1>1, <3>1 DEF Slots
      <4>4. Distance(i)' = IF i >= idx' THEN i - idx' ELSE i - idx' + WheelSize
        BY <3>2, <3>3
      <4>5. Distance(i)' \in Int /\ idx' \in Int
        <5>1. /\ (IF i >= idx' THEN i - idx' ELSE i - idx' + WheelSize) \in Int
          BY <3>5, <4>3
        <5> QED
          BY <3>5, <4>4, <5>1
      <4> HIDE DEF N
      <4>6. idx' = IF idx + (N - 1) < WheelSize THEN idx + (N - 1) ELSE idx + (N - 1) - WheelSize
        BY <2>4
      <4>7. Distance(i) = IF i >= idx THEN i - idx ELSE i - idx + WheelSize
        BY <3>2
      <4> QED
        BY <3>5, <4>2, <4>3, <4>4, <4>5, <4>6, <4>7
    <3> QED
      BY <1>1, <2>1, <3>1, <3>4, <3>6 DEF Slots
  <2>6. now >= start'
    BY <1>1, <2>1
  <2> QED
    BY <1>1, <1>10, <1>11, <1>12, <1>13, <1>14, <2>1, <2>4, <2>5, <2>6
<1> QED
  BY <1>15, <1>16
-----------------------------------------------------------------------------
(* The steps that leave the lists alone.                                   *)
LEMMA Idle ==
  ASSUME IndInv, Top \in Cos => ~Waits(Top)
  PROVE  \A c \in Cos : Waits(c) => c # Top /\ OffStack(c) /\ life[c] = "started"
  BY DEF IndInv, LoopInv, Placed, Waits

(* Nobody on the call stack but the top waits.                             *)
LEMMA OnlyTopWaits ==
  ASSUME IndInv
  PROVE  \A c \in Cos : ~OffStack(c) /\ c # Top => wait[c] = "no"
  BY DEF IndInv, LoopInv, Placed

(* No list changes, and nobody who waits is concerned.                     *)
LEMMA Untouched ==
  ASSUME IndInv, CoInv',
         UNCHANGED <<world, wheel, active, cond, interest, loop, loopNow, history,
                     pollFd, expire, bTimeout, detach>>,
         wait' \in [Cos -> {"no", "hand", "poll", "cond"}], calls' \in Nat,
         \A c \in Cos : /\ Waits(c)' <=> Waits(c)
                        /\ Waits(c) => /\ wait'[c] = wait[c] /\ c # Top /\ c # Top'
                                       /\ OffStack(c)' /\ life'[c] = "started"
                        /\ wait'[c] = "hand" =>
                             life'[c] = "started" /\ (OffStack(c)' \/ c = Top')
  PROVE  IndInv'
<1>1. LoopTypes /\ Linked /\ Placed /\ Polled /\ Reasons /\ NotLate /\ NotEarly /\ SignalKept
  BY DEF IndInv, LoopInv
<1>2. /\ now' = now /\ back' = back /\ ready' = ready /\ slots' = slots /\ start' = start
      /\ idx' = idx /\ active' = active /\ cond' = cond /\ interest' = interest /\ loop' = loop
      /\ loopNow' = loopNow /\ contested' = contested /\ overtaken' = overtaken
      /\ pollFd' = pollFd /\ expire' = expire /\ bTimeout' = bTimeout /\ detach' = detach
  BY DEF world, wheel, history
<1>3. \A c \in Cos : /\ OnWheel(c)' <=> OnWheel(c)
                     /\ OnActive(c)' <=> OnActive(c)
                     /\ OnCond(c)' <=> OnCond(c)
  BY <1>2 DEF OnWheel, OnActive, OnCond, Slots
<1>4. LoopTypes'
  BY <1>1, <1>2 DEF LoopTypes, Slots
<1>5. Linked'
  <2>1. \A c \in Cos : ~(OnWheel(c)' /\ OnActive(c)')
    BY <1>1, <1>3 DEF Linked
  <2> QED
    BY <1>1, <1>2, <2>1 DEF Linked, Slots
<1>6. Placed'
  <2>1. ASSUME NEW c \in Cos
        PROVE  /\ OnWheel(c)' \/ OnActive(c)' => Waits(c)' /\ OffStack(c)'
               /\ OnCond(c)' => wait'[c] = "cond"
               /\ wait'[c] # "no" => life'[c] = "started" /\ (OffStack(c)' \/ c = Top')
    <3>1. wait'[c] # "no" => Waits(c)' \/ wait'[c] = "hand"
      BY DEF Waits
    <3>2. OnCond(c) => Waits(c) /\ wait[c] = "cond"
      BY <1>1 DEF Placed, Waits
    <3> QED
      BY <1>1, <1>3, <3>1, <3>2 DEF Placed
  <2> QED
    BY <2>1 DEF Placed
<1>7. Polled'
  <2>1. \A c \in Cos : wait'[c] = "poll" <=> wait[c] = "poll"
    BY DEF Waits
  <2>2. \A fd \in Fds : interest[fd] # Null => interest[fd] \in Cos
    BY <1>1 DEF LoopTypes
  <2> QED
    BY <1>1, <1>2, <2>1, <2>2 DEF Polled
<1>8. \A c \in Cos : /\ Event(c)' <=> Event(c)
                     /\ Signal(c)' <=> Signal(c)
  <2>1. \A c \in Cos : /\ wait'[c] = "poll" <=> wait[c] = "poll"
                       /\ wait'[c] = "cond" <=> wait[c] = "cond"
    BY DEF Waits
  <2> QED
    BY <1>2, <1>3, <2>1 DEF Event, Signal
<1>9. Reasons'
  <2>1. \A c \in Cos : /\ wait'[c] = "poll" <=> wait[c] = "poll"
                       /\ detach[c] => Waits(c)
                       /\ bTimeout[c] => Waits(c)
    BY <1>1 DEF Waits, Reasons
  <2> QED
    BY <1>1, <1>2, <1>3, <1>8, <2>1 DEF Reasons
<1>10. NotLate'
  BY <1>1, <1>2 DEF NotLate, Distance, Slots
<1>11. NotEarly'
  BY DEF NotEarly
<1>12. SignalKept'
  <2>1. \A c \in Cos : Signal(c) => Waits(c)
    BY DEF Signal, Waits
  <2> QED
    BY <1>1, <1>2, <1>3, <1>8, <2>1 DEF SignalKept
<1> QED
  BY <1>4, <1>5, <1>6, <1>7, <1>9, <1>10, <1>11, <1>12 DEF IndInv, LoopInv

(* The clock, the descriptors, the loop between its walks, and the waits   *)
(* that the wheel refuses.                                                 *)
LEMMA Outside ==
  ASSUME IndInv, UNCHANGED <<coVars, wheel, active, cond, items, overtaken>>,
         now' \in 0..MaxNow, back' \in BOOLEAN, ready' \subseteq Fds, calls' \in Nat,
         interest' \in [Fds -> Cos \cup {Null}], UNCHANGED <<interest, contested>> \/ Polled',
         \/ UNCHANGED <<loop, loopNow>>
         \/ loop # "active" /\ loop' = "wait" /\ loopNow' = loopNow
         \/ loop' = "wait" /\ loopNow' = 0 /\ active = <<>> /\ Top = Main
  PROVE  IndInv'
<1>1. /\ LoopTypes /\ Linked /\ Placed /\ Polled /\ Reasons /\ NotLate /\ NotEarly /\ SignalKept
      /\ CoInv
  BY DEF IndInv, LoopInv
<1>2. /\ slots' = slots /\ start' = start
      /\ idx' = idx /\ active' = active /\ cond' = cond
      /\ overtaken' = overtaken /\ wait' = wait
      /\ pollFd' = pollFd /\ expire' = expire /\ bTimeout' = bTimeout /\ detach' = detach
      /\ callStack' = callStack /\ life' = life
  BY DEF coVars, items, wheel
<1>3. CoInv'
  BY <1>1 DEF CoInv, CoTypes, Resumed, Frames, coVars, Top, Shares
<1>4. \A c \in Cos : /\ OnWheel(c)' <=> OnWheel(c)
                     /\ OnActive(c)' <=> OnActive(c)
                     /\ OnCond(c)' <=> OnCond(c)
                     /\ Waits(c)' <=> Waits(c)
                     /\ OffStack(c)' <=> OffStack(c)
                     /\ Event(c)' <=> Event(c)
                     /\ Signal(c)' <=> Signal(c)
  BY <1>2 DEF OnWheel, OnActive, OnCond, Slots, Waits, OffStack, Event, Signal
<1>5. Top' = Top
  BY <1>2 DEF Top
<1>6. LoopTypes'
  BY <1>1, <1>2 DEF LoopTypes, Slots
<1>7. Linked'
  <2>1. \A c \in Cos : ~(OnWheel(c)' /\ OnActive(c)')
    BY <1>1, <1>4 DEF Linked
  <2> QED
    BY <1>1, <1>2, <2>1 DEF Linked, Slots
<1>8. Placed'
  BY <1>1, <1>2, <1>4, <1>5 DEF Placed
<1>9. Polled'
  BY <1>1, <1>2 DEF Polled
<1>10. NotLate'
  BY <1>1, <1>2 DEF NotLate, Distance, Slots
<1>11. SignalKept'
  BY <1>1, <1>2, <1>4, <1>5 DEF SignalKept
<1>12. Reasons' /\ NotEarly'
  <2>1. CASE UNCHANGED <<loop, loopNow>>
    BY <1>1, <1>2, <1>4, <1>5, <2>1 DEF Reasons, NotEarly
  <2>2. CASE loop # "active" /\ loop' = "wait" /\ loopNow' = loopNow
    BY <1>1, <1>2, <1>4, <1>5, <2>2 DEF Reasons, NotEarly
  <2>3. CASE loop' = "wait" /\ loopNow' = 0 /\ active = <<>> /\ Top = Main
    <3>1. \A c \in Cos : ~OnActive(c) /\ c # Top
      BY <1>1, <2>3, Apart, RangeOf DEF OnActive, Linked
    <3> QED
      BY <1>1, <1>2, <1>4, <1>5, <3>1 DEF Reasons, NotEarly
  <2> QED
    BY <2>1, <2>2, <2>3
<1> QED
  BY <1>3, <1>6, <1>7, <1>8, <1>9, <1>10, <1>11, <1>12 DEF IndInv, LoopInv

(* co_yield_ct by hand.                                                    *)
LEMMA YieldKeeps ==
  ASSUME IndInv, NEW c \in Cos, Yield(c)
  PROVE  IndInv'
<1>1. /\ LoopTypes /\ Placed /\ CoInv /\ CoTypes /\ Resumed
  BY DEF IndInv, LoopInv, CoInv
<1>2. /\ c = Top /\ wait[c] = "no" /\ calls' = calls + 1 /\ Back /\ UNCHANGED life
      /\ wait' = [wait EXCEPT ![c] = "hand"]
      /\ UNCHANGED <<pollFd, expire, bTimeout, detach>>
      /\ UNCHANGED <<world, wheel, active, cond, interest, loop, loopNow, history>>
  BY DEF Yield, Calls, Runs, co_yield_env, Others
<1>3. /\ CoInv' /\ Range(callStack') = Range(callStack) \ {c} /\ Top' \in Range(callStack')
  BY <1>1, <1>2, BackKeeps
<1>4. life'[c] = "started" /\ c \in Range(callStack)
  BY <1>1, <1>2, TopRuns DEF Resumed
<1>5. \A d \in Cos : Waits(d) => d # Top /\ OffStack(d) /\ life[d] = "started"
  BY <1>2, Idle DEF Waits
<1>6. /\ wait' \in [Cos -> {"no", "hand", "poll", "cond"}] /\ calls' \in Nat
      /\ wait'[c] = "hand" /\ \A d \in Cos \ {c} : wait'[d] = wait[d]
  BY <1>1, <1>2 DEF LoopTypes
<1>7. ASSUME NEW d \in Cos
      PROVE  /\ Waits(d)' <=> Waits(d)
             /\ Waits(d) => /\ wait'[d] = wait[d] /\ d # Top /\ d # Top'
                            /\ OffStack(d)' /\ life'[d] = "started"
             /\ wait'[d] = "hand" => life'[d] = "started" /\ (OffStack(d)' \/ d = Top')
  <2>1. Waits(d)' <=> Waits(d)
    BY <1>2, <1>6 DEF Waits
  <2>2. OffStack(d) \/ d = c => OffStack(d)'
    BY <1>3 DEF OffStack
  <2>3. OffStack(d) => d # Top'
    BY <1>3 DEF OffStack
  <2>4. wait'[d] = "hand" => d = c \/ (life[d] = "started" /\ OffStack(d))
    BY <1>1, <1>2, <1>6 DEF Placed
  <2>5. Waits(d) => d # c
    BY <1>2 DEF Waits
  <2> QED
    BY <1>2, <1>4, <1>5, <1>6, <2>1, <2>2, <2>3, <2>4, <2>5
<1> QED
  BY <1>2, <1>3, <1>6, <1>7, Untouched

(* A coroutine ends.                                                       *)
LEMMA EndKeeps ==
  ASSUME IndInv, NEW c \in Cos, End(c)
  PROVE  IndInv'
<1>1. /\ LoopTypes /\ Placed /\ CoInv /\ CoTypes /\ Resumed
  BY DEF IndInv, LoopInv, CoInv
<1>2. /\ c = Top /\ wait[c] = "no" /\ calls' = calls /\ Back
      /\ life' = [life EXCEPT ![c] = "ended"] /\ wait' = wait
      /\ UNCHANGED <<pollFd, expire, bTimeout, detach>>
      /\ UNCHANGED <<world, wheel, active, cond, interest, loop, loopNow, history>>
  BY DEF End, Runs, CoRoutineFunc, Others, items
<1>3. /\ CoInv' /\ Range(callStack') = Range(callStack) \ {c} /\ Top' \in Range(callStack')
  BY <1>1, <1>2, BackKeeps
<1>4. \A d \in Cos : Waits(d) => d # Top /\ OffStack(d) /\ life[d] = "started"
  BY <1>2, Idle DEF Waits
<1>5. \A d \in Cos : d # c => life'[d] = life[d]
  BY <1>1, <1>2, Apart DEF CoTypes
<1>6. ASSUME NEW d \in Cos
      PROVE  /\ Waits(d)' <=> Waits(d)
             /\ Waits(d) => /\ wait'[d] = wait[d] /\ d # Top /\ d # Top'
                            /\ OffStack(d)' /\ life'[d] = "started"
             /\ wait'[d] = "hand" => life'[d] = "started" /\ (OffStack(d)' \/ d = Top')
  <2>1. Waits(d)' <=> Waits(d)
    BY <1>2 DEF Waits
  <2>2. OffStack(d) => OffStack(d)' /\ d # Top'
    BY <1>3 DEF OffStack
  <2>3. wait[d] = "hand" => life[d] = "started" /\ OffStack(d)
    BY <1>1, <1>2 DEF Placed
  <2>4. wait[d] # "no" => d # c
    BY <1>2
  <2>5. Waits(d) => wait[d] # "no"
    BY DEF Waits
  <2> QED
    BY <1>2, <1>4, <1>5, <2>1, <2>2, <2>3, <2>4, <2>5
<1>7. wait' \in [Cos -> {"no", "hand", "poll", "cond"}] /\ calls' \in Nat
  BY <1>1, <1>2 DEF LoopTypes
<1> QED
  BY <1>2, <1>3, <1>6, <1>7, Untouched

(* The return from co_yield_ct.                                            *)
LEMMA YieldReturnKeeps ==
  ASSUME IndInv, NEW c \in Cos, YieldReturn(c)
  PROVE  IndInv'
<1>1. /\ LoopTypes /\ Placed /\ CoInv
  BY DEF IndInv, LoopInv
<1>2. /\ c = Top /\ wait[c] = "hand" /\ wait' = [wait EXCEPT ![c] = "no"] /\ calls' = calls
      /\ UNCHANGED coVars
      /\ UNCHANGED <<pollFd, expire, bTimeout, detach>>
      /\ UNCHANGED <<world, wheel, active, cond, interest, loop, loopNow, history>>
  BY DEF YieldReturn, Runs, Others
<1>3. CoInv' /\ callStack' = callStack /\ life' = life /\ Top' = Top
  BY <1>1, <1>2 DEF CoInv, CoTypes, Resumed, Frames, coVars, Top, Shares
<1>4. \A d \in Cos : Waits(d) => d # Top /\ OffStack(d) /\ life[d] = "started"
  BY <1>2, Idle DEF Waits
<1>5. /\ wait' \in [Cos -> {"no", "hand", "poll", "cond"}] /\ calls' \in Nat
      /\ wait'[c] = "no" /\ \A d \in Cos \ {c} : wait'[d] = wait[d]
  BY <1>1, <1>2 DEF LoopTypes
<1>6. ASSUME NEW d \in Cos
      PROVE  /\ Waits(d)' <=> Waits(d)
             /\ Waits(d) => /\ wait'[d] = wait[d] /\ d # Top /\ d # Top'
                            /\ OffStack(d)' /\ life'[d] = "started"
             /\ wait'[d] = "hand" => life'[d] = "started" /\ (OffStack(d)' \/ d = Top')
  <2>1. Waits(d)' <=> Waits(d)
    BY <1>2, <1>5 DEF Waits
  <2>2. OffStack(d)' <=> OffStack(d)
    BY <1>3 DEF OffStack
  <2>3. wait'[d] = "hand" => life[d] = "started" /\ OffStack(d)
    BY <1>1, <1>2, <1>5 DEF Placed
  <2> QED
    BY <1>2, <1>3, <1>4, <1>5, <2>1, <2>2, <2>3
<1> QED
  BY <1>2, <1>3, <1>5, <1>6, Untouched

(* Another coroutine is made, resumed, reset or freed.                     *)
LEMMA ManagedKeeps ==
  ASSUME IndInv, NEW c \in Members, c = Top, c \in Cos => wait[c] = "no", NEW d,
         Manage(c, d), calls' = calls + 1
  PROVE  IndInv'
<1>1. /\ LoopTypes /\ Placed /\ CoInv /\ CoTypes /\ Resumed
  BY DEF IndInv, LoopInv, CoInv
<1>2. /\ d \in Cos \ {c} /\ ~Contains(callStack, d)
      /\ \/ co_create(d)
         \/ life[d] = "made" /\ co_resume(d)
         \/ life[d] = "started" /\ wait[d] = "hand" /\ co_resume(d)
         \/ wait[d] \in {"no", "hand"} /\ (co_reset(d) \/ co_free(d))
      /\ wait' = [wait EXCEPT ![d] = IF life'[d] = "started" THEN @ ELSE "no"]
      /\ UNCHANGED <<pollFd, expire, bTimeout, detach>>
      /\ UNCHANGED <<world, wheel, active, cond, interest, loop, loopNow, history>>
  BY DEF Manage, Others
<1>3. d \in Cos /\ OffStack(d) /\ \A e \in Cos : wait[e] # "no" => life[e] = "started"
  BY <1>1, <1>2, RangeOf DEF CoTypes, OffStack, Placed
<1>4. \A e \in Cos : Waits(e) => e # Top /\ OffStack(e) /\ life[e] = "started"
  BY Idle DEF Waits
<1>5. /\ wait' \in [Cos -> {"no", "hand", "poll", "cond"}] /\ calls' \in Nat
      /\ wait'[d] = (IF life'[d] = "started" THEN wait[d] ELSE "no")
      /\ \A e \in Cos \ {d} : wait'[e] = wait[e]
  BY <1>1, <1>2 DEF LoopTypes
<1>6. CASE \/ life[d] = "made" /\ co_resume(d)
           \/ life[d] = "started" /\ wait[d] = "hand" /\ co_resume(d)
  <2>1. /\ CoInv' /\ Top' = d /\ Range(callStack') = Range(callStack) \cup {d}
        /\ life' = [life EXCEPT ![d] = "started"]
    BY <1>1, <1>3, <1>6, ResumeKeeps
  <2>2. \A e \in Cos : life'[e] = IF e = d THEN "started" ELSE life[e]
    BY <1>1, <2>1, Apart DEF CoTypes
  <2>3. wait[d] \in {"no", "hand"}
    BY <1>1, <1>3, <1>6 DEF LoopTypes
  <2>4. ASSUME NEW e \in Cos
        PROVE  /\ Waits(e)' <=> Waits(e)
               /\ Waits(e) => /\ wait'[e] = wait[e] /\ e # Top /\ e # Top'
                              /\ OffStack(e)' /\ life'[e] = "started"
               /\ wait'[e] = "hand" => life'[e] = "started" /\ (OffStack(e)' \/ e = Top')
    <3>1. wait'[e] = wait[e]
      BY <1>5, <2>2
    <3>2. (Waits(e)' <=> Waits(e)) /\ (Waits(e) => e # d)
      BY <2>3, <3>1 DEF Waits
    <3>3. e # d => (OffStack(e)' <=> OffStack(e))
      BY <2>1 DEF OffStack
    <3>4. wait[e] = "hand" => life[e] = "started" /\ OffStack(e)
      BY <1>1 DEF Placed
    <3> QED
      BY <1>4, <2>1, <2>2, <3>1, <3>2, <3>3, <3>4
  <2> QED
    BY <1>2, <1>5, <2>1, <2>4, Untouched
<1>7. CASE co_create(d) \/ (wait[d] \in {"no", "hand"} /\ (co_reset(d) \/ co_free(d)))
  <2>1. /\ CoInv' /\ callStack' = callStack /\ life'[d] # "started"
        /\ \A e \in Cos \ {d} : life'[e] = life[e]
    BY <1>1, <1>3, <1>7, ManageKeeps
  <2>2. wait[d] \in {"no", "hand"}
    <3>1. CASE co_create(d)
      <4>1. life[d] = "none"
        BY <3>1 DEF co_create
      <4> QED
        BY <1>3, <4>1
    <3> QED
      BY <1>7, <3>1
  <2>3. Top' = Top /\ \A e \in Cos : OffStack(e)' <=> OffStack(e)
    BY <2>1 DEF Top, OffStack
  <2>4. wait'[d] = "no"
    BY <1>5, <2>1
  <2>5. ASSUME NEW e \in Cos
        PROVE  /\ Waits(e)' <=> Waits(e)
               /\ Waits(e) => /\ wait'[e] = wait[e] /\ e # Top /\ e # Top'
                              /\ OffStack(e)' /\ life'[e] = "started"
               /\ wait'[e] = "hand" => life'[e] = "started" /\ (OffStack(e)' \/ e = Top')
    <3>1. (Waits(e)' <=> Waits(e)) /\ (Waits(e) => e # d)
      BY <1>5, <2>2, <2>4 DEF Waits
    <3>2. wait'[e] = "hand" => e # d /\ wait[e] = "hand"
      BY <1>5, <2>4
    <3>3. wait[e] = "hand" => life[e] = "started" /\ OffStack(e)
      BY <1>1 DEF Placed
    <3> QED
      BY <1>4, <1>5, <2>1, <2>3, <3>1, <3>2, <3>3
  <2> QED
    BY <1>2, <1>5, <2>1, <2>5, Untouched
<1> QED
  BY <1>2, <1>6, <1>7
-----------------------------------------------------------------------------
(* A wait begins.                                                          *)
LEMMA Suspended ==
  ASSUME IndInv, NEW c \in Cos, c = Top, wait[c] = "no", Back, UNCHANGED life,
         NEW w \in {"poll", "cond"}, wait' = [wait EXCEPT ![c] = w],
         NEW deadline \in Nat, deadline >= start,
         AddTimeout(c, deadline) \/ UNCHANGED wheel,
         expire' = [expire EXCEPT ![c] = deadline],
         UNCHANGED <<bTimeout, detach, active, loop, loopNow, overtaken>>,
         \/ w = "poll" /\ cond' = cond
         \/ w = "cond" /\ cond' = Append(cond, c),
         LoopTypes', Polled'
  PROVE  IndInv'
<1>1. /\ LoopTypes /\ Linked /\ Placed /\ Polled /\ Reasons /\ NotLate /\ NotEarly /\ SignalKept
      /\ CoInv /\ CoTypes /\ Resumed
  BY DEF IndInv, LoopInv, CoInv
<1>2. /\ CoInv' /\ Range(callStack') = Range(callStack) \ {c} /\ Top' \in Range(callStack')
      /\ life'[c] = "started"
  BY <1>1, BackKeeps, TopRuns DEF Resumed
<1>3. ~OnWheel(c) /\ ~OnActive(c) /\ ~OnCond(c) /\ ~detach[c] /\ ~bTimeout[c]
  BY <1>1 DEF Placed, Waits, Reasons
<1>4. \A d \in Cos : Waits(d) => d # Top /\ OffStack(d) /\ life[d] = "started"
  BY Idle DEF Waits
<1>5. /\ slots' \in [Slots -> Seq(Cos)] /\ start' = start /\ idx' = idx
      /\ \A i \in Slots : IsInjective(slots'[i])
      /\ \A i \in Slots : \A d \in Range(slots'[i]) :
           d \in Range(slots[i]) \/ (d = c /\ start + Distance(i) <= deadline)
      /\ \A d \in Cos, i, j \in Slots :
           d \in Range(slots'[i]) /\ d \in Range(slots'[j]) => i = j
      /\ \A d \in Cos : OnWheel(d)' => OnWheel(d) \/ d = c
  <2>1. CASE AddTimeout(c, deadline)
    BY <1>1, <1>3, <2>1, Added
  <2>2. CASE UNCHANGED wheel
    <3>1. slots' = slots /\ start' = start /\ idx' = idx
      BY <2>2 DEF wheel
    <3>2. \A d \in Cos : OnWheel(d)' <=> OnWheel(d)
      BY <3>1 DEF OnWheel, Slots
    <3> QED
      BY <1>1, <3>1, <3>2 DEF Linked
  <2> QED
    BY <2>1, <2>2
<1>6. /\ cond' \in Seq(Cos) /\ IsInjective(cond')
      /\ \A d \in Cos : d # c => (OnCond(d)' <=> OnCond(d))
      /\ OnCond(c)' <=> w = "cond"
  <2>1. CASE w = "poll" /\ cond' = cond
    BY <1>1, <1>3, <2>1 DEF Linked, OnCond
  <2>2. CASE w = "cond" /\ cond' = Append(cond, c)
    <3>1. /\ Append(cond, c) \in Seq(Cos) /\ Range(Append(cond, c)) = Range(cond) \cup {c}
          /\ IsInjective(Append(cond, c))
      BY <1>1, <1>3, Appended DEF Linked, OnCond
    <3> QED
      BY <2>2, <3>1 DEF OnCond
  <2> QED
    BY <2>1, <2>2
<1>7. \A d \in Cos : OnActive(d)' <=> OnActive(d)
  BY DEF OnActive
<1>8. wait'[c] = w /\ expire'[c] = deadline
      /\ \A d \in Cos : d # c => wait'[d] = wait[d] /\ expire'[d] = expire[d]
  BY <1>1 DEF LoopTypes
<1>9. /\ \A d \in Cos : d # c => (OffStack(d)' <=> OffStack(d)) /\ (Waits(d)' <=> Waits(d))
      /\ OffStack(c)' /\ Waits(c)'
  BY <1>2, <1>8 DEF OffStack, Waits
<1>10. \A d \in Cos : Waits(d)' => d # Top'
  BY <1>2, <1>4, <1>9 DEF OffStack
<1>11. \A d \in Cos : d # c => (Event(d)' <=> Event(d)) /\ (Signal(d)' <=> Signal(d))
  BY <1>6, <1>8 DEF Event, Signal
<1>12. ~Signal(c)'
  BY <1>6, <1>8 DEF Signal
<1>13. Linked'
  <2>1. \A d \in Cos : ~(OnWheel(d)' /\ OnActive(d)')
    BY <1>1, <1>3, <1>5, <1>7 DEF Linked
  <2>2. active' \in Seq(Cos) /\ IsInjective(active')
    BY <1>1 DEF Linked
  <2> QED
    BY <1>5, <1>6, <2>1, <2>2 DEF Linked, Slots
<1>14. Placed'
  <2>1. ASSUME NEW d \in Cos, d # c
        PROVE  /\ OnWheel(d)' \/ OnActive(d)' => Waits(d)' /\ OffStack(d)'
               /\ OnCond(d)' => wait'[d] = "cond"
               /\ wait'[d] # "no" => life'[d] = "started" /\ (OffStack(d)' \/ d = Top')
    BY <1>1, <1>5, <1>6, <1>7, <1>8, <1>9, <2>1 DEF Placed
  <2>2. OnCond(c)' => wait'[c] = "cond"
    BY <1>6, <1>8
  <2> QED
    BY <1>2, <1>9, <2>1, <2>2 DEF Placed
<1>15. Reasons'
  <2>1. ASSUME NEW d \in Cos, d # c
        PROVE  /\ detach[d] => wait'[d] = "poll" /\ ~bTimeout[d] /\ OnActive(d)
               /\ bTimeout[d] => Waits(d)' /\ OnActive(d)
               /\ OnActive(d) =>
                    /\ loop # "active" => Signal(d)' /\ ~bTimeout[d]
                    /\ Event(d)' \/ Signal(d)' \/ (bTimeout[d] /\ loopNow >= start)
                    /\ Signal(d)' /\ bTimeout[d] => d \in overtaken \/ loopNow >= expire'[d]
    BY <1>1, <1>8, <1>9, <1>11, <2>1 DEF Reasons
  <2>2. /\ detach' = detach /\ bTimeout' = bTimeout /\ loop' = loop /\ loopNow' = loopNow
        /\ overtaken' = overtaken /\ start' = start
    BY <1>5
  <2> QED
    BY <1>3, <1>7, <2>1, <2>2 DEF Reasons
<1>16. NotLate'
  <2>1. ASSUME NEW i \in Slots, NEW d \in Range(slots'[i])
        PROVE  start + Distance(i) <= expire'[d]
    <3>1. CASE d \in Range(slots[i])
      <4>1. d \in Cos /\ OnWheel(d)
        BY <1>1, <3>1, RangeOf DEF Linked, OnWheel
      <4>2. d # c
        BY <1>3, <4>1
      <4> QED
        BY <1>1, <1>8, <3>1, <4>1, <4>2 DEF NotLate
    <3> QED
      BY <1>5, <1>8, <2>1, <3>1
  <2> QED
    BY <1>5, <2>1 DEF NotLate, Slots, Distance
<1>17. NotEarly'
  BY <1>10 DEF NotEarly
<1>18. SignalKept'
  <2>1. \A d \in Cos : Signal(d)' => Signal(d) /\ d # Top
    BY <1>11, <1>12
  <2> QED
    BY <1>1, <1>7, <2>1 DEF SignalKept
<1> QED
  BY <1>2, <1>13, <1>14, <1>15, <1>16, <1>17, <1>18 DEF IndInv, LoopInv

(* The deadlines of the waits that are accepted.                           *)
LEMMA Deadlines ==
  ASSUME LoopTypes, Accepts(now), NEW ms \in Timeouts
  PROVE  Deadline(ms) \in Nat /\ Deadline(ms) >= start
<1>1. /\ now \in Nat /\ start \in Nat /\ now >= start /\ now <= MaxNow /\ ms \in Nat
      /\ MaxNow \in Nat /\ WheelSize \in Nat
  BY LoopAssumption DEF LoopTypes, Accepts
<1> QED
  BY <1>1 DEF Deadline, Never

(* co_poll_inner up to its yield, accepted or not.                         *)
LEMMA PollKeeps ==
  ASSUME IndInv, NEW c \in Cos, NEW fd \in Fds, NEW ms \in Timeouts, Poll(c, fd, ms)
  PROVE  IndInv'
<1>1. /\ LoopTypes /\ Polled /\ Placed
  BY DEF IndInv, LoopInv
<1>2. /\ c = Top /\ wait[c] = "no" /\ calls' = calls + 1
      /\ contested' = IF interest[fd] # Null THEN contested \cup {fd} ELSE contested
      /\ UNCHANGED <<world, active, cond, loop, loopNow, overtaken>>
  BY DEF Poll, Calls, Runs
<1>3. /\ interest \in [Fds -> Cos \cup {Null}] /\ Null \notin Cos
      /\ pollFd \in [Cos -> Fds \cup {Null}] /\ wait \in [Cos -> {"no", "hand", "poll", "cond"}]
      /\ fd \in contested' <=> fd \in contested \/ interest[fd] # Null
      /\ \A g \in Fds : g \in contested => g \in contested'
  BY <1>1, <1>2, Apart DEF LoopTypes
<1>4. CASE ~Accepts(now)
  <2>1. /\ interest' = [interest EXCEPT ![fd] = Null]
        /\ UNCHANGED <<wheel, items, coVars>>
    BY <1>4 DEF Poll
  <2>2. /\ interest' \in [Fds -> Cos \cup {Null}] /\ interest'[fd] = Null
        /\ \A g \in Fds \ {fd} : interest'[g] = interest[g]
        /\ wait' = wait /\ pollFd' = pollFd
    BY <1>3, <2>1 DEF items
  <2>3. Polled'
    <3>1. ASSUME NEW d \in Cos, wait[d] = "poll"
          PROVE  interest'[pollFd[d]] = d \/ pollFd[d] \in contested'
      <4>1. pollFd[d] \in Fds /\ (interest[pollFd[d]] = d \/ pollFd[d] \in contested)
        BY <1>1, <3>1 DEF Polled
      <4>2. CASE pollFd[d] # fd
        BY <1>3, <2>2, <4>1, <4>2
      <4>3. CASE pollFd[d] = fd
        BY <1>3, <4>1, <4>3
      <4> QED
        BY <4>2, <4>3
    <3> QED
      BY <1>1, <2>2, <3>1 DEF Polled
  <2>4. /\ now' \in 0..MaxNow /\ back' \in BOOLEAN /\ ready' \subseteq Fds /\ calls' \in Nat
        /\ UNCHANGED <<loop, loopNow>>
    BY <1>1, <1>2 DEF LoopTypes, world
  <2> QED
    BY <1>2, <2>1, <2>2, <2>3, <2>4, Outside
<1>5. CASE Accepts(now)
  <2> DEFINE deadline == Deadline(ms)
  <2>1. /\ interest' = IF interest[fd] = Null THEN [interest EXCEPT ![fd] = c] ELSE interest
        /\ AddTimeout(c, deadline)
        /\ wait' = [wait EXCEPT ![c] = "poll"]
        /\ pollFd' = [pollFd EXCEPT ![c] = fd]
        /\ expire' = [expire EXCEPT ![c] = deadline]
        /\ UNCHANGED <<bTimeout, detach>> /\ Back /\ UNCHANGED life
    BY <1>5 DEF Poll, co_yield_env
  <2>2. deadline \in Nat /\ deadline >= start
    BY <1>1, <1>5, Deadlines
  <2> HIDE DEF deadline
  <2>3. /\ interest' \in [Fds -> Cos \cup {Null}]
        /\ interest'[fd] = IF interest[fd] = Null THEN c ELSE interest[fd]
        /\ \A g \in Fds \ {fd} : interest'[g] = interest[g]
    BY <1>3, <2>1
  <2>4. /\ pollFd' \in [Cos -> Fds \cup {Null}] /\ wait' \in [Cos -> {"no", "hand", "poll", "cond"}]
        /\ wait'[c] = "poll" /\ pollFd'[c] = fd
        /\ \A d \in Cos \ {c} : wait'[d] = wait[d] /\ pollFd'[d] = pollFd[d]
    BY <1>3, <2>1
  <2>5. Polled'
    <3>1. ASSUME NEW d \in Cos, wait'[d] = "poll"
          PROVE  /\ pollFd'[d] \in Fds
                 /\ interest'[pollFd'[d]] = d \/ pollFd'[d] \in contested'
      <4>1. CASE d = c
        BY <1>3, <2>3, <2>4, <4>1
      <4>2. CASE d # c
        <5>1. /\ pollFd'[d] = pollFd[d] /\ pollFd[d] \in Fds
              /\ interest[pollFd[d]] = d \/ pollFd[d] \in contested
          BY <1>1, <2>4, <3>1, <4>2 DEF Polled
        <5>2. interest'[pollFd[d]] = interest[pollFd[d]] \/ interest[pollFd[d]] = Null
          BY <2>3, <5>1
        <5> QED
          BY <1>3, <5>1, <5>2
      <4> QED
        BY <4>1, <4>2
    <3>2. ASSUME NEW g \in Fds, interest'[g] # Null
          PROVE  wait'[interest'[g]] = "poll" /\ pollFd'[interest'[g]] = g
      <4>1. CASE interest'[g] = interest[g]
        <5>1. /\ interest[g] \in Cos /\ wait[interest[g]] = "poll"
              /\ pollFd[interest[g]] = g
          BY <1>1, <1>3, <3>2, <4>1 DEF Polled
        <5>2. interest[g] # c
          BY <1>2, <5>1
        <5> QED
          BY <2>4, <4>1, <5>1, <5>2
      <4>2. CASE interest'[g] # interest[g]
        <5>1. g = fd /\ interest'[g] = c
          BY <2>3, <4>2
        <5> QED
          BY <2>4, <5>1
      <4> QED
        BY <4>1, <4>2
    <3> QED
      BY <3>1, <3>2 DEF Polled
  <2>6. LoopTypes'
    <3>1. expire' \in [Cos -> Nat] /\ start' = start /\ idx' = idx
      BY <1>1, <2>1, <2>2 DEF LoopTypes, AddTimeout
    <3> QED
      BY <1>1, <1>2, <2>1, <2>3, <2>4, <3>1 DEF LoopTypes, world, Slots
  <2> QED
    BY <1>2, <2>1, <2>2, <2>5, <2>6, Suspended
<1> QED
  BY <1>4, <1>5

(* co_cond_timedwait up to its yield, accepted or not.                     *)
LEMMA CondWaitKeeps ==
  ASSUME IndInv, NEW c \in Cos, NEW ms \in Timeouts, CondWait(c, ms)
  PROVE  IndInv'
<1>1. /\ LoopTypes /\ Polled /\ Placed
  BY DEF IndInv, LoopInv
<1>2. /\ c = Top /\ wait[c] = "no" /\ calls' = calls + 1
      /\ UNCHANGED <<world, active, interest, loop, loopNow, contested, overtaken>>
  BY DEF CondWait, Calls, Runs
<1>3. CASE ms > 0 /\ ~Accepts(now)
  <2>1. UNCHANGED <<wheel, cond, items, coVars>>
    BY <1>3 DEF CondWait
  <2>2. /\ now' \in 0..MaxNow /\ back' \in BOOLEAN /\ ready' \subseteq Fds /\ calls' \in Nat
        /\ interest' \in [Fds -> Cos \cup {Null}]
        /\ UNCHANGED <<loop, loopNow>> /\ UNCHANGED <<interest, contested>>
    BY <1>1, <1>2 DEF LoopTypes, world
  <2> QED
    BY <1>2, <2>1, <2>2, Outside
<1>4. CASE ~(ms > 0 /\ ~Accepts(now))
  <2> DEFINE deadline == Deadline(ms)
  <2>1. /\ AddTimeout(c, deadline) \/ UNCHANGED wheel
        /\ cond' = Append(cond, c)
        /\ wait' = [wait EXCEPT ![c] = "cond"]
        /\ expire' = [expire EXCEPT ![c] = deadline]
        /\ UNCHANGED <<pollFd, bTimeout, detach>> /\ Back /\ UNCHANGED life
    BY <1>4 DEF CondWait, co_yield_env
  <2>2. deadline \in Nat /\ deadline >= start
    <3>1. CASE Accepts(now)
      BY <1>1, <3>1, Deadlines
    <3>2. CASE ~Accepts(now)
      <4>1. /\ start \in 0..MaxNow /\ MaxNow \in Nat /\ WheelSize \in Nat
            /\ ms \in Nat
        BY <1>1, LoopAssumption DEF LoopTypes
      <4>2. ms = 0
        BY <1>4, <3>2, <4>1
      <4> QED
        BY <4>1, <4>2 DEF Deadline, Never
    <3> QED
      BY <3>1, <3>2
  <2> HIDE DEF deadline
  <2>3. /\ wait' \in [Cos -> {"no", "hand", "poll", "cond"}] /\ wait'[c] = "cond"
        /\ \A d \in Cos \ {c} : wait'[d] = wait[d]
    BY <1>1, <2>1 DEF LoopTypes
  <2>4. Polled'
    <3>1. \A d \in Cos : wait'[d] = "poll" <=> wait[d] = "poll"
      BY <1>2, <2>3
    <3>2. \A g \in Fds : interest[g] # Null => interest[g] \in Cos
      BY <1>1 DEF LoopTypes
    <3>3. pollFd' = pollFd /\ interest' = interest /\ contested' = contested
      BY <1>2, <2>1
    <3> QED
      BY <1>1, <3>1, <3>2, <3>3 DEF Polled
  <2>5. LoopTypes'
    <3>1. expire' \in [Cos -> Nat] /\ start' = start /\ idx' = idx
      BY <1>1, <2>1, <2>2 DEF LoopTypes, AddTimeout, wheel
    <3> QED
      BY <1>1, <1>2, <2>1, <2>3, <3>1 DEF LoopTypes, world, Slots
  <2> QED
    BY <1>2, <2>1, <2>2, <2>4, <2>5, Suspended
<1> QED
  BY <1>3, <1>4

(* A wait returns.                                                         *)
LEMMA Returned ==
  ASSUME IndInv, NEW c \in Cos, c = Top, Waits(c), UNCHANGED coVars, Freed(c),
         UNCHANGED <<world, start, idx, loop, loopNow, calls, contested>>,
         UNCHANGED slots \/ slots' = Unlinked({c}),
         UNCHANGED active \/ active' = Without(active, {c}),
         \/ wait[c] = "poll" /\ UNCHANGED cond
         \/ wait[c] = "cond" /\ cond' = Without(cond, {c}),
         overtaken \ {c} \subseteq overtaken',
         interest' \in [Fds -> Cos \cup {Null}], Polled'
  PROVE  IndInv'
<1>1. /\ LoopTypes /\ Linked /\ Placed /\ Polled /\ Reasons /\ NotLate /\ NotEarly /\ SignalKept
      /\ CoInv /\ CoTypes /\ Resumed
  BY DEF IndInv, LoopInv, CoInv
<1>2. CoInv' /\ callStack' = callStack /\ life' = life /\ Top' = Top
  BY <1>1 DEF CoInv, CoTypes, Resumed, Frames, coVars, Top, Shares
<1>3. ~OnWheel(c) /\ ~OnActive(c) /\ ~OffStack(c) /\ (OnCond(c) => wait[c] = "cond")
  BY <1>1, TopRuns DEF Placed, OffStack
<1>4. /\ wait' \in [Cos -> {"no", "hand", "poll", "cond"}]
      /\ pollFd' \in [Cos -> Fds \cup {Null}] /\ expire' \in [Cos -> Nat]
      /\ bTimeout' \in [Cos -> BOOLEAN] /\ detach' \in [Cos -> BOOLEAN]
      /\ wait'[c] = "no" /\ ~bTimeout'[c] /\ ~detach'[c]
      /\ \A d \in Cos \ {c} : /\ wait'[d] = wait[d] /\ expire'[d] = expire[d]
                              /\ bTimeout'[d] = bTimeout[d] /\ detach'[d] = detach[d]
  BY <1>1 DEF LoopTypes, Freed
<1>5. /\ slots' \in [Slots -> Seq(Cos)]
      /\ \A i \in Slots : IsInjective(slots'[i]) /\ Range(slots'[i]) \subseteq Range(slots[i])
      /\ \A i \in Slots : \A d \in Range(slots'[i]) : d \in Cos /\ d # c
  <2>1. \A i \in Slots : Range(slots[i]) \subseteq Cos /\ c \notin Range(slots[i])
    BY <1>1, <1>3, RangeOf DEF Linked, OnWheel
  <2>2. CASE UNCHANGED slots
    BY <1>1, <2>1, <2>2 DEF Linked
  <2>3. CASE slots' = Unlinked({c})
    <3>1. /\ slots' \in [Slots -> Seq(Cos)]
          /\ \A i \in Slots : IsInjective(slots'[i]) /\ Range(slots'[i]) = Range(slots[i]) \ {c}
      BY <1>1, <2>3, Kept
    <3> QED
      BY <2>1, <3>1
  <2> QED
    BY <2>2, <2>3
<1>6. /\ active' \in Seq(Cos) /\ IsInjective(active')
      /\ \A d \in Cos : OnActive(d)' <=> OnActive(d)
  <2>1. CASE UNCHANGED active
    BY <1>1, <2>1 DEF Linked, OnActive
  <2>2. CASE active' = Without(active, {c})
    <3>1. /\ active' \in Seq(Cos) /\ IsInjective(active')
          /\ Range(active') = Range(active) \ {c}
      BY <1>1, <2>2, Filtered DEF Linked
    <3> QED
      BY <1>3, <3>1 DEF OnActive
  <2> QED
    BY <2>1, <2>2
<1>7. /\ cond' \in Seq(Cos) /\ IsInjective(cond') /\ ~OnCond(c)'
      /\ \A d \in Cos : d # c => (OnCond(d)' <=> OnCond(d))
  <2>1. CASE wait[c] = "poll" /\ UNCHANGED cond
    BY <1>1, <1>3, <2>1 DEF Linked, OnCond
  <2>2. CASE wait[c] = "cond" /\ cond' = Without(cond, {c})
    <3>1. /\ cond' \in Seq(Cos) /\ IsInjective(cond') /\ Range(cond') = Range(cond) \ {c}
      BY <1>1, <2>2, Filtered DEF Linked
    <3> QED
      BY <3>1 DEF OnCond
  <2> QED
    BY <2>1, <2>2
<1>8. /\ now' = now /\ back' = back /\ ready' = ready /\ start' = start /\ idx' = idx
      /\ loop' = loop /\ loopNow' = loopNow /\ calls' = calls /\ contested' = contested
  BY DEF world
<1>9. \A d \in Cos : OnWheel(d)' => OnWheel(d) /\ d # c
  BY <1>5 DEF OnWheel, Slots
<1>10. \A d \in Cos : /\ OffStack(d)' <=> OffStack(d)
                      /\ Waits(d)' <=> Waits(d) /\ d # c
                      /\ d # c => (Event(d)' <=> Event(d)) /\ (Signal(d)' <=> Signal(d))
  BY <1>2, <1>4, <1>7 DEF OffStack, Waits, Event, Signal
<1>11. LoopTypes'
  BY <1>1, <1>4, <1>8 DEF LoopTypes, Slots
<1>12. Linked'
  <2>1. \A d \in Cos : ~(OnWheel(d)' /\ OnActive(d)')
    BY <1>1, <1>6, <1>9 DEF Linked
  <2>2. \A d \in Cos, i, j \in Slots :
          d \in Range(slots'[i]) /\ d \in Range(slots'[j]) => i = j
    BY <1>1, <1>5 DEF Linked
  <2> QED
    BY <1>5, <1>6, <1>7, <2>1, <2>2 DEF Linked, Slots
<1>13. Placed'
  <2>1. ASSUME NEW d \in Cos
        PROVE  /\ OnWheel(d)' \/ OnActive(d)' => Waits(d)' /\ OffStack(d)'
               /\ OnCond(d)' => wait'[d] = "cond"
               /\ wait'[d] # "no" => life'[d] = "started" /\ (OffStack(d)' \/ d = Top')
    BY <1>1, <1>2, <1>3, <1>4, <1>6, <1>7, <1>9, <1>10 DEF Placed
  <2> QED
    BY <2>1 DEF Placed
<1>14. Reasons'
  <2>1. ASSUME NEW d \in Cos
        PROVE  /\ detach'[d] => wait'[d] = "poll" /\ ~bTimeout'[d] /\ (OnActive(d)' \/ d = Top')
               /\ bTimeout'[d] => Waits(d)' /\ (OnActive(d)' \/ d = Top')
               /\ OnActive(d)' =>
                    /\ loop # "active" => Signal(d)' /\ ~bTimeout'[d]
                    /\ Event(d)' \/ Signal(d)' \/ (bTimeout'[d] /\ loopNow >= start)
                    /\ Signal(d)' /\ bTimeout'[d] =>
                         d \in overtaken' \/ loopNow >= expire'[d]
    <3>1. CASE d = c
      BY <1>3, <1>4, <1>6, <3>1
    <3>2. CASE d # c
      BY <1>1, <1>2, <1>4, <1>6, <1>10, <3>2 DEF Reasons
    <3> QED
      BY <3>1, <3>2
  <2> QED
    BY <1>8, <2>1 DEF Reasons
<1>15. NotLate'
  <2>1. \A i \in Slots : \A d \in Range(slots'[i]) : start + Distance(i) <= expire'[d]
    BY <1>1, <1>4, <1>5 DEF NotLate
  <2> QED
    BY <1>8, <2>1 DEF NotLate, Slots, Distance
<1>16. NotEarly'
  BY <1>2, <1>10 DEF NotEarly
<1>17. SignalKept'
  BY <1>1, <1>2, <1>6, <1>10 DEF SignalKept
<1> QED
  BY <1>2, <1>11, <1>12, <1>13, <1>14, <1>15, <1>16, <1>17 DEF IndInv, LoopInv

(* co_poll_inner after its yield.                                          *)
LEMMA PollReturnKeeps ==
  ASSUME IndInv, NEW c \in Cos, PollReturn(c)
  PROVE  IndInv'
<1>1. /\ LoopTypes /\ Polled
  BY DEF IndInv, LoopInv
<1>2. /\ c = Top /\ wait[c] = "poll" /\ Freed(c)
      /\ slots' = Unlinked({c}) /\ active' = Without(active, {c})
      /\ interest' = [interest EXCEPT ![pollFd[c]] = Null]
      /\ UNCHANGED <<coVars, world, start, idx, cond, loop, loopNow, calls, history>>
  BY DEF PollReturn, Runs
<1>3. contested' = contested /\ overtaken' = overtaken
  BY <1>2 DEF history
<1>4. /\ pollFd[c] \in Fds /\ interest' \in [Fds -> Cos \cup {Null}]
      /\ interest'[pollFd[c]] = Null
      /\ \A g \in Fds : g # pollFd[c] => interest'[g] = interest[g]
  BY <1>1, <1>2, Apart DEF LoopTypes, Polled
<1>5. \A d \in Cos \ {c} : wait'[d] = wait[d] /\ pollFd'[d] = pollFd[d]
  BY <1>1, <1>2 DEF LoopTypes, Freed
<1>6. wait'[c] = "no"
  BY <1>1, <1>2 DEF LoopTypes, Freed
<1>7. Polled'
  <2>1. ASSUME NEW d \in Cos, wait'[d] = "poll"
        PROVE  /\ pollFd'[d] \in Fds
               /\ interest'[pollFd'[d]] = d \/ pollFd'[d] \in contested'
    <3>1. d # c /\ wait[d] = "poll" /\ pollFd'[d] = pollFd[d]
      BY <1>5, <1>6, <2>1
    <3>2. /\ pollFd[d] \in Fds /\ (interest[pollFd[d]] = d \/ pollFd[d] \in contested)
          /\ interest[pollFd[c]] = c \/ pollFd[c] \in contested
      BY <1>1, <1>2, <3>1 DEF Polled
    <3> QED
      BY <1>3, <1>4, <3>1, <3>2
  <2>2. ASSUME NEW g \in Fds, interest'[g] # Null
        PROVE  wait'[interest'[g]] = "poll" /\ pollFd'[interest'[g]] = g
    <3>1. g # pollFd[c] /\ interest'[g] = interest[g]
      BY <1>4, <2>2
    <3>2. interest[g] \in Cos /\ wait[interest[g]] = "poll" /\ pollFd[interest[g]] = g
      BY <1>1, <2>2, <3>1 DEF Polled, LoopTypes
    <3> QED
      BY <1>5, <3>1, <3>2
  <2> QED
    BY <2>1, <2>2 DEF Polled
<1>8. UNCHANGED <<world, start, idx, loop, loopNow, calls, contested>>
  BY <1>2, <1>3
<1> QED
  BY <1>2, <1>3, <1>4, <1>7, <1>8, Returned DEF Waits

(* co_cond_timedwait after its yield.                                      *)
LEMMA CondReturnKeeps ==
  ASSUME IndInv, NEW c \in Cos, CondReturn(c)
  PROVE  IndInv'
<1>1. /\ LoopTypes /\ Polled
  BY DEF IndInv, LoopInv
<1>2. /\ c = Top /\ wait[c] = "cond" /\ Freed(c)
      /\ cond' = Without(cond, {c}) /\ overtaken' = overtaken \ {c}
      /\ UNCHANGED <<coVars, world, wheel, active, interest, loop, loopNow, calls, contested>>
  BY DEF CondReturn, Runs
<1>3. /\ wait'[c] = "no"
      /\ \A d \in Cos \ {c} : wait'[d] = wait[d] /\ pollFd'[d] = pollFd[d]
  BY <1>1, <1>2 DEF LoopTypes, Freed
<1>4. \A d \in Cos : wait'[d] = "poll" <=> wait[d] = "poll"
  BY <1>2, <1>3
<1>5. \A g \in Fds : interest[g] # Null => interest[g] \in Cos \ {c}
  BY <1>1, <1>2 DEF LoopTypes, Polled
<1>6. Polled'
  BY <1>1, <1>2, <1>3, <1>4, <1>5 DEF Polled
<1>7. /\ UNCHANGED <<world, start, idx, loop, loopNow, calls, contested>> /\ UNCHANGED slots
      /\ interest' \in [Fds -> Cos \cup {Null}]
  BY <1>1, <1>2 DEF wheel, LoopTypes
<1> QED
  BY <1>2, <1>6, <1>7, Returned DEF Waits

(* The first waiters are woken.                                            *)
LEMMA WakeKeeps ==
  ASSUME IndInv, NEW c \in Cos, Calls(c), NEW woken \in Seq(Cos), Len(woken) <= Len(cond),
         \A i \in 1..Len(woken) : woken[i] = cond[i], Wake(woken),
         UNCHANGED <<coVars, world, start, idx, items, interest, loop, loopNow, contested>>
  PROVE  IndInv'
<1> DEFINE W == Range(woken)
<1>1. /\ LoopTypes /\ Linked /\ Placed /\ Polled /\ Reasons /\ NotLate /\ NotEarly /\ SignalKept
      /\ CoInv
  BY DEF IndInv, LoopInv
<1>2. c = Top /\ wait[c] = "no" /\ calls' = calls + 1
  BY DEF Calls, Runs
<1>3. CoInv' /\ callStack' = callStack /\ life' = life /\ Top' = Top
  BY <1>1 DEF CoInv, CoTypes, Resumed, Frames, coVars, Top, Shares
<1>4. /\ cond' \in Seq(Cos) /\ IsInjective(cond') /\ Range(cond') = Range(cond) \ W
      /\ IsInjective(woken) /\ W \subseteq Range(cond)
  <2>1. cond \in Seq(Cos) /\ IsInjective(cond)
    BY <1>1 DEF Linked
  <2>2. cond' = SubSeq(cond, Len(woken) + 1, Len(cond))
    BY DEF Wake
  <2>3. W \subseteq Range(cond)
    <3>1. /\ Len(woken) \in Nat /\ Len(cond) \in Nat
          /\ W = {woken[i] : i \in 1..Len(woken)} /\ Range(cond) = {cond[i] : i \in 1..Len(cond)}
      BY <2>1, RangeOf
    <3> QED
      BY <3>1
  <2> QED
    BY <2>1, <2>2, <2>3, Rest
<1>5. /\ slots' \in [Slots -> Seq(Cos)]
      /\ \A i \in Slots : IsInjective(slots'[i]) /\ Range(slots'[i]) = Range(slots[i]) \ W
  <2>1. slots' = Unlinked(W)
    BY DEF Wake
  <2> QED
    BY <1>1, <2>1, Kept
<1>6. /\ active' \in Seq(Cos) /\ IsInjective(active') /\ Range(active') = Range(active) \cup W
  <2>1. active' = Without(active, W) \o woken /\ active \in Seq(Cos) /\ IsInjective(active)
    BY <1>1 DEF Wake, Linked
  <2>2. /\ Without(active, W) \in Seq(Cos) /\ IsInjective(Without(active, W))
        /\ Range(Without(active, W)) = Range(active) \ W
    BY <2>1, Filtered
  <2>3. Range(Without(active, W)) \cap W = {}
    BY <2>2
  <2>4. /\ active' \in Seq(Cos) /\ IsInjective(active')
        /\ Range(active') = Range(Without(active, W)) \cup W
    BY <1>4, <2>1, <2>2, <2>3, Joined
  <2> QED
    BY <2>2, <2>4
<1>7. \A d \in Cos : d \in overtaken' <=>
        \/ d \in overtaken
        \/ d \in W /\ OnActive(d) /\ bTimeout[d] /\ loopNow < expire[d]
  <2>1. overtaken' = overtaken \cup
          {d \in W : Contains(active, d) /\ bTimeout[d] /\ loopNow < expire[d]}
    BY DEF Wake
  <2>2. \A d \in Cos : Contains(active, d) <=> OnActive(d)
    BY <1>1, RangeOf DEF Linked, OnActive
  <2> QED
    BY <2>1, <2>2
<1>8. /\ now' = now /\ back' = back /\ ready' = ready /\ start' = start /\ idx' = idx
      /\ loop' = loop /\ loopNow' = loopNow /\ contested' = contested /\ interest' = interest
      /\ wait' = wait /\ pollFd' = pollFd /\ expire' = expire /\ bTimeout' = bTimeout
      /\ detach' = detach
  BY DEF world, items
<1> HIDE DEF W
<1>9. \A d \in Cos : /\ OnWheel(d)' <=> OnWheel(d) /\ d \notin W
                     /\ OnActive(d)' <=> OnActive(d) \/ d \in W
                     /\ OnCond(d)' <=> OnCond(d) /\ d \notin W
                     /\ d \in W => OnCond(d) /\ wait[d] = "cond" /\ Waits(d) /\ d # Top
                                   /\ OffStack(d)
  <2>1. \A d \in Cos : /\ OnWheel(d)' <=> OnWheel(d) /\ d \notin W
                       /\ OnActive(d)' <=> OnActive(d) \/ d \in W
                       /\ OnCond(d)' <=> OnCond(d) /\ d \notin W
    BY <1>4, <1>5, <1>6 DEF OnWheel, OnActive, OnCond, Slots
  <2>2. \A d \in Cos : d \in W => OnCond(d)
    BY <1>4 DEF OnCond
  <2>3. \A d \in Cos : OnCond(d) => wait[d] = "cond"
    BY <1>1 DEF Placed
  <2>4. \A d \in Cos : wait[d] = "cond" => Waits(d) /\ d # Top /\ OffStack(d)
    BY <1>2, Idle DEF Waits
  <2> QED
    BY <2>1, <2>2, <2>3, <2>4
<1>10. \A d \in Cos : /\ OffStack(d)' <=> OffStack(d)
                      /\ Waits(d)' <=> Waits(d)
                      /\ Event(d)' <=> Event(d)
                      /\ Signal(d)' <=> Signal(d) \/ d \in W
  BY <1>3, <1>8, <1>9 DEF OffStack, Waits, Event, Signal
<1>11. LoopTypes'
  BY <1>1, <1>2, <1>8 DEF LoopTypes, Slots
<1>12. Linked'
  <2>1. \A d \in Cos : ~(OnWheel(d)' /\ OnActive(d)')
    BY <1>1, <1>9 DEF Linked
  <2>2. \A d \in Cos, i, j \in Slots :
          d \in Range(slots'[i]) /\ d \in Range(slots'[j]) => i = j
    BY <1>1, <1>5 DEF Linked
  <2> QED
    BY <1>4, <1>5, <1>6, <2>1, <2>2 DEF Linked, Slots
<1>13. Placed'
  <2>1. ASSUME NEW d \in Cos
        PROVE  /\ OnWheel(d)' \/ OnActive(d)' => Waits(d)' /\ OffStack(d)'
               /\ OnCond(d)' => wait'[d] = "cond"
               /\ wait'[d] # "no" => life'[d] = "started" /\ (OffStack(d)' \/ d = Top')
    BY <1>1, <1>3, <1>8, <1>9, <1>10 DEF Placed
  <2> QED
    BY <2>1 DEF Placed
<1>14. Polled'
  BY <1>1, <1>8 DEF Polled
<1>15. Reasons'
  <2>1. ASSUME NEW d \in Cos
        PROVE  /\ detach[d] => wait[d] = "poll" /\ ~bTimeout[d] /\ (OnActive(d)' \/ d = Top')
               /\ bTimeout[d] => Waits(d)' /\ (OnActive(d)' \/ d = Top')
               /\ OnActive(d)' =>
                    /\ loop # "active" => Signal(d)' /\ ~bTimeout[d]
                    /\ Event(d)' \/ Signal(d)' \/ (bTimeout[d] /\ loopNow >= start)
                    /\ Signal(d)' /\ bTimeout[d] => d \in overtaken' \/ loopNow >= expire[d]
    <3>1. CASE d \in W
      <4>1. bTimeout[d] => OnActive(d)
        BY <1>1, <1>9, <3>1 DEF Reasons
      <4>2. OnActive(d) /\ loop # "active" => ~bTimeout[d]
        BY <1>1 DEF Reasons
      <4>3. ~detach[d]
        BY <1>1, <1>9, <3>1 DEF Reasons
      <4>4. OnActive(d)' /\ Signal(d)' /\ Waits(d)'
        BY <1>9, <1>10, <3>1
      <4>5. loopNow \in Nat /\ expire[d] \in Nat
        BY <1>1 DEF LoopTypes
      <4>6. bTimeout[d] => d \in overtaken' \/ loopNow >= expire[d]
        BY <1>7, <3>1, <4>1, <4>5
      <4> QED
        BY <4>1, <4>2, <4>3, <4>4, <4>6
    <3>2. CASE d \notin W
      BY <1>1, <1>3, <1>7, <1>9, <1>10, <3>2 DEF Reasons
    <3> QED
      BY <3>1, <3>2
  <2> QED
    BY <1>8, <2>1 DEF Reasons
<1>16. NotLate'
  <2>1. \A i \in Slots : \A d \in Range(slots'[i]) : start + Distance(i) <= expire[d]
    BY <1>1, <1>5 DEF NotLate
  <2> QED
    BY <1>8, <2>1 DEF NotLate, Slots, Distance
<1>17. NotEarly'
  BY <1>2, <1>3, <1>8 DEF NotEarly, Waits
<1>18. SignalKept'
  BY <1>1, <1>3, <1>7, <1>9, <1>10 DEF SignalKept
<1> QED
  BY <1>3, <1>11, <1>12, <1>13, <1>14, <1>15, <1>16, <1>17, <1>18 DEF IndInv, LoopInv

(* co_cond_signal and co_cond_broadcast.                                   *)
LEMMA SignalKeeps ==
  ASSUME IndInv, NEW c \in Cos, co_cond_signal(c) \/ co_cond_broadcast(c)
  PROVE  IndInv'
<1>1. cond \in Seq(Cos)
  BY DEF IndInv, LoopInv, Linked
<1>2. /\ Len(cond) \in Nat /\ <<>> \in Seq(Cos) /\ Len(<<>>) = 0
      /\ cond # <<>> => Head(cond) = cond[1] /\ Len(cond) >= 1 /\ Head(cond) \in Cos
  BY <1>1
<1>3. ASSUME cond # <<>>
      PROVE  /\ <<Head(cond)>> \in Seq(Cos) /\ Len(<<Head(cond)>>) = 1
             /\ \A i \in 1..1 : <<Head(cond)>>[i] = cond[i]
  BY <1>2, <1>3
<1>4. PICK woken :
        /\ woken = <<>> \/ woken = cond \/ (cond # <<>> /\ woken = <<Head(cond)>>)
        /\ Calls(c) /\ Wake(woken)
        /\ UNCHANGED <<coVars, world, start, idx, items, interest, loop, loopNow, contested>>
  BY DEF co_cond_signal, co_cond_broadcast
<1>5. /\ woken \in Seq(Cos) /\ Len(woken) <= Len(cond)
      /\ \A i \in 1..Len(woken) : woken[i] = cond[i]
  <2>1. CASE woken = <<>>
    BY <1>2, <2>1
  <2>2. CASE woken = <<Head(cond)>> /\ cond # <<>>
    BY <1>2, <1>3, <2>2
  <2>3. CASE woken = cond
    BY <1>1, <1>2, <2>3
  <2> QED
    BY <1>4, <2>1, <2>2, <2>3
<1> QED
  BY <1>4, <1>5, WakeKeeps
-----------------------------------------------------------------------------
(* The loop.                                                               *)
(* One item of the active list.                                            *)
LEMMA ProcessKeeps ==
  ASSUME IndInv, Process
  PROVE  IndInv'
<1> PICK c : c = Head(active)
  OBVIOUS
<1>1. /\ LoopTypes /\ Linked /\ Placed /\ Polled /\ Reasons /\ NotLate /\ NotEarly /\ SignalKept
      /\ CoInv /\ CoTypes
  BY DEF IndInv, LoopInv, CoInv
<1>2. /\ loop = "active" /\ Top = Main /\ active # <<>> /\ active' = Tail(active)
      /\ \/ /\ bTimeout[c] /\ loopNow < expire[c] /\ Accepts(loopNow)
            /\ AddTimeout(c, expire[c]) /\ bTimeout' = [bTimeout EXCEPT ![c] = FALSE]
            /\ UNCHANGED coVars
         \/ /\ ~(bTimeout[c] /\ loopNow < expire[c] /\ Accepts(loopNow))
            /\ co_resume(c) /\ UNCHANGED <<wheel, bTimeout>>
      /\ UNCHANGED <<world, cond, wait, pollFd, expire, detach, interest, loop, loopNow,
                     calls, history>>
  BY DEF Process, Runs
<1>3. /\ c \in Cos /\ active' \in Seq(Cos) /\ IsInjective(active')
      /\ OnActive(c) /\ ~OnActive(c)'
      /\ \A d \in Cos : d # c => (OnActive(d)' <=> OnActive(d))
  <2>1. active \in Seq(Cos) /\ IsInjective(active)
    BY <1>1 DEF Linked
  <2>2. /\ c \in Cos /\ Tail(active) \in Seq(Cos) /\ IsInjective(Tail(active))
        /\ Range(active) = {c} \cup Range(Tail(active)) /\ c \notin Range(Tail(active))
    BY <1>2, <2>1, Headed
  <2> QED
    BY <1>2, <2>2 DEF OnActive
<1>4. /\ now' = now /\ back' = back /\ ready' = ready /\ loop' = loop /\ loopNow' = loopNow
      /\ calls' = calls /\ contested' = contested /\ overtaken' = overtaken
      /\ interest' = interest /\ cond' = cond /\ wait' = wait /\ pollFd' = pollFd
      /\ expire' = expire /\ detach' = detach
  BY <1>2 DEF world, history
<1>5. \A d \in Cos : d # Top
  BY <1>2, Apart
<1>6. Waits(c) /\ OffStack(c) /\ life[c] = "started" /\ ~OnWheel(c)
  BY <1>1, <1>3 DEF Placed, Linked, Waits
<1>7. \A d \in Cos : /\ OnCond(d)' <=> OnCond(d)
                     /\ Waits(d)' <=> Waits(d)
                     /\ Event(d)' <=> Event(d)
                     /\ Signal(d)' <=> Signal(d)
  BY <1>4 DEF OnCond, Waits, Event, Signal
<1>8. Polled'
  BY <1>1, <1>4 DEF Polled
<1>9. /\ start \in Nat /\ loopNow \in Nat /\ expire[c] \in Nat
      /\ expire[c] <= loopNow \/ loopNow < expire[c]
  BY <1>1, <1>3 DEF LoopTypes
<1>10. CASE bTimeout[c] /\ loopNow < expire[c] /\ Accepts(loopNow)
  <2>1. /\ AddTimeout(c, expire[c]) /\ bTimeout' = [bTimeout EXCEPT ![c] = FALSE]
        /\ UNCHANGED coVars
    BY <1>2, <1>10
  <2>2. CoInv' /\ callStack' = callStack /\ life' = life /\ Top' = Top
    BY <1>1, <2>1 DEF CoInv, CoTypes, Resumed, Frames, coVars, Top, Shares
  <2>3. expire[c] >= start
    BY <1>9, <1>10 DEF Accepts
  <2>4. /\ slots' \in [Slots -> Seq(Cos)] /\ start' = start /\ idx' = idx
        /\ \A i \in Slots : IsInjective(slots'[i])
        /\ \A i \in Slots : \A d \in Range(slots'[i]) :
             d \in Range(slots[i]) \/ (d = c /\ start + Distance(i) <= expire[c])
        /\ \A d \in Cos, i, j \in Slots :
             d \in Range(slots'[i]) /\ d \in Range(slots'[j]) => i = j
        /\ \A d \in Cos : OnWheel(d)' <=> OnWheel(d) \/ d = c
    BY <1>1, <1>3, <1>6, <1>9, <2>1, <2>3, Added
  <2>5. /\ bTimeout' \in [Cos -> BOOLEAN] /\ ~bTimeout'[c]
        /\ \A d \in Cos : d # c => bTimeout'[d] = bTimeout[d]
    BY <1>1, <1>3, <2>1 DEF LoopTypes
  <2>6. \A d \in Cos : OffStack(d)' <=> OffStack(d)
    BY <2>2 DEF OffStack
  <2>7. LoopTypes'
    BY <1>1, <1>4, <2>4, <2>5 DEF LoopTypes, Slots
  <2>8. Linked'
    <3>1. \A d \in Cos : ~(OnWheel(d)' /\ OnActive(d)')
      BY <1>1, <1>3, <2>4 DEF Linked
    <3> QED
      BY <1>1, <1>3, <1>4, <2>4, <3>1 DEF Linked, Slots
  <2>9. Placed'
    <3>1. ASSUME NEW d \in Cos
          PROVE  /\ OnWheel(d)' \/ OnActive(d)' => Waits(d)' /\ OffStack(d)'
                 /\ OnCond(d)' => wait'[d] = "cond"
                 /\ wait'[d] # "no" => life'[d] = "started" /\ (OffStack(d)' \/ d = Top')
      BY <1>1, <1>3, <1>4, <1>6, <1>7, <2>2, <2>4, <2>6 DEF Placed
    <3> QED
      BY <3>1 DEF Placed
  <2>10. Reasons'
    <3>1. ASSUME NEW d \in Cos
          PROVE  /\ detach[d] => wait[d] = "poll" /\ ~bTimeout'[d] /\ OnActive(d)'
                 /\ bTimeout'[d] => Waits(d) /\ OnActive(d)'
                 /\ OnActive(d)' =>
                      /\ loop # "active" => Signal(d) /\ ~bTimeout'[d]
                      /\ Event(d) \/ Signal(d) \/ (bTimeout'[d] /\ loopNow >= start)
                      /\ Signal(d) /\ bTimeout'[d] => d \in overtaken \/ loopNow >= expire[d]
      <4>1. CASE d = c
        BY <1>1, <1>3, <1>10, <2>5, <4>1 DEF Reasons
      <4>2. CASE d # c
        BY <1>1, <1>3, <1>5, <2>5, <4>2 DEF Reasons
      <4> QED
        BY <4>1, <4>2
    <3> QED
      BY <1>4, <1>7, <2>4, <3>1 DEF Reasons
  <2>11. NotLate'
    <3>1. ASSUME NEW i \in Slots, NEW d \in Range(slots'[i])
          PROVE  start + Distance(i) <= expire[d]
      BY <1>1, <2>4, <3>1 DEF NotLate
    <3> QED
      BY <1>4, <2>4, <3>1 DEF NotLate, Slots, Distance
  <2>12. NotEarly'
    BY <1>5, <2>2 DEF NotEarly
  <2>13. SignalKept'
    <3>1. Signal(c) => c \in overtaken
      <4>1. ~(loopNow >= expire[c])
        BY <1>9, <1>10
      <4> QED
        BY <1>1, <1>3, <1>10, <4>1 DEF Reasons
    <3> QED
      BY <1>1, <1>3, <1>4, <1>7, <2>2, <3>1 DEF SignalKept
  <2> QED
    BY <1>8, <2>2, <2>7, <2>8, <2>9, <2>10, <2>11, <2>12, <2>13 DEF IndInv, LoopInv
<1>11. CASE ~(bTimeout[c] /\ loopNow < expire[c] /\ Accepts(loopNow))
  <2>1. /\ co_resume(c) /\ slots' = slots /\ start' = start /\ idx' = idx
        /\ bTimeout' = bTimeout
    BY <1>2, <1>11 DEF wheel
  <2>2. /\ CoInv' /\ Top' = c /\ Range(callStack') = Range(callStack) \cup {c}
        /\ life' = [life EXCEPT ![c] = "started"]
    BY <1>1, <1>3, <1>6, <2>1, ResumeKeeps
  <2>3. /\ \A d \in Cos : d # c => (OffStack(d)' <=> OffStack(d))
        /\ \A d \in Cos : life'[d] = IF d = c THEN "started" ELSE life[d]
        /\ \A d \in Cos : OnWheel(d)' <=> OnWheel(d)
    BY <1>1, <2>1, <2>2, Apart DEF OffStack, CoTypes, OnWheel, Slots
  <2>4. LoopTypes'
    BY <1>1, <1>4, <2>1 DEF LoopTypes, Slots
  <2>5. Linked'
    <3>1. \A d \in Cos : ~(OnWheel(d)' /\ OnActive(d)')
      BY <1>1, <1>3, <2>3 DEF Linked
    <3> QED
      BY <1>1, <1>3, <1>4, <2>1, <3>1 DEF Linked, Slots
  <2>6. Placed'
    <3>1. ASSUME NEW d \in Cos
          PROVE  /\ OnWheel(d)' \/ OnActive(d)' => Waits(d)' /\ OffStack(d)'
                 /\ OnCond(d)' => wait'[d] = "cond"
                 /\ wait'[d] # "no" => life'[d] = "started" /\ (OffStack(d)' \/ d = Top')
      BY <1>1, <1>3, <1>4, <1>5, <1>6, <1>7, <2>2, <2>3 DEF Placed
    <3> QED
      BY <3>1 DEF Placed
  <2>7. Reasons'
    <3>1. ASSUME NEW d \in Cos
          PROVE  /\ detach[d] => wait[d] = "poll" /\ ~bTimeout[d] /\ (OnActive(d)' \/ d = Top')
                 /\ bTimeout[d] => Waits(d) /\ (OnActive(d)' \/ d = Top')
                 /\ OnActive(d)' =>
                      /\ loop # "active" => Signal(d) /\ ~bTimeout[d]
                      /\ Event(d) \/ Signal(d) \/ (bTimeout[d] /\ loopNow >= start)
                      /\ Signal(d) /\ bTimeout[d] => d \in overtaken \/ loopNow >= expire[d]
      BY <1>1, <1>3, <1>5, <2>2 DEF Reasons
    <3> QED
      BY <1>4, <1>7, <2>1, <3>1 DEF Reasons
  <2>8. NotLate'
    BY <1>1, <1>4, <2>1 DEF NotLate, Slots, Distance
  <2>9. NotEarly'
    <3>1. Event(c) \/ Signal(c) \/ (bTimeout[c] /\ loopNow >= start)
      BY <1>1, <1>3 DEF Reasons
    <3>2. Event(c) \/ Signal(c) \/ loopNow >= expire[c]
      BY <1>9, <1>11, <3>1 DEF Accepts
    <3> QED
      BY <1>4, <1>7, <2>2, <3>2 DEF NotEarly
  <2>10. SignalKept'
    BY <1>1, <1>3, <1>4, <1>5, <1>7, <2>2 DEF SignalKept
  <2> QED
    BY <1>8, <2>2, <2>4, <2>5, <2>6, <2>7, <2>8, <2>9, <2>10 DEF IndInv, LoopInv
<1> QED
  BY <1>10, <1>11

(* One turn: the raised polls and the late items join the active list.     *)
LEMMA TurnKeeps ==
  ASSUME IndInv, co_eventloop
  PROVE  IndInv'
<1>1. /\ LoopTypes /\ Linked /\ Placed /\ Polled /\ Reasons /\ NotLate /\ NotEarly /\ SignalKept
      /\ CoInv /\ CoTypes
  BY DEF IndInv, LoopInv, CoInv
<1> DEFINE F == {fd \in ready : interest[fd] # Null}
<1>2. /\ loop = "wait" /\ Top = Main /\ loopNow' = now /\ loop' = "active"
      /\ now' = now /\ back' = back /\ ready' = ready /\ cond' = cond /\ wait' = wait
      /\ pollFd' = pollFd /\ expire' = expire /\ interest' = interest /\ calls' = calls
      /\ contested' = contested /\ overtaken' = overtaken /\ UNCHANGED coVars
  BY DEF co_eventloop, Runs, world, history
<1>3. PICK hits \in SetToSeqs(F) :
       LET raised == [i \in DOMAIN hits |-> interest[hits[i]]]
           kept   == Unlinked(Range(raised))
           late   == Taken(kept, now)
       IN  /\ detach' = [c \in Cos |-> detach[c] \/ Contains(raised, c)]
           /\ TakeAllTimeout(kept, now)
           /\ bTimeout' = [c \in Cos |-> bTimeout[c] \/ Contains(late, c)]
           /\ active' = active \o raised \o late
  BY DEF co_eventloop
<1> DEFINE raised == [i \in DOMAIN hits |-> interest[hits[i]]]
           kept == Unlinked(Range(raised))
           late == Taken(kept, now)
           R == Range(raised)
           L == Range(late)
<1>4. /\ raised \in Seq(Cos) /\ IsInjective(raised)
      /\ \A c \in R : c \in Cos /\ wait[c] = "poll"
  <2> DEFINE n == Cardinality(F)
  <2>1. n \in Nat
    <3>1. IsFiniteSet(Fds) /\ F \in SUBSET Fds
      BY <1>1, LoopAssumption DEF LoopTypes
    <3> QED
      BY <3>1, FS_Subset, FS_CardinalityType
  <2>2. hits \in [1..n -> F] /\ \A i, j \in 1..n : i # j => hits[i] # hits[j]
    BY DEF SetToSeqs
  <2> HIDE DEF n
  <2>3. \A fd \in F : /\ fd \in Fds /\ interest[fd] \in Cos /\ wait[interest[fd]] = "poll"
                      /\ pollFd[interest[fd]] = fd
    BY <1>1 DEF LoopTypes, Polled
  <2> HIDE DEF F
  <2>4. DOMAIN hits = 1..n /\ \A i \in 1..n : hits[i] \in F
    BY <2>2
  <2>5. raised \in [1..n -> Cos] /\ \A i \in 1..n : raised[i] = interest[hits[i]]
    BY <2>3, <2>4
  <2>6. raised \in Seq(Cos)
    BY <2>1, <2>5
  <2>7. DOMAIN raised = 1..n
    BY <2>5
  <2> HIDE DEF raised
  <2>8. \A i, j \in 1..n : raised[i] = raised[j] => i = j
    <3>1. ASSUME NEW i \in 1..n, NEW j \in 1..n, raised[i] = raised[j] PROVE i = j
      <4>1. hits[i] = hits[j]
        BY <2>3, <2>4, <2>5, <3>1
      <4> QED
        BY <2>2, <4>1
    <3> QED
      BY <3>1
  <2>9. \A c \in Range(raised) : \E i \in 1..n : c = raised[i]
    BY <2>7 DEF Range
  <2> QED
    BY <2>3, <2>4, <2>5, <2>6, <2>7, <2>8, <2>9 DEF IsInjective
<1> HIDE DEF F, raised
<1>5. /\ kept \in [Slots -> Seq(Cos)]
      /\ \A i \in Slots : IsInjective(kept[i]) /\ Range(kept[i]) = Range(slots[i]) \ R
      /\ \A d \in Cos, i, j \in Slots : d \in Range(kept[i]) /\ d \in Range(kept[j]) => i = j
  <2>1. /\ kept \in [Slots -> Seq(Cos)]
        /\ \A i \in Slots : IsInjective(kept[i]) /\ Range(kept[i]) = Range(slots[i]) \ R
    BY <1>1, Kept
  <2>2. \A d \in Cos, i, j \in Slots :
          d \in Range(slots[i]) /\ d \in Range(slots[j]) => i = j
    BY <1>1 DEF Linked
  <2> HIDE DEF kept, R
  <2> QED
    BY <2>1, <2>2
<1>6. TakeAllTimeout(kept, now)
  BY <1>3 DEF raised
<1> HIDE DEF kept
<1>7. /\ slots' \in [Slots -> Seq(Cos)] /\ start' \in 0..MaxNow /\ idx' \in Slots
      /\ late \in Seq(Cos) /\ IsInjective(late)
      /\ \A i \in Slots : IsInjective(slots'[i])
      /\ \A i \in Slots :
           \/ Range(slots'[i]) = {} /\ Range(kept[i]) \subseteq L
           \/ /\ slots'[i] = kept[i] /\ Range(kept[i]) \cap L = {}
              /\ start' + Distance(i)' <= start + Distance(i)
      /\ \A d \in L : \E i \in Slots : d \in Range(kept[i])
      /\ late = <<>> \/ now >= start'
  BY <1>1, <1>5, <1>6, Advanced
<1>8. /\ detach' = [c \in Cos |-> detach[c] \/ Contains(raised, c)]
      /\ bTimeout' = [c \in Cos |-> bTimeout[c] \/ Contains(late, c)]
      /\ active' = active \o raised \o late
  BY <1>3 DEF kept, raised
<1> HIDE DEF late
<1>9. \A c \in Cos : /\ Contains(raised, c) <=> c \in R
                     /\ Contains(late, c) <=> c \in L
  BY <1>4, <1>7, RangeOf
<1>10. \A c \in Cos : c # Top
  BY <1>2, Apart
<1>11. \A c \in Cos : /\ OnActive(c) => Signal(c) /\ wait[c] = "cond"
                      /\ ~bTimeout[c] /\ ~detach[c]
  BY <1>1, <1>2, <1>10 DEF Reasons, Signal
<1>12. \A c \in L : c \in Cos /\ OnWheel(c) /\ c \notin R /\ ~OnActive(c)
  <2>1. \A i \in Slots : Range(slots[i]) \subseteq Cos
    BY <1>1, RangeOf DEF Linked
  <2>2. \A c \in L : c \in Cos /\ OnWheel(c) /\ c \notin R
    BY <1>5, <1>7, <2>1 DEF OnWheel
  <2> QED
    BY <1>1, <2>2 DEF Linked
<1>13. /\ active' \in Seq(Cos) /\ IsInjective(active')
       /\ \A c \in Cos : OnActive(c)' <=> OnActive(c) \/ c \in R \/ c \in L
  <2>1. active \in Seq(Cos) /\ IsInjective(active) /\ Range(active) \subseteq Cos
    BY <1>1, RangeOf DEF Linked
  <2>2. Range(active) \cap R = {}
    BY <1>4, <1>11, <2>1 DEF OnActive
  <2> DEFINE first == active \o raised
  <2>3. /\ first \in Seq(Cos) /\ IsInjective(first) /\ Range(first) = Range(active) \cup R
    BY <1>4, <2>1, <2>2, Joined
  <2>4. active' = first \o late
    BY <1>8
  <2> HIDE DEF first
  <2>5. Range(first) \cap L = {}
    BY <1>12, <2>1, <2>3 DEF OnActive
  <2>6. /\ active' \in Seq(Cos) /\ IsInjective(active')
        /\ Range(active') = Range(first) \cup L
    BY <1>7, <2>3, <2>4, <2>5, Joined
  <2> QED
    BY <2>3, <2>6 DEF OnActive
<1>14. /\ detach' \in [Cos -> BOOLEAN] /\ bTimeout' \in [Cos -> BOOLEAN]
       /\ \A c \in Cos : (detach'[c] <=> c \in R) /\ (bTimeout'[c] <=> c \in L)
  <2>1. /\ \A c \in Cos : detach'[c] = (detach[c] \/ Contains(raised, c))
        /\ \A c \in Cos : bTimeout'[c] = (bTimeout[c] \/ Contains(late, c))
        /\ detach' \in [Cos -> BOOLEAN] /\ bTimeout' \in [Cos -> BOOLEAN]
    BY <1>8, Zenon
  <2> QED
    BY <1>9, <1>11, <2>1, Zenon
<1> HIDE DEF R, L
<1>15. \A c \in Cos : OnWheel(c)' => OnWheel(c) /\ c \notin R /\ c \notin L
  <2>1. ASSUME NEW c \in Cos, NEW i \in Slots, c \in Range(slots'[i])
        PROVE  c \in Range(slots[i]) /\ c \notin R /\ c \notin L
    <3>1. slots'[i] = kept[i] /\ Range(kept[i]) \cap L = {}
      BY <1>7, <2>1
    <3> QED
      BY <1>5, <2>1, <3>1
  <2> QED
    BY <2>1 DEF OnWheel, Slots
<1>16. /\ CoInv' /\ callStack' = callStack /\ life' = life /\ Top' = Top
  BY <1>1, <1>2 DEF CoInv, CoTypes, Resumed, Frames, coVars, Top, Shares
<1>17. \A c \in Cos : /\ OnCond(c)' <=> OnCond(c)
                      /\ OffStack(c)' <=> OffStack(c)
                      /\ Waits(c)' <=> Waits(c)
                      /\ Signal(c)' <=> Signal(c)
  BY <1>2, <1>16 DEF OnCond, OffStack, Waits, Signal
<1>18. LoopTypes'
  <2>1. loopNow' \in Nat
    BY <1>1, <1>2, LoopAssumption DEF LoopTypes
  <2> QED
    BY <1>1, <1>2, <1>7, <1>14, <2>1 DEF LoopTypes, Slots
<1>19. Linked'
  <2>1. \A c \in Cos : ~(OnWheel(c)' /\ OnActive(c)')
    BY <1>1, <1>13, <1>15 DEF Linked
  <2>2. \A c \in Cos, i, j \in Slots :
          c \in Range(slots'[i]) /\ c \in Range(slots'[j]) => i = j
    <3>1. \A i \in Slots : Range(slots'[i]) \subseteq Range(kept[i])
      BY <1>7
    <3> QED
      BY <1>5, <3>1
  <2>3. cond' \in Seq(Cos) /\ IsInjective(cond')
    BY <1>1, <1>2 DEF Linked
  <2> QED
    BY <1>7, <1>13, <2>1, <2>2, <2>3 DEF Linked, Slots
<1>20. Placed'
  <2>1. ASSUME NEW c \in Cos
        PROVE  /\ OnWheel(c)' \/ OnActive(c)' => Waits(c)' /\ OffStack(c)'
               /\ OnCond(c)' => wait'[c] = "cond"
               /\ wait'[c] # "no" => life'[c] = "started" /\ (OffStack(c)' \/ c = Top')
    <3>1. c \in R => Waits(c) /\ OffStack(c)
      BY <1>1, <1>4, <1>10 DEF Placed, Waits
    <3> QED
      BY <1>1, <1>2, <1>12, <1>13, <1>15, <1>16, <1>17, <3>1 DEF Placed
  <2> QED
    BY <2>1 DEF Placed
<1>21. Polled'
  BY <1>1, <1>2 DEF Polled
<1>22. Reasons'
  <2>1. ASSUME NEW c \in Cos
        PROVE  /\ detach'[c] => wait[c] = "poll" /\ ~bTimeout'[c] /\ OnActive(c)'
               /\ bTimeout'[c] => Waits(c) /\ OnActive(c)'
               /\ OnActive(c)' =>
                    /\ Event(c)' \/ Signal(c) \/ (bTimeout'[c] /\ now >= start')
                    /\ Signal(c) /\ bTimeout'[c] => c \in overtaken
    <3>1. c \in L => late # <<>>
      BY <1>7, RangeOf DEF L
    <3>2. c \in R => Event(c)'
      BY <1>2, <1>4, <1>14 DEF Event
    <3>3. c \in L => Waits(c) /\ (Signal(c) => c \in overtaken)
      BY <1>1, <1>10, <1>12 DEF Placed, SignalKept
    <3> QED
      BY <1>4, <1>7, <1>11, <1>12, <1>13, <1>14, <3>1, <3>2, <3>3
  <2> QED
    BY <1>2, <1>17, <2>1 DEF Reasons
<1>23. NotLate'
  <2>1. ASSUME NEW i \in Slots, NEW d \in Range(slots'[i])
        PROVE  start' + Distance(i)' <= expire[d]
    <3>1. d \in Range(slots[i]) /\ start' + Distance(i)' <= start + Distance(i)
      <4>1. /\ slots'[i] = kept[i] /\ start' + Distance(i)' <= start + Distance(i)
        BY <1>7, <2>1
      <4> QED
        BY <1>5, <2>1, <4>1
    <3>2. start + Distance(i) <= expire[d] /\ d \in Cos
      BY <1>1, <3>1, RangeOf DEF NotLate, Linked
    <3>3. start \in Int /\ start' \in Int /\ expire[d] \in Int
      BY <1>1, <1>7, <3>2 DEF LoopTypes
    <3>4. Distance(i) \in Int /\ Distance(i)' \in Int
      <4>1. idx \in Int /\ idx' \in Int /\ i \in Int /\ WheelSize \in Nat \ {0}
        BY <1>1, <1>7, LoopAssumption DEF LoopTypes, Slots
      <4> QED
        BY <4>1 DEF Distance
    <3> QED
      BY <3>1, <3>2, <3>3, <3>4
  <2> QED
    BY <1>2, <2>1 DEF NotLate, Slots
<1>24. NotEarly'
  BY <1>10, <1>16 DEF NotEarly
<1>25. SignalKept'
  BY <1>1, <1>2, <1>13, <1>16, <1>17 DEF SignalKept
<1> QED
  BY <1>16, <1>18, <1>19, <1>20, <1>21, <1>22, <1>23, <1>24, <1>25 DEF IndInv, LoopInv
-----------------------------------------------------------------------------
(* The inductive invariant holds at first.                                 *)
LEMMA Begin == Init => IndInv
<1> SUFFICES ASSUME Init PROVE IndInv
  OBVIOUS
<1>1. CoInv
  BY CoBegin DEF Init
<1>2. /\ now = 0 /\ back = FALSE /\ ready = {} /\ slots = [i \in Slots |-> <<>>]
      /\ start = 0 /\ idx = 0 /\ active = <<>> /\ cond = <<>>
      /\ interest = [fd \in Fds |-> Null] /\ wait = [c \in Cos |-> "no"]
      /\ pollFd = [c \in Cos |-> Null] /\ expire = [c \in Cos |-> 0]
      /\ bTimeout = [c \in Cos |-> FALSE] /\ detach = [c \in Cos |-> FALSE]
      /\ loop = "out" /\ loopNow = 0 /\ calls = 0
  BY DEF Init, Slots
<1>3. 0 \in Slots /\ 0 \in 0..MaxNow
  BY LoopAssumption DEF Slots
<1>4. <<>> \in Seq(Cos) /\ Range(<<>>) = {} /\ IsInjective(<<>>)
  BY EmptySeq, RangeOf
<1>5. \A c \in Cos : ~OnWheel(c) /\ ~OnActive(c) /\ ~OnCond(c) /\ ~Waits(c)
  BY <1>2, <1>4 DEF OnWheel, OnActive, OnCond, Waits
<1>6. LoopTypes
  BY <1>2, <1>3 DEF LoopTypes
<1>7. Linked
  BY <1>2, <1>4, <1>5 DEF Linked
<1>8. Placed /\ Polled
  BY <1>2, <1>5 DEF Placed, Polled
<1>9. Reasons /\ NotLate /\ NotEarly
  BY <1>2, <1>4, <1>5 DEF Reasons, NotLate, NotEarly
<1>10. SignalKept
  BY <1>2 DEF SignalKept, Signal
<1> QED
  BY <1>1, <1>6, <1>7, <1>8, <1>9, <1>10 DEF IndInv, LoopInv

(* Every step keeps it.                                                    *)
LEMMA StepKeeps == IndInv /\ [Next]_vars => IndInv'
<1> SUFFICES ASSUME IndInv, [Next]_vars PROVE IndInv'
  OBVIOUS
<1>1. /\ LoopTypes /\ calls \in Nat /\ now \in 0..MaxNow /\ MaxNow \in Nat
      /\ back \in BOOLEAN /\ ready \subseteq Fds /\ interest \in [Fds -> Cos \cup {Null}]
  BY LoopAssumption DEF IndInv, LoopInv, LoopTypes
<1>2. ASSUME NEW c \in Cos, Call(c) PROVE IndInv'
  <2>1. ASSUME NEW fd \in Fds, NEW ms \in Timeouts, Poll(c, fd, ms) PROVE IndInv'
    BY <2>1, PollKeeps
  <2>2. ASSUME NEW ms \in Timeouts, CondWait(c, ms) PROVE IndInv'
    BY <2>2, CondWaitKeeps
  <2>3. CASE co_cond_signal(c) \/ co_cond_broadcast(c)
    BY <2>3, SignalKeeps
  <2>4. CASE Yield(c)
    BY <2>4, YieldKeeps
  <2>5. ASSUME NEW d \in Cos, Calls(c), Manage(c, d) PROVE IndInv'
    <3>1. c = Top /\ wait[c] = "no" /\ calls' = calls + 1 /\ c \in Members
      BY <2>5 DEF Calls, Runs, Members
    <3> QED
      BY <2>5, <3>1, ManagedKeeps
  <2> QED
    BY <1>2, <2>1, <2>2, <2>3, <2>4, <2>5 DEF Call
<1>3. ASSUME NEW c \in Cos, Return(c) PROVE IndInv'
  BY <1>3, PollReturnKeeps, CondReturnKeeps, YieldReturnKeeps DEF Return
<1>4. ASSUME NEW c \in Cos, End(c) PROVE IndInv'
  BY <1>4, EndKeeps
<1>5. ASSUME NEW d \in Cos, MainCalls(d) PROVE IndInv'
  <2>1. Main = Top /\ Manage(Main, d) /\ calls' = calls + 1 /\ Main \in Members /\ Main \notin Cos
    BY <1>5, Apart DEF MainCalls, Runs
  <2> QED
    BY <2>1, ManagedKeeps
<1>6. CASE EnterLoop
  <2>1. /\ UNCHANGED <<coVars, wheel, active, cond, items, overtaken>>
        /\ now' = now /\ back' = back /\ ready' = ready /\ calls' = calls
        /\ interest' = interest /\ contested' = contested
        /\ loop # "active" /\ loop' = "wait" /\ loopNow' = loopNow
    BY <1>6 DEF EnterLoop, world, history
  <2> QED
    BY <1>1, <2>1, Outside
<1>7. CASE NextTurn
  <2>1. /\ UNCHANGED <<coVars, wheel, active, cond, items, overtaken>>
        /\ now' = now /\ back' = back /\ ready' = ready /\ calls' = calls
        /\ interest' = interest /\ contested' = contested
        /\ loop' = "wait" /\ loopNow' = 0 /\ active = <<>> /\ Top = Main
    BY <1>7 DEF NextTurn, Runs, world, history
  <2> QED
    BY <1>1, <2>1, Outside
<1>8. CASE co_eventloop
  BY <1>8, TurnKeeps
<1>9. CASE Process
  BY <1>9, ProcessKeeps
<1>10. CASE Tick \/ TickBack \/ \E fd \in Fds : Arrive(fd)
  <2>1. /\ UNCHANGED <<coVars, wheel, active, cond, items, overtaken>>
        /\ calls' = calls /\ interest' = interest /\ contested' = contested
        /\ loop' = loop /\ loopNow' = loopNow
    BY <1>10 DEF Tick, TickBack, Arrive, history
  <2>2. now' \in 0..MaxNow /\ back' \in BOOLEAN /\ ready' \subseteq Fds
    <3>1. CASE Tick \/ TickBack
      <4>1. (now' = now + 1 /\ now < MaxNow) \/ (now' = now - 1 /\ now > 0)
        BY <3>1 DEF Tick, TickBack
      <4>2. ready' = ready /\ (back' = back \/ back' = TRUE)
        BY <3>1 DEF Tick, TickBack
      <4>3. now' \in 0..MaxNow
        BY <1>1, <4>1
      <4>4. back' \in BOOLEAN /\ ready' \subseteq Fds
        BY <1>1, <4>2, Zenon
      <4> QED
        BY <4>3, <4>4
    <3>2. ASSUME NEW fd \in Fds, Arrive(fd)
          PROVE  now' \in 0..MaxNow /\ back' \in BOOLEAN /\ ready' \subseteq Fds
      BY <1>1, <3>2 DEF Arrive
    <3> QED
      BY <1>10, <3>1, <3>2
  <2> QED
    BY <1>1, <2>1, <2>2, Outside
<1>11. CASE UNCHANGED vars
  <2>1. /\ UNCHANGED <<coVars, wheel, active, cond, items, overtaken>>
        /\ now' = now /\ back' = back /\ ready' = ready /\ calls' = calls
        /\ interest' = interest /\ contested' = contested
        /\ loop' = loop /\ loopNow' = loopNow
    BY <1>11 DEF vars, world, history
  <2> QED
    BY <1>1, <2>1, Outside
<1> QED
  BY <1>2, <1>3, <1>4, <1>5, <1>6, <1>7, <1>8, <1>9, <1>10, <1>11 DEF Next, Step

(* What follows from it.                                                   *)
LEMMA LoopShown == IndInv => TypeOK /\ StackIntact /\ OnTime /\ WakersKept
<1> SUFFICES ASSUME IndInv PROVE TypeOK /\ StackIntact /\ OnTime /\ WakersKept
  OBVIOUS
<1>1. /\ LoopTypes /\ Linked /\ Polled /\ Reasons /\ NotLate /\ NotEarly /\ SignalKept
      /\ CoInv
  BY DEF IndInv, LoopInv
<1>2. CoTypeOK /\ StackIntact
  BY <1>1, CoShown
<1>3. \A c \in Cos : /\ Contains(active, c) <=> OnActive(c)
                     /\ Contains(cond, c) <=> OnCond(c)
  BY <1>1, RangeOf DEF Linked, OnActive, OnCond
<1>4. TypeOK
  BY <1>1, <1>2 DEF TypeOK, LoopTypes, Linked, Slots
<1>5. OnTime
  <2>1. \A i \in DOMAIN slots : \A c \in Range(slots[i]) :
          start + (((i - idx) + WheelSize) % WheelSize) <= expire[c]
    BY <1>1 DEF NotLate, Distance, Linked
  <2>2. \A c \in Cos : c = Top /\ wait[c] \in {"poll", "cond"} =>
          \/ wait[c] = "poll" /\ detach[c]
          \/ wait[c] = "cond" /\ ~Contains(cond, c)
          \/ loopNow >= expire[c]
    BY <1>1, <1>3 DEF NotEarly, Waits, Event, Signal
  <2> QED
    BY <2>1, <2>2 DEF OnTime
<1>6. WakersKept
  <2>1. ASSUME NEW c \in Cos \ {Top}
        PROVE  /\ wait[c] = "cond" /\ ~Contains(cond, c)
                    => Contains(active, c) \/ c \in overtaken
               /\ wait[c] = "poll" =>
                    IF detach[c] THEN Contains(active, c)
                    ELSE interest[pollFd[c]] = c \/ pollFd[c] \in contested
    BY <1>1, <1>3 DEF SignalKept, Signal, Reasons, Polled
  <2> QED
    BY <2>1 DEF WakersKept
<1> QED
  BY <1>2, <1>4, <1>5, <1>6

(* The inductive invariant holds in every state of the loop.               *)
LEMMA LoopInvariant == Spec => []IndInv
  BY Begin, StepKeeps, PTL DEF Spec

(* The lists, the waits and the stacks keep their types; no shared stack   *)
(* has an occupant that has been freed, so that co_swap never copies out   *)
(* the frames of a coroutine that is gone (co_routine.cpp:545, 593).       *)
THEOREM LoopTypesHold == Spec => []TypeOK
<1>1. IndInv => TypeOK
  BY LoopShown
<1> QED
  BY <1>1, LoopInvariant, PTL

(* The coroutine that runs finds its own frames on its stack, whatever ran *)
(* on the stack meanwhile and in whatever order coroutines were resumed,   *)
(* ended, reset and freed; unless the occupant of the stack was reset or   *)
(* freed while others were suspended on it (co_swap's copies).             *)
THEOREM StackIntactHolds == Spec => []StackIntact
<1>1. IndInv => StackIntact
  BY LoopShown
<1> QED
  BY <1>1, LoopInvariant, PTL

(* However the wheel has turned and however long a deadline is, a waiting  *)
(* item's slot comes no later than its deadline, and a wait that runs      *)
(* again does so for its event, a signal, or a deadline that has passed    *)
(* (AddTimeout, TakeAllTimeout and the walk of co_eventloop).              *)
THEOREM OnTimeHolds == Spec => []OnTime
<1>1. IndInv => OnTime
  BY LoopShown
<1> QED
  BY <1>1, LoopInvariant, PTL

(* The item of a wait is on one list at most, the active list or one slot  *)
(* of the wheel, and there once: AddTail's test of pLink                   *)
(* (co_routine.cpp:194), which would drop the item, never finds a link.    *)
THEOREM OneLinkHolds == Spec => []Linked
<1>1. IndInv => Linked
  BY DEF IndInv, LoopInv
<1> QED
  BY <1>1, LoopInvariant, PTL

(* What is to wake a wait is kept: a signalled waiter and a raised poll    *)
(* are on the active list, and epoll watches for every other poll; with    *)
(* the exceptions that WakersKept names.                                   *)
THEOREM WakersKeptHolds == Spec => []WakersKept
<1>1. IndInv => WakersKept
  BY LoopShown
<1> QED
  BY <1>1, LoopInvariant, PTL
=============================================================================
