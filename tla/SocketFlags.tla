----------------------------- MODULE SocketFlags -----------------------------
(***************************************************************************)
(* What corlib keeps of a socket beside the kernel (FdManager and FdCtx in *)
(* fd_manager.cpp; socket, accept, close, fcntl, ioctl and setsockopt in   *)
(* hook.cpp): the kernel's socket is always non-blocking, so that no call  *)
(* blocks a worker, and the FdCtx remembers whether the user wanted it     *)
(* blocking, and for how long.                                             *)
(*                                                                         *)
(* Each call is one step: the descriptors of different fibers are apart,   *)
(* and the table has its own mutex.  The calls of a thread that has not    *)
(* enabled the hooks, like the one that creates the IOManager, go straight *)
(* to the kernel, except fcntl and ioctl, which do not ask.                *)
(***************************************************************************)
EXTENDS Naturals

CONSTANTS
  Descriptors,         \* descriptor numbers
  Timeouts,    \* values of SO_RCVTIMEO in ms; 0 is the timeval {0, 0}
  Forever      \* a timeout of (uint64_t)-1: none is set

ASSUME FlagsAssumption == Forever \notin Timeouts

VARIABLES
  kernel,  \* the kernel's descriptor: what it is, O_NONBLOCK
  ctx,     \* m_datas[fd]
  wants,   \* what the user has asked for of this socket (history)
  odd      \* what has put the two out of step (history): "born", it was
           \* created with SOCK_NONBLOCK; "stale", with another's FdCtx in
           \* the table; "ioctl", FIONBIO was the last to set its mode;
           \* "zero", {0, 0} was the last timeout set; "unhooked", it was
           \* set without hooks; "failed", setting one has failed

flagVars == <<kernel, ctx, wants, odd>>

Free == [is |-> "free", nonblock |-> FALSE]
NoCtx == [is |-> "none", sys |-> FALSE, user |-> FALSE, timeout |-> Forever]
FreshCtx(what) == [is |-> what, sys |-> what = "socket", user |-> FALSE,
                   timeout |-> Forever]
Defaults == [nonblock |-> FALSE, timeout |-> Forever]
Timing == {"zero", "unhooked", "failed"}
\* To the kernel {0, 0} is no timeout.
Meant(v) == IF v = 0 THEN Forever ELSE v

Is(fd, what) == kernel[fd].is = what
Managed(fd) == ctx[fd].is = "socket"       \* ctx && isSocket()

-----------------------------------------------------------------------------
\* Mutant: init() forgets to make the socket non-blocking.
GetCtxOnly(fd, nonblock) ==
  /\ ctx' = [ctx EXCEPT ![fd] = IF @ = NoCtx THEN FreshCtx("socket") ELSE @]
  /\ kernel' = [kernel EXCEPT ![fd] = [is |-> "socket", nonblock |-> nonblock]]

(* get(fd, true) for a new socket of the kernel: an entry of the table is  *)
(* returned as it is, otherwise FdCtx::init makes the socket non-blocking. *)
GetCtx(fd, nonblock) ==
  /\ ctx' = [ctx EXCEPT ![fd] = IF @ = NoCtx THEN FreshCtx("socket") ELSE @]
  /\ kernel' = [kernel EXCEPT ![fd] =
       [is |-> "socket", nonblock |-> nonblock \/ ctx[fd] = NoCtx]]

(* Hooked socket() and accept().                                           *)
Open(fd, nonblock) ==
  /\ Is(fd, "free")
  /\ GetCtx(fd, nonblock)
  /\ odd' = [odd EXCEPT ![fd] = {k \in {"born", "stale"} :
                 IF k = "born" THEN nonblock ELSE ctx[fd] # NoCtx}]
  /\ wants' = [wants EXCEPT ![fd] = [Defaults EXCEPT !.nonblock = nonblock]]

(* A descriptor that corlib does not hear of: open(), pipe(), a socket of  *)
(* a thread without hooks.                                                 *)
OpenOther(fd) ==
  /\ Is(fd, "free")
  /\ kernel' = [kernel EXCEPT ![fd] = [is |-> "other", nonblock |-> FALSE]]
  /\ wants' = [wants EXCEPT ![fd] = Defaults]
  /\ UNCHANGED <<ctx, odd>>

(* Hooked close(): FdManager::del, then the system call.                   *)
CloseHooked(fd) ==
  /\ ~Is(fd, "free")
  /\ ctx' = [ctx EXCEPT ![fd] = NoCtx]
  /\ kernel' = [kernel EXCEPT ![fd] = Free]
  /\ UNCHANGED <<wants, odd>>

CloseUnhooked(fd) ==
  /\ ~Is(fd, "free")
  /\ kernel' = [kernel EXCEPT ![fd] = Free]
  /\ UNCHANGED <<ctx, wants, odd>>

(* fcntl(F_SETFL): the user's wish goes to the FdCtx, the system's to the  *)
(* kernel.                                                                 *)
SetFl(fd, nonblock) ==
  /\ ~Is(fd, "free")
  /\ wants' = [wants EXCEPT ![fd].nonblock = nonblock]
  /\ odd' = [odd EXCEPT ![fd] = @ \ {"born", "ioctl"}]
  /\ IF Managed(fd)
     THEN /\ ctx' = [ctx EXCEPT ![fd].user = nonblock]
          /\ kernel' = [kernel EXCEPT ![fd].nonblock = ctx[fd].sys]
     ELSE /\ kernel' = [kernel EXCEPT ![fd].nonblock = nonblock]
          /\ UNCHANGED ctx

(* fcntl(F_GETFL).                                                         *)
GetFl(fd) == IF Managed(fd) THEN ctx[fd].user ELSE kernel[fd].nonblock

\* Mutant: the FdCtx does not hear of it.
FionbioKernelOnly(fd, nonblock) ==
  /\ ~Is(fd, "free")
  /\ wants' = [wants EXCEPT ![fd].nonblock = nonblock]
  /\ kernel' = [kernel EXCEPT ![fd].nonblock = nonblock]
  /\ odd' = [odd EXCEPT ![fd] = (@ \ {"born"}) \cup {"ioctl"}]
  /\ UNCHANGED ctx

(* ioctl(FIONBIO): the user's wish goes to both.                           *)
Fionbio(fd, nonblock) ==
  /\ ~Is(fd, "free")
  /\ wants' = [wants EXCEPT ![fd].nonblock = nonblock]
  /\ ctx' = IF Managed(fd) THEN [ctx EXCEPT ![fd].user = nonblock] ELSE ctx
  /\ kernel' = [kernel EXCEPT ![fd].nonblock = nonblock]
  /\ odd' = [odd EXCEPT ![fd] = (@ \ {"born"}) \cup {"ioctl"}]

(* Hooked setsockopt(SO_RCVTIMEO); the FdCtx has the milliseconds, and 0   *)
(* of them is a timeout to do_io.                                          *)
SetTimeout(fd, v) ==
  /\ Is(fd, "socket")
  /\ wants' = [wants EXCEPT ![fd].timeout = Meant(v)]
  /\ ctx' = IF ctx[fd] # NoCtx THEN [ctx EXCEPT ![fd].timeout = v] ELSE ctx
  /\ odd' = [odd EXCEPT ![fd] =
       IF v = 0 THEN (@ \ Timing) \cup {"zero"} ELSE @ \ Timing]
  /\ UNCHANGED kernel

(* setsockopt() of a thread without hooks: the FdCtx does not hear of it.  *)
SetTimeoutUnhooked(fd, v) ==
  /\ Is(fd, "socket")
  /\ wants' = [wants EXCEPT ![fd].timeout = Meant(v)]
  /\ odd' = [odd EXCEPT ![fd] = @ \cup {"unhooked"}]
  /\ UNCHANGED <<kernel, ctx>>

(* The hooked call again: the FdCtx has the timeout already when the       *)
(* kernel refuses it, for its value or because the descriptor, whose       *)
(* FdCtx was left in the table, is not a socket any more.                  *)
SetTimeoutFails(fd, v) ==
  /\ ctx[fd] # NoCtx
  /\ ctx' = [ctx EXCEPT ![fd].timeout = v]
  /\ odd' = [odd EXCEPT ![fd] = @ \cup {"failed"}]
  /\ UNCHANGED <<kernel, wants>>

-----------------------------------------------------------------------------
FlagsInit ==
  /\ kernel = [fd \in Descriptors |-> Free]
  /\ ctx = [fd \in Descriptors |-> NoCtx]
  /\ wants = [fd \in Descriptors |-> Defaults]
  /\ odd = [fd \in Descriptors |-> {}]

FlagsNext ==
  \E fd \in Descriptors :
    \/ \E b \in BOOLEAN : Open(fd, b) \/ SetFl(fd, b) \/ Fionbio(fd, b)
    \/ OpenOther(fd) \/ CloseHooked(fd) \/ CloseUnhooked(fd)
    \/ \E v \in Timeouts :
         \/ SetTimeout(fd, v) \/ SetTimeoutUnhooked(fd, v)
         \/ SetTimeoutFails(fd, v)

FlagsSpec == FlagsInit /\ [][FlagsNext]_flagVars

-----------------------------------------------------------------------------
(* Besides the types: an open socket has its FdCtx, with or without an old *)
(* one in the table, and the FdCtx of a socket asks for O_NONBLOCK.        *)
SocketTypes ==
  /\ kernel \in [Descriptors -> [is : {"free", "socket", "other"},
                               nonblock : BOOLEAN]]
  /\ ctx \in [Descriptors -> [is : {"none", "socket"}, sys : BOOLEAN,
                            user : BOOLEAN, timeout : Timeouts \cup {Forever}]]
  /\ wants \in [Descriptors -> [nonblock : BOOLEAN,
                              timeout : Timeouts \cup {Forever}]]
  /\ odd \in [Descriptors -> SUBSET ({"born", "stale", "ioctl"} \cup Timing)]
  /\ \A fd \in Descriptors : /\ Is(fd, "socket") => Managed(fd)
                     /\ Managed(fd) => ctx[fd].sys

(* No call on a socket of corlib's blocks the worker: whatever the user    *)
(* sets, and whoever had the number before, the kernel's socket is         *)
(* non-blocking ("最终是否阻塞由系统设置决定", hook.cpp:493, and "如果是       *)
(* socket，则设置为非阻塞模式", fd_manager.cpp:56).  Two things alone make    *)
(* it block: ioctl(FIONBIO), which goes to the kernel too, and an FdCtx    *)
(* that a close() without hooks has left for the next socket to find.      *)
NeverBlocks ==
  \A fd \in Descriptors :
    Is(fd, "socket") /\ odd[fd] \cap {"ioctl", "stale"} = {}
      => kernel[fd].nonblock

(* do_io treats a socket the way its user asked for since it was opened,   *)
(* and F_GETFL says so ("呈现给用户的是用户设置的值", hook.cpp:515), unless     *)
(* the user asked with SOCK_NONBLOCK, which no FdCtx hears of, or the      *)
(* FdCtx is an older socket's.  Of its timeout the FdCtx knows what the    *)
(* last call asked for, unless that was {0, 0}, which takes the old one    *)
(* away for the kernel and is kept by hook.cpp:622 as one of 0 ms; or it   *)
(* was made without hooks (609-612); or one the kernel refused, which the  *)
(* FdCtx has taken before (622, 626), came after it.                       *)
UserView ==
  \A fd \in Descriptors :
    Is(fd, "socket") /\ odd[fd] \cap {"born", "stale"} = {}
      => /\ GetFl(fd) = wants[fd].nonblock
         /\ odd[fd] \cap Timing = {} => ctx[fd].timeout = wants[fd].timeout
=============================================================================
