----------------------------- MODULE CoRoutine -----------------------------
(***************************************************************************)
(* The coroutines of one thread in libco (libco/co_routine.cpp): the call  *)
(* stack, co_create, co_resume, co_yield, co_reset and co_free, and the    *)
(* stacks that several coroutines share, whose contents co_swap copies out *)
(* to a buffer and back.                                                   *)
(***************************************************************************)
EXTENDS Naturals, Sequences, FiniteSets, SequencesExt

CONSTANTS Cos,         \* coroutines
          StackCount,  \* stShareStack_t::count
          Main,        \* the thread's own coroutine
          Null

ASSUME CosAssumption == IsFiniteSet(Cos) /\ Main \notin Cos /\ Null \notin Cos
ASSUME StackCountAssumption == StackCount \in Nat \ {0}

Stacks == 0..(StackCount - 1)

VARIABLES callStack,   \* pCallStack[0 .. iCallStackSize - 1]
          life,        \* "none", "made", "started" (cStart) or "ended" (cEnd)
          stackMem,    \* the shared stack of each, or Null for one of its own
          allocIdx,
          occupy,      \* occupy_co of each shared stack
          content,     \* whose frames are on it; the code never reads it
          saved,       \* save_buffer: "none", "fresh", or "stale" once its
                       \* coroutine has run again
          vacated      \* history: stacks whose occupant was freed or reset
                       \* while another coroutine's frames were saved

coVars == <<callStack, life, stackMem, allocIdx, occupy, content, saved, vacated>>

Top == Last(callStack)
Shares(c) == stackMem[c] # Null    \* cIsShareStack
\* The frames of c are in place.
Intact(c) == Shares(c) /\ life[c] = "started" => content[stackMem[c]] = c
Runs(c) == Top = c /\ Intact(c)

-----------------------------------------------------------------------------
Copies(c) == LET last == occupy[stackMem[c]] IN last # Null /\ last # c

Restored(c, out, last) == IF life[c] = "made" \/ (Copies(c) /\ out[c] = "fresh") THEN c
                          ELSE IF Copies(c) /\ out[c] = "stale" THEN Null
                          ELSE last

\* Mutant: the occupant is not copied out.
SwapForgets(c) ==
  IF ~Shares(c) THEN UNCHANGED <<occupy, content, saved>>
  ELSE /\ occupy' = [occupy EXCEPT ![stackMem[c]] = c]
       /\ content' = [content EXCEPT ![stackMem[c]] = Restored(c, saved, @)]
       /\ saved' = [saved EXCEPT ![c] = IF @ = "fresh" THEN "stale" ELSE @]

\* co_swap to c: the stack's occupant is copied out, the contexts change, and
\* on its own stack c copies its frames back if another occupied it.  A
\* coroutine that starts has no frames yet.
co_swap(c) ==
  IF ~Shares(c) THEN UNCHANGED <<occupy, content, saved>>
  ELSE LET k   == stackMem[c]
           out == IF Copies(c) THEN [saved EXCEPT ![occupy[k]] = "fresh"] ELSE saved
       IN  /\ occupy' = [occupy EXCEPT ![k] = c]
           /\ content' = [content EXCEPT ![k] = Restored(c, out, @)]
           /\ saved' = [out EXCEPT ![c] = IF @ = "fresh" THEN "stale" ELSE @]

co_create(c) ==
  /\ life[c] = "none"
  /\ life' = [life EXCEPT ![c] = "made"]
  /\ \/ /\ stackMem' = [stackMem EXCEPT ![c] = allocIdx]
        /\ allocIdx' = (allocIdx + 1) % StackCount
     \/ stackMem' = [stackMem EXCEPT ![c] = Null] /\ UNCHANGED allocIdx
  /\ UNCHANGED <<callStack, occupy, content, saved, vacated>>

co_resume(c) ==
  /\ callStack' = Append(callStack, c)
  /\ life' = [life EXCEPT ![c] = "started"]
  /\ co_swap(c)
  /\ UNCHANGED <<stackMem, allocIdx, vacated>>

Back == /\ callStack' = Front(callStack)
        /\ co_swap(Last(Front(callStack)))
        /\ UNCHANGED <<stackMem, allocIdx, vacated>>

co_yield_env == Back /\ UNCHANGED life

\* CoRoutineFunc ends
CoRoutineFunc == Back /\ life' = [life EXCEPT ![Top] = "ended"]

\* The end of co_reset and co_free
Vacate(c) ==
  LET k == stackMem[c]
  IN  IF Shares(c) /\ occupy[k] = c
        THEN /\ occupy' = [occupy EXCEPT ![k] = Null]
             /\ vacated' = IF \E d \in Cos \ {c} :
                                life[d] = "started" /\ stackMem[d] = k
                             THEN vacated \cup {k} ELSE vacated
        ELSE UNCHANGED <<occupy, vacated>>

co_reset(c) ==
  /\ life[c] \in {"started", "ended"}
  /\ life' = [life EXCEPT ![c] = "made"]
  /\ saved' = [saved EXCEPT ![c] = "none"]
  /\ Vacate(c)
  /\ UNCHANGED <<callStack, stackMem, allocIdx, content>>

\* Mutant: the stack remembers a coroutine that is gone.
FreeKeepsOccupant(c) ==
  /\ life[c] # "none"
  /\ life' = [life EXCEPT ![c] = "none"]
  /\ saved' = [saved EXCEPT ![c] = "none"]
  /\ stackMem' = [stackMem EXCEPT ![c] = Null]
  /\ UNCHANGED <<callStack, allocIdx, content, occupy, vacated>>

co_free(c) ==
  /\ life[c] # "none"
  /\ life' = [life EXCEPT ![c] = "none"]
  /\ saved' = [saved EXCEPT ![c] = "none"]
  /\ stackMem' = [stackMem EXCEPT ![c] = Null]
  /\ Vacate(c)
  /\ UNCHANGED <<callStack, allocIdx, content>>

\* The coroutines have been made with shared stacks, each at its turn.
Turns == {turn \in [Cos -> 0..(Cardinality(Cos) - 1)] : IsInjective(turn)}
CoInit ==
  /\ callStack = <<Main>>
  /\ life = [c \in Cos \cup {Main} |-> IF c = Main THEN "started" ELSE "made"]
  /\ \E turn \in Turns :
       stackMem = [c \in Cos \cup {Main} |->
                     IF c = Main THEN Null ELSE turn[c] % StackCount]
  /\ allocIdx = Cardinality(Cos) % StackCount
  /\ occupy = [k \in Stacks |-> Null] /\ content = [k \in Stacks |-> Null]
  /\ saved = [c \in Cos |-> "none"] /\ vacated = {}

\* Beside the types: no stack has an occupant that has been freed, whose
\* frames the next co_swap would copy out.
CoTypeOK ==
  /\ callStack \in Seq(Cos \cup {Main}) /\ callStack # <<>> /\ Head(callStack) = Main
  /\ life \in [Cos \cup {Main} -> {"none", "made", "started", "ended"}]
  /\ stackMem \in [Cos \cup {Main} -> Stacks \cup {Null}] /\ allocIdx \in Stacks
  /\ occupy \in [Stacks -> Cos \cup {Null}] /\ content \in [Stacks -> Cos \cup {Null}]
  /\ saved \in [Cos -> {"none", "fresh", "stale"}] /\ vacated \subseteq Stacks
  /\ \A k \in Stacks : occupy[k] # Null => life[occupy[k]] # "none"

\* The coroutine that runs finds its own frames on its stack, whatever ran on
\* the stack meanwhile; unless the stack's occupant was freed or reset while
\* other coroutines were suspended on it (co_routine.cpp:545 and 593 forget
\* the occupant, and 671 copies nothing back when there was none).
StackIntact ==
  Intact(Top) \/ stackMem[Top] \in vacated
=============================================================================
