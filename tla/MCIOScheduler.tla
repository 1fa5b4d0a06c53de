--------------------------- MODULE MCIOScheduler ---------------------------
(* Small instances of IOScheduler for TLC.                                 *)
EXTENDS IOScheduler

CONSTANTS f1, f2

\* No fiber asks for a particular thread.
Unpinned == [f \in Fibers |-> AnyThread]

\* The first fiber asks for the thread that called the constructor.
FirstOnMain == [f \in Fibers |-> IF f = f1 THEN Main ELSE AnyThread]
=============================================================================
