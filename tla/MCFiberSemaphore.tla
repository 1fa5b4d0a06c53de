-------------------------- MODULE MCFiberSemaphore --------------------------
EXTENDS FiberSemaphore
CONSTANTS a, b, c

MCScenarios ==
  { (a :> <<"wait", "notify">> @@ b :> <<"wait", "notify">> @@ c :> <<"notify", "wait">>),
    (a :> <<"wait", "wait">> @@ b :> <<"tryWait", "notify">> @@ c :> <<"notify", "reset">>),
    (a :> <<"Lock", "unlock", "lock", "~Lock">>
       @@ b :> <<"Lock", "~Lock">> @@ c :> <<"Lock", "unlock", "~Lock">>),
    (a :> <<"ReadLock", "unlock", "lock", "~Lock">>
       @@ b :> <<"ReadLock", "~Lock">> @@ c :> <<"WriteLock", "unlock", "~Lock">>),
    (a :> <<"Lock", "wait", "~Lock">> @@ b :> <<"Lock", "lock", "~Lock">> @@ c :> <<"notify">>),
    (a :> <<"WriteLock", "wait", "~Lock">> @@ b :> <<"ReadLock", "~Lock">>
       @@ c :> <<"notify">>) }
=============================================================================
