--------------------------- MODULE CameraProcess ---------------------------
(***************************************************************************)
(* The camera provider process with the threads that the camera blobs run  *)
(* in it, through the libutils of Android 12 (utils32).  They run while    *)
(* the provider serves, and are gone with the process.                     *)
(*                                                                         *)
(* The blobs and android::Thread are external.                             *)
(***************************************************************************)
EXTENDS SamsungCameraProvider

CONSTANT
    MaxRuns         \* bound: calls of Thread::run on the one thread object

ASSUME ProcessAssumption == MaxRuns \in Nat

VARIABLES
    runs,           \* strong references of the thread object taken by run()
    owned,          \* its owner holds a strong reference
    hold, strong,   \* android::Thread holds one: mHoldSelf, the loop's own
    running,        \* android::Thread has a kernel thread, or is creating it
    alive           \* the thread object has not been destroyed

threadVars == <<runs, owned, hold, strong, running, alive>>
processVars == <<providerVars, threadVars>>

NoThread ==
    /\ runs' = 0 /\ owned' = TRUE /\ hold' = FALSE /\ strong' = FALSE
    /\ running' = FALSE /\ alive' = TRUE

ProcessInit ==
    /\ ProviderInit
    /\ runs = 0 /\ owned = TRUE /\ hold = FALSE /\ strong = FALSE
    /\ running = FALSE /\ alive = TRUE

-----------------------------------------------------------------------------
(* One object of utils32::Thread                                           *)

\* The object is destroyed with its last strong reference.
Count == runs' + (IF owned' THEN 1 ELSE 0) + (IF hold' THEN 1 ELSE 0) + (IF strong' THEN 1 ELSE 0)

ThreadMoves ==
    /\ pc = "serving"
    /\ alive' = (Count > 0)
    /\ UNCHANGED providerVars

\* Mutant: no reference of its own.
RunUnheld == runs' = runs

\* forceIncStrong.
RunHeld == runs' = runs + 1

\* run(), by the owner: also when android::Thread::run refuses because the
\* thread is running, or fails to create one.
Run ==
    /\ owned /\ runs < MaxRuns
    /\ RunHeld
    /\ \/ ~running /\ running' = TRUE /\ hold' = TRUE
       \/ UNCHANGED <<running, hold>>
    /\ UNCHANGED <<owned, strong>>
    /\ ThreadMoves

\* The new thread takes over mHoldSelf.
LoopBegins ==
    /\ hold
    /\ hold' = FALSE /\ strong' = TRUE
    /\ UNCHANGED <<runs, owned, running>>
    /\ ThreadMoves

\* After every threadLoop the reference is dropped and taken again, which
\* works while somebody else has one; or the loop is over.
LoopGoesOn ==
    /\ strong
    /\ strong' = FALSE
    /\ running' \in {TRUE, FALSE}
    /\ UNCHANGED <<runs, owned, hold>>
    /\ ThreadMoves

Promote ==
    /\ running /\ ~hold /\ ~strong
    /\ strong' = alive /\ running' = alive
    /\ UNCHANGED <<runs, owned, hold>>
    /\ ThreadMoves

\* The owner drops the reference it had; the blob goes on with a raw pointer.
OwnerDrops ==
    /\ owned
    /\ owned' = FALSE
    /\ UNCHANGED <<runs, hold, strong, running>>
    /\ ThreadMoves

ThreadStep == Run \/ LoopBegins \/ LoopGoesOn \/ Promote \/ OwnerDrops

-----------------------------------------------------------------------------
\* The thread goes with the process.
ProviderStep ==
    ProviderNext /\ IF pc' = "dead" THEN NoThread ELSE UNCHANGED threadVars

ProcessNext == ProviderStep \/ ThreadStep

ProcessSpec == ProcessInit /\ [][ProcessNext]_processVars

-----------------------------------------------------------------------------
(* Properties                                                              *)

ProcessTypeOK ==
    /\ ProviderTypeOK
    /\ runs \in 0..MaxRuns
    /\ {owned, hold, strong, running, alive} \subseteq BOOLEAN
    /\ pc # "serving" => runs = 0

\* A thread that runs is there, although its owner may have dropped the reference
\* it had and the loop lets go of its own between two rounds: run() took one.
RunKeepsThread == running => alive
=============================================================================
