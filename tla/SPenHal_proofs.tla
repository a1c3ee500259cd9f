--------------------------- MODULE SPenHal_proofs ---------------------------
(***************************************************************************)
(* Proofs about SPenHal: its types, the invariant behind the address it    *)
(* answers, and that it implements SPenStore.                              *)
(***************************************************************************)
EXTENDS SPenHal, TLAPS

-----------------------------------------------------------------------------
(* Types.  They rest on the steps of a call being those of its operation.  *)

\* The operation a call at a step of SPen.cpp belongs to.
StepsOK ==
    \A c \in Callers :
        /\ pc[c] = "idle" => call[c] = NoRequest
        /\ pc[c] # "idle" => call[c] \in Request
        /\ pc[c] \in {"probe", "readMnt", "readFactory"} => call[c].op = "getMACAddress"
        /\ pc[c] \in {"truncate", "write"} => call[c].op = "setMACAddress"
        /\ pc[c] = "charge" => call[c].op = "setCharging"
        /\ pc[c] = "status" => call[c].op \in {"isCharging", "setCharging"}
        /\ answer[c] = None <=> pc[c] # "done"

TypedSteps == TypeOK /\ StepsOK

\* What a request is, and what it is not.
LEMMA RequestShape ==
    /\ NoRequest \notin Request
    /\ \A r \in Request :
          /\ r.op \in {"getMACAddress", "setMACAddress", "isCharging", "setCharging"}
          /\ r.addr \in Value
          /\ r.on \in BOOLEAN
  BY DEF Request, NoRequest, Value

\* None stands for no answer and for nothing else.
LEMMA NoneIsNoAnswer == None \notin Answer
  BY InterfaceAssumption DEF Answer, Value

LEMMA InitTyped == Init => TypedSteps
  BY HalAssumption, NoneIsNoAnswer, RequestShape
     DEF Init, TypedSteps, TypeOK, StepsOK, FileMac, ReadFile, Value, NoRequest

\* A step of the HAL thread keeps the types and stays within its operation.
LEMMA ServeTyped ==
    ASSUME TypedSteps, NEW c \in Callers, Serve(c)
    PROVE  TypedSteps'
<1> USE RequestShape, NoneIsNoAnswer DEF TypedSteps, TypeOK, StepsOK, Serving
<1>1. CASE Probe(c)
  BY <1>1 DEF Probe
<1>2. CASE Read(c)
  BY <1>2 DEF Read, Reply, ReadFile, Answer, Value
<1>3. CASE Truncate(c)
  BY <1>3 DEF Truncate
<1>4. CASE Write(c)
  BY <1>4 DEF Write, Reply, Answer
<1>5. CASE Charge(c)
  BY <1>5 DEF Charge
<1>6. CASE Status(c)
  BY <1>6 DEF Status, Reply, Answer
<1> QED
  BY <1>1, <1>2, <1>3, <1>4, <1>5, <1>6 DEF Serve

\* So does an access that fails.
LEMMA AccessFailsTyped ==
    ASSUME TypedSteps, NEW c \in Callers, AccessFails(c)
    PROVE  TypedSteps'
<1> USE RequestShape, NoneIsNoAnswer, HalAssumption
    DEF TypedSteps, TypeOK, StepsOK, Serving
<1>1. CASE ProbeFails(c)
  BY <1>1 DEF ProbeFails
<1>2. CASE ReadFails(c)
  BY <1>2 DEF ReadFails, Reply, Answer, Value
<1>3. CASE OpenFails(c)
  BY <1>3 DEF OpenFails, Reply, Answer
<1>4. CASE WriteFails(c)
  BY <1>4 DEF WriteFails, Reply, Answer
<1>5. CASE ChargeFails(c)
  BY <1>5 DEF ChargeFails
<1>6. CASE StatusFails(c)
  <2>1. FALSE \in Answer
    BY DEF Answer
  <2>2. FALSE # None
    BY <2>1
  <2>3. answer' = [answer EXCEPT ![c] = FALSE]
    BY <1>6 DEF StatusFails, Reply
  <2>4. answer' \in [Callers -> Answer \cup {None}]
    BY <2>1, <2>3
  <2>5. pc' = [pc EXCEPT ![c] = "done"] /\ faults' \in 0..MaxFaults
    BY <1>6 DEF StatusFails, Reply
  <2>6. UNCHANGED <<mnt, disk, factory, charging, up, todo, call, stored>>
    BY <1>6 DEF StatusFails
  <2>7. TypeOK'
    BY <2>4, <2>5, <2>6
  <2>8. \A d \in Callers : answer'[d] = None <=> pc'[d] # "done"
    BY <2>2, <2>3, <2>5
  <2>9. pc'[c] = "done" /\ \A d \in Callers : d # c => pc'[d] = pc[d]
    BY <2>5
  <2>10. pc[c] = "status" /\ call' = call
    BY <1>6 DEF StatusFails
  <2>11. StepsOK'
    BY <2>8, <2>9, <2>10
  <2> QED
    BY <2>7, <2>11
<1> QED
  BY <1>1, <1>2, <1>3, <1>4, <1>5, <1>6 DEF AccessFails

LEMMA NextTyped == TypedSteps /\ [Next]_vars => TypedSteps'
<1> SUFFICES ASSUME TypedSteps, [Next]_vars PROVE TypedSteps'
  OBVIOUS
<1> USE RequestShape, NoneIsNoAnswer, HalAssumption
    DEF TypedSteps, TypeOK, StepsOK, Serving
<1>1. ASSUME NEW c \in Callers, Invoke(c) PROVE TypedSteps'
  BY <1>1 DEF Invoke
<1>2. ASSUME NEW c \in Callers, Dispatch(c) PROVE TypedSteps'
  BY <1>2 DEF Dispatch, FirstStep
<1>3. ASSUME NEW c \in Callers, AccessFails(c) PROVE TypedSteps'
  BY <1>3, AccessFailsTyped
<1>4. ASSUME NEW c \in Callers, Return(c) PROVE TypedSteps'
  BY <1>4 DEF Return
<1>5. CASE Crash
  <2>1. Dead # None
    BY DEF Answer
  <2>2. TypeOK'
    <3>1. pc' \in [Callers -> {"idle", "queued", "done"} \cup Serving]
      BY <1>5 DEF Crash
    <3>2. answer' \in [Callers -> Answer \cup {None}]
      <4>1. Dead \in Answer
        BY DEF Answer
      <4> QED
        BY <1>5, <4>1 DEF Crash
    <3>3. up' \in BOOLEAN
      BY <1>5 DEF Crash
    <3>4. faults' \in 0..MaxFaults
      BY <1>5 DEF Crash
    <3>5. todo' \in Seq(Callers)
      BY <1>5 DEF Crash
    <3> QED
      BY <1>5, <3>1, <3>2, <3>3, <3>4, <3>5 DEF Crash
  <2>3. StepsOK'
    BY <1>5, <2>1 DEF Crash
  <2> QED
    BY <2>2, <2>3
<1>6. CASE Restart \/ WriteBack \/ UNCHANGED vars
  <2>1. CASE Restart
    BY <2>1 DEF Restart
  <2>2. CASE WriteBack
    BY <2>2 DEF WriteBack
  <2>3. CASE UNCHANGED vars
    BY <2>3 DEF vars
  <2> QED
    BY <1>6, <2>1, <2>2, <2>3
<1>7. CASE PowerCut
  BY <1>7 DEF PowerCut
<1> QED
  BY <1>1, <1>2, <1>3, <1>4, <1>5, <1>6, <1>7, ServeTyped DEF Next

\* Every variable keeps its type, whatever the callers ask for and whichever
\* files exist.
THEOREM TypeCorrect == Spec => []TypeOK
<1>1. TypedSteps => TypeOK
  BY DEF TypedSteps
<1> QED
  BY InitTyped, NextTyped, <1>1, PTL DEF Spec

-----------------------------------------------------------------------------
(* One call is served at a time, so what a call found out about the files  *)
(* still holds at its next step.                                           *)

FilesOK ==
    \A c \in Callers :
        /\ pc[c] = "write" => mnt = Empty /\ call[c].addr \in stored
        /\ pc[c] = "readMnt" => mnt # Absent
        /\ pc[c] = "readFactory" /\ faults = 0 => mnt = Absent

\* Whatever the files hold has been offered or given before.
StoredOK == {mnt, disk, factory} \cap Value \subseteq stored

\* Without a fault a known address is in the files, or being written.
Kept ==
    faults = 0 /\ NoAddr \notin stored =>
        FileMac # NoAddr \/ \E c \in Callers : pc[c] = "write"

HalInv == TypedSteps /\ OneAtATime /\ FilesOK /\ StoredOK /\ Kept /\ KnownAddressIsServed

LEMMA InitHalInv == Init => HalInv
<1> SUFFICES ASSUME Init PROVE HalInv
  OBVIOUS
<1> USE HalAssumption, InterfaceAssumption
<1>1. OneAtATime /\ FilesOK
  BY DEF Init, OneAtATime, FilesOK, Serving
<1>2. StoredOK
  BY DEF Init, StoredOK, FileMac, ReadFile, Value
<1>3. Kept /\ KnownAddressIsServed
  BY DEF Init, Kept, KnownAddressIsServed
<1> QED
  BY InitTyped, <1>1, <1>2, <1>3 DEF HalInv

LEMMA NextOneAtATime == TypedSteps /\ OneAtATime /\ [Next]_vars => OneAtATime'
<1> SUFFICES ASSUME TypedSteps, OneAtATime, [Next]_vars PROVE OneAtATime'
  OBVIOUS
<1> USE DEF TypedSteps, TypeOK, OneAtATime, Serving
<1>1. ASSUME NEW c \in Callers, Invoke(c) PROVE OneAtATime'
  BY <1>1 DEF Invoke
<1>2. ASSUME NEW c \in Callers, Dispatch(c) PROVE OneAtATime'
  BY <1>2 DEF Dispatch, ThreadFree
<1>3. ASSUME NEW c \in Callers, Serve(c) PROVE OneAtATime'
  BY <1>3 DEF Serve, Probe, Read, Truncate, Write, Charge, Status, Reply
<1>4. ASSUME NEW c \in Callers, AccessFails(c) \/ Return(c) PROVE OneAtATime'
  BY <1>4 DEF AccessFails, ProbeFails, ReadFails, OpenFails, WriteFails, ChargeFails,
              StatusFails, Return, Reply
<1>5. CASE Crash
  BY <1>5 DEF Crash
<1>6. CASE Restart \/ WriteBack \/ PowerCut \/ UNCHANGED vars
  BY <1>6 DEF Restart, WriteBack, PowerCut, vars
<1> QED
  BY <1>1, <1>2, <1>3, <1>4, <1>5, <1>6 DEF Next

\* Whatever fails is counted.
LEMMA FailuresCount ==
    ASSUME TypedSteps, (\E c \in Callers : AccessFails(c)) \/ Crash \/ PowerCut
    PROVE  faults' # 0
<1>1. faults' = faults + 1
  BY DEF AccessFails, ProbeFails, ReadFails, OpenFails, WriteFails, ChargeFails,
         StatusFails, Crash, PowerCut
<1>2. faults \in Nat
  BY HalAssumption DEF TypedSteps, TypeOK
<1> QED
  BY <1>1, <1>2

LEMMA NextFilesOK == HalInv /\ [Next]_vars => FilesOK'
<1> SUFFICES ASSUME HalInv, [Next]_vars PROVE FilesOK'
  OBVIOUS
<1> USE DEF HalInv, TypedSteps, TypeOK, StepsOK, OneAtATime, FilesOK, Serving
<1>1. ASSUME NEW c \in Callers, Invoke(c) PROVE FilesOK'
  BY <1>1 DEF Invoke
<1>2. ASSUME NEW c \in Callers, Dispatch(c) PROVE FilesOK'
  BY <1>2, RequestShape DEF Dispatch, ThreadFree, FirstStep
<1>3. ASSUME NEW c \in Callers, Serve(c) PROVE FilesOK'
  <2>1. CASE Probe(c)
    BY <2>1 DEF Probe
  <2>2. CASE Read(c) \/ Status(c)
    BY <2>2 DEF Read, Status, Reply
  <2>3. CASE Truncate(c)
    BY <2>3 DEF Truncate
  <2>4. CASE Write(c)
    BY <2>4 DEF Write, Reply
  <2>5. CASE Charge(c)
    BY <2>5 DEF Charge
  <2> QED
    BY <1>3, <2>1, <2>2, <2>3, <2>4, <2>5 DEF Serve
<1>4. ASSUME NEW c \in Callers, AccessFails(c) PROVE FilesOK'
  <2>1. faults' # 0
    BY <1>4, FailuresCount
  <2> QED
    BY <1>4, <2>1 DEF AccessFails, ProbeFails, ReadFails, OpenFails, WriteFails,
                      ChargeFails, StatusFails, Reply
<1>5. ASSUME NEW c \in Callers, Return(c) PROVE FilesOK'
  BY <1>5 DEF Return
<1>6. CASE Crash \/ Restart \/ WriteBack \/ PowerCut \/ UNCHANGED vars
  BY <1>6 DEF Crash, Restart, WriteBack, PowerCut, vars
<1> QED
  BY <1>1, <1>2, <1>3, <1>4, <1>5, <1>6 DEF Next

LEMMA NextStoredOK == HalInv /\ [Next]_vars => StoredOK'
<1> SUFFICES ASSUME HalInv, [Next]_vars PROVE StoredOK'
  OBVIOUS
<1> USE HalAssumption DEF HalInv, StoredOK
<1>1. ASSUME NEW c \in Callers, Truncate(c) PROVE StoredOK'
  BY <1>1 DEF Truncate
<1>2. ASSUME NEW c \in Callers, Write(c) PROVE StoredOK'
  BY <1>2 DEF Write, FilesOK
<1>3. CASE WriteBack
  BY <1>3 DEF WriteBack
<1>4. CASE PowerCut
  BY <1>4 DEF PowerCut
<1>5. ASSUME UNCHANGED <<mnt, disk, factory, stored>> PROVE StoredOK'
  BY <1>5
<1> QED
  BY <1>1, <1>2, <1>3, <1>4, <1>5
     DEF Next, Invoke, Dispatch, Serve, Probe, Read, Charge, Status, AccessFails,
         ProbeFails, ReadFails, OpenFails, WriteFails, ChargeFails, StatusFails,
         Return, Crash, Restart, vars

\* Nothing turns a known address into the default while nothing fails.
LEMMA NextKept == HalInv /\ [Next]_vars => Kept'
<1> SUFFICES ASSUME HalInv, [Next]_vars, faults' = 0, NoAddr \notin stored'
             PROVE  FileMac' # NoAddr \/ \E c \in Callers : pc'[c] = "write"
  BY DEF Kept
<1> USE HalAssumption, InterfaceAssumption
    DEF HalInv, TypedSteps, TypeOK, Serving, Kept, FileMac, ReadFile
<1>1. ASSUME NEW c \in Callers, Invoke(c)
      PROVE  FileMac' # NoAddr \/ \E d \in Callers : pc'[d] = "write"
  BY <1>1 DEF Invoke, StepsOK
<1>2. ASSUME NEW c \in Callers, Dispatch(c)
      PROVE  FileMac' # NoAddr \/ \E d \in Callers : pc'[d] = "write"
  BY <1>2 DEF Dispatch, ThreadFree
<1>3. ASSUME NEW c \in Callers, Probe(c) \/ Read(c) \/ Charge(c) \/ Status(c) \/ Return(c)
      PROVE  FileMac' # NoAddr \/ \E d \in Callers : pc'[d] = "write"
  BY <1>3 DEF Probe, Read, Charge, Status, Return, Reply
<1>4. ASSUME NEW c \in Callers, Truncate(c)
      PROVE  FileMac' # NoAddr \/ \E d \in Callers : pc'[d] = "write"
  BY <1>4 DEF Truncate
<1>5. ASSUME NEW c \in Callers, Write(c)
      PROVE  FileMac' # NoAddr
  <2>1. call[c].addr \in stored /\ call[c].addr \in Value
    BY <1>5, RequestShape DEF Write, FilesOK, StepsOK
  <2> QED
    BY <1>5, <2>1 DEF Write, Value
<1>6. CASE Restart \/ WriteBack \/ UNCHANGED vars
  BY <1>6 DEF Restart, WriteBack, vars
<1>7. ASSUME \/ \E c \in Callers : AccessFails(c)
             \/ Crash
             \/ PowerCut
      PROVE  FALSE
  BY <1>7, FailuresCount
<1> QED
  BY <1>1, <1>2, <1>3, <1>4, <1>5, <1>6, <1>7 DEF Next, Serve

\* Only a read of a file can answer the default, and without a fault it reads
\* a known address.
LEMMA NextKnownAddress == HalInv /\ [Next]_vars => KnownAddressIsServed'
<1> SUFFICES ASSUME HalInv, [Next]_vars, faults' = 0, NoAddr \notin stored',
                    NEW d \in Callers
             PROVE  answer'[d] # NoAddr
  BY DEF KnownAddressIsServed
<1> USE InterfaceAssumption
    DEF HalInv, TypedSteps, TypeOK, KnownAddressIsServed
<1>1. ASSUME NEW c \in Callers, Read(c) PROVE answer'[d] # NoAddr
  <2>1. \A e \in Callers : pc[e] # "write"
    BY <1>1 DEF Read, OneAtATime, Serving
  <2>2. FileMac # NoAddr
    BY <1>1, <2>1 DEF Read, Kept
  <2>3. answer' = [answer EXCEPT ![c] = FileMac]
    BY <1>1 DEF Read, Reply, FilesOK, FileMac
  <2> QED
    BY <1>1, <2>2, <2>3 DEF Read
<1>2. ASSUME NEW c \in Callers, Truncate(c) PROVE answer'[d] # NoAddr
  BY <1>2 DEF Truncate
<1>3. ASSUME NEW c \in Callers, Write(c) \/ Status(c) PROVE answer'[d] # NoAddr
  <2>1. NoAddr \notin BOOLEAN \cup {Ok}
    OBVIOUS
  <2> QED
    BY <1>3, <2>1 DEF Write, Status, Reply
<1>4. ASSUME NEW c \in Callers, Return(c) PROVE answer'[d] # NoAddr
  BY <1>4 DEF Return
<1>5. ASSUME UNCHANGED <<answer, stored, faults>> PROVE answer'[d] # NoAddr
  BY <1>5
<1>6. ASSUME \/ \E c \in Callers : AccessFails(c)
             \/ Crash
             \/ PowerCut
      PROVE  FALSE
  BY <1>6, FailuresCount
<1> QED
  BY <1>1, <1>2, <1>3, <1>4, <1>5, <1>6
     DEF Next, Serve, Invoke, Dispatch, Probe, Charge, Restart, WriteBack, vars

\* The inductive invariant holds in every behaviour of the HAL.
THEOREM HalInvariant == Spec => []HalInv
<1>1. HalInv /\ [Next]_vars => HalInv'
  BY NextTyped, NextOneAtATime, NextFilesOK, NextStoredOK, NextKept, NextKnownAddress
     DEF HalInv
<1> QED
  BY InitHalInv, <1>1, PTL DEF Spec

\* As long as nothing fails, a pen address that was there or was stored is
\* never answered with "00:00:00:00:00:00": the single thread keeps a read
\* away from the moment in which a write has emptied the file.
THEOREM KnownAddressServed == Spec => []KnownAddressIsServed
<1>1. HalInv => KnownAddressIsServed
  BY DEF HalInv
<1> QED
  BY HalInvariant, <1>1, PTL

-----------------------------------------------------------------------------
(* Refinement: every step of the file-level HAL is a step of SPenStore or  *)
(* leaves the mapped state as it is.                                       *)

\* The address SPenStore sees: the one being written, else that of the files.
LEMMA MacOfWriter ==
    ASSUME OneAtATime, NEW c \in Callers, pc[c] = "write"
    PROVE  AbstractMac = call[c].addr
<1>1. \A d \in Callers : pc[d] = "write" => d = c
  BY DEF OneAtATime, Serving
<1> QED
  BY <1>1 DEF AbstractMac

LEMMA MacOfFiles ==
    ASSUME \A c \in Callers : pc[c] # "write"
    PROVE  AbstractMac = FileMac
  BY DEF AbstractMac

LEMMA MacOfWriterPrime ==
    ASSUME OneAtATime', NEW c \in Callers, pc'[c] = "write"
    PROVE  AbstractMac' = call'[c].addr
<1>1. \A d \in Callers : pc'[d] = "write" => d = c
  BY DEF OneAtATime, Serving
<1> QED
  BY <1>1 DEF AbstractMac

LEMMA MacOfFilesPrime ==
    ASSUME \A c \in Callers : pc'[c] # "write"
    PROVE  AbstractMac' = FileMac'
  BY DEF AbstractMac

\* Steps that move no file keep the abstract address.
LEMMA SameMac ==
    ASSUME UNCHANGED <<mnt, factory>>,
           \A c \in Callers : (pc'[c] = "write") <=> (pc[c] = "write"),
           \A c \in Callers : pc[c] = "write" => call'[c] = call[c],
           OneAtATime, OneAtATime'
    PROVE  AbstractMac' = AbstractMac
<1>1. CASE \E c \in Callers : pc[c] = "write"
  <2>1. PICK c \in Callers : pc[c] = "write"
    BY <1>1
  <2> QED
    BY <2>1, MacOfWriter, MacOfWriterPrime
<1>2. CASE \A c \in Callers : pc[c] # "write"
  BY <1>2, MacOfFiles, MacOfFilesPrime DEF FileMac
<1> QED
  BY <1>1, <1>2

LEMMA InitRefines == Init => Store!StoreInit
<1> SUFFICES ASSUME Init PROVE Store!StoreInit
  OBVIOUS
<1>1. AbstractMac = FileMac
  BY MacOfFiles DEF Init
<1>2. FileMac \in Value /\ FileMac \in stored /\ stored \subseteq Value
  BY DEF Init, FileMac, ReadFile, Value
<1>3. AbstractAnswer = [c \in Callers |-> None]
  BY DEF Init, AbstractAnswer
<1> QED
  BY <1>1, <1>2, <1>3 DEF Init, Store!StoreInit, Store!NoRequest, NoRequest, Store!Value, Value

\* While a call is served no other one is.
LEMMA OnlyServed ==
    ASSUME OneAtATime, NEW c \in Callers, pc[c] \in Serving
    PROVE  \A d \in Callers \ {c} : pc[d] \notin Serving
  BY DEF OneAtATime

\* A step that takes effect: the truncation of a set, the write of the
\* charging node, the read of a get, or the probe that sends it to the
\* factory's file.
LEMMA ServeRefines ==
    ASSUME HalInv, OneAtATime', NEW c \in Callers, Serve(c)
    PROVE  Store!Perform(c) \/ UNCHANGED Store!storeVars
<1> USE DEF HalInv, TypedSteps, TypeOK, StepsOK
<1>1. CASE Probe(c)
  <2>1. AbstractMac' = AbstractMac
    BY <1>1, SameMac DEF Probe
  <2>2. CASE mnt = Absent
    <3>1. \A d \in Callers : pc[d] # "write"
      BY <1>1 DEF Probe, OneAtATime, Serving
    <3>2. AbstractMac = ReadFile(factory)
      BY <2>2, <3>1, MacOfFiles DEF FileMac
    <3>3. AbstractAnswer[c] = None
      BY <1>1 DEF AbstractAnswer, Probe
    <3>4. AbstractAnswer' = [AbstractAnswer EXCEPT ![c] = ReadFile(factory)]
      BY <1>1, <2>2 DEF Probe, AbstractAnswer, ReadFile
    <3>5. call[c].op = "getMACAddress" /\ call[c] # Store!NoRequest
      BY <1>1, RequestShape DEF Probe, Store!NoRequest, NoRequest
    <3> QED
      BY <1>1, <2>1, <3>2, <3>3, <3>4, <3>5 DEF Probe, Store!Perform, Store!Outstanding
  <2>3. CASE mnt # Absent
    <3>1. AbstractAnswer' = AbstractAnswer
      BY <1>1, <2>3 DEF Probe, AbstractAnswer, ReadFile
    <3> QED
      BY <1>1, <2>1, <3>1 DEF Probe, Store!storeVars
  <2> QED
    BY <2>2, <2>3
<1>2. CASE Read(c)
  <2>1. \A d \in Callers : pc[d] # "write" /\ pc'[d] # "write"
    BY <1>2 DEF Read, Reply, OneAtATime, Serving
  <2>2. AbstractMac = FileMac /\ AbstractMac' = AbstractMac
    BY <1>2, <2>1, MacOfFiles, MacOfFilesPrime DEF Read, FileMac
  <2>3. CASE pc[c] = "readMnt"
    <3>1. answer' = [answer EXCEPT ![c] = FileMac]
      BY <1>2, <2>3 DEF Read, Reply, FilesOK, FileMac
    <3>2. AbstractAnswer[c] = None
      BY <2>3 DEF AbstractAnswer
    <3>3. AbstractAnswer' = [AbstractAnswer EXCEPT ![c] = FileMac]
      BY <1>2, <2>3, <3>1 DEF Read, Reply, AbstractAnswer, ReadFile
    <3>4. call[c].op = "getMACAddress" /\ call[c] # Store!NoRequest
      BY <2>3, RequestShape DEF Store!NoRequest, NoRequest
    <3> QED
      BY <1>2, <2>2, <3>2, <3>3, <3>4 DEF Read, Store!Perform, Store!Outstanding
  <2>4. CASE pc[c] = "readFactory"
    <3>1. AbstractAnswer' = AbstractAnswer
      BY <1>2, <2>4 DEF Read, Reply, AbstractAnswer, ReadFile
    <3> QED
      BY <1>2, <2>2, <3>1 DEF Read, Store!storeVars
  <2> QED
    BY <1>2, <2>3, <2>4 DEF Read
<1>3. CASE Truncate(c)
  <2>1. AbstractMac' = call[c].addr
    BY <1>3, MacOfWriterPrime DEF Truncate
  <2>2. AbstractAnswer[c] = None
    BY <1>3 DEF AbstractAnswer, Truncate
  <2>3. AbstractAnswer' = [AbstractAnswer EXCEPT ![c] = Ok]
    BY <1>3 DEF Truncate, AbstractAnswer
  <2>4. call[c].op = "setMACAddress" /\ call[c] # Store!NoRequest
    BY <1>3, RequestShape DEF Truncate, Store!NoRequest, NoRequest
  <2> QED
    BY <1>3, <2>1, <2>2, <2>3, <2>4 DEF Truncate, Store!Perform, Store!Outstanding
<1>4. CASE Write(c)
  <2>1. \A d \in Callers : pc'[d] # "write"
    BY <1>4 DEF Write, Reply, OneAtATime, Serving
  <2>2. call[c].addr \in Value
    BY <1>4, RequestShape DEF Write
  <2>3. FileMac' = call[c].addr
    BY <1>4, <2>2, HalAssumption DEF Write, FileMac, ReadFile
  <2>4. AbstractMac' = AbstractMac
    BY <1>4, <2>1, <2>3, MacOfWriter, MacOfFilesPrime DEF Write
  <2>5. AbstractAnswer' = AbstractAnswer
    BY <1>4 DEF Write, Reply, AbstractAnswer
  <2> QED
    BY <1>4, <2>4, <2>5 DEF Write, Store!storeVars
<1>5. CASE Charge(c)
  <2>1. AbstractMac' = AbstractMac
    BY <1>5, SameMac DEF Charge
  <2>2. AbstractAnswer[c] = None
    BY <1>5 DEF AbstractAnswer, Charge
  <2>3. call[c].op = "setCharging" /\ call[c] # Store!NoRequest
    BY <1>5, RequestShape DEF Charge, Store!NoRequest, NoRequest
  <2>4. AbstractAnswer' = [AbstractAnswer EXCEPT ![c] = call[c].on]
    BY <1>5, <2>3, OnlyServed DEF Charge, AbstractAnswer, ReadFile
  <2> QED
    BY <1>5, <2>1, <2>2, <2>3, <2>4 DEF Charge, Store!Perform, Store!Outstanding
<1>6. CASE Status(c)
  <2>1. AbstractMac' = AbstractMac
    BY <1>6, SameMac DEF Status, Reply
  <2>2. CASE call[c].op = "isCharging"
    <3>1. AbstractAnswer[c] = None /\ call[c] # Store!NoRequest
      BY <1>6, <2>2, RequestShape DEF AbstractAnswer, Status, Store!NoRequest, NoRequest
    <3>2. AbstractAnswer' = [AbstractAnswer EXCEPT ![c] = charging]
      BY <1>6, <2>2 DEF Status, Reply, AbstractAnswer, ReadFile
    <3> QED
      BY <1>6, <2>1, <2>2, <3>1, <3>2 DEF Status, Store!Perform, Store!Outstanding
  <2>3. CASE call[c].op = "setCharging"
    <3>1. AbstractAnswer' = AbstractAnswer
      BY <1>6, <2>3 DEF Status, Reply, AbstractAnswer, ReadFile
    <3> QED
      BY <1>6, <2>1, <3>1 DEF Status, Store!storeVars
  <2> QED
    BY <1>6, <2>2, <2>3 DEF Status
<1> QED
  BY <1>1, <1>2, <1>3, <1>4, <1>5, <1>6 DEF Serve

\* A failed write loses the address; every other access that fails is a call
\* that fails unnoticed.
LEMMA AccessFailsRefines ==
    ASSUME HalInv, OneAtATime', NEW c \in Callers, AccessFails(c)
    PROVE  Store!Fault \/ Store!Unnoticed(c)
<1> USE DEF HalInv, TypedSteps, TypeOK, StepsOK
<1>1. ASSUME pc[c] \in Serving
      PROVE  call[c] # Store!NoRequest /\ Store!Outstanding(c)
  BY <1>1, RequestShape DEF Serving, Store!Outstanding, Store!NoRequest, NoRequest
<1>2. CASE WriteFails(c)
  <2>1. \A d \in Callers : pc'[d] # "write"
    BY <1>2 DEF WriteFails, Reply, OneAtATime, Serving
  <2>2. AbstractMac' = NoAddr
    BY <1>2, <2>1, HalAssumption, MacOfFilesPrime
       DEF WriteFails, FilesOK, FileMac, ReadFile
  <2>3. AbstractAnswer' = AbstractAnswer
    BY <1>2 DEF WriteFails, Reply, AbstractAnswer, ReadFile
  <2>4. \E failed \in SUBSET {d \in Callers : Store!Outstanding(d)} :
           AbstractAnswer' = [d \in Callers |-> IF d \in failed THEN Dead ELSE AbstractAnswer[d]]
    <3>1. AbstractAnswer = [d \in Callers |-> IF d \in {} THEN Dead ELSE AbstractAnswer[d]]
      BY DEF AbstractAnswer
    <3> WITNESS {} \in SUBSET {d \in Callers : Store!Outstanding(d)}
    <3> QED
      BY <2>3, <3>1
  <2> QED
    BY <1>2, <2>2, <2>4 DEF WriteFails, Store!Fault
<1>3. CASE ProbeFails(c)
  <2>1. AbstractMac' = AbstractMac
    BY <1>3, SameMac DEF ProbeFails
  <2>2. AbstractAnswer[c] = None
    BY <1>3 DEF AbstractAnswer, ProbeFails
  <2>3. AbstractAnswer' = [AbstractAnswer EXCEPT ![c] = ReadFile(factory)]
    BY <1>3 DEF ProbeFails, AbstractAnswer, ReadFile
  <2>4. ReadFile(factory) \in stored \cup {NoAddr}
    BY DEF ReadFile, StoredOK
  <2>5. pc[c] \in Serving /\ call[c].op = "getMACAddress"
    BY <1>3 DEF ProbeFails, Serving
  <2>6. Dead # None
    BY InterfaceAssumption
  <2> QED
    BY <1>1, <1>3, <2>1, <2>2, <2>3, <2>4, <2>5, <2>6 DEF ProbeFails, Store!Unnoticed
<1>4. CASE ReadFails(c)
  <2>1. AbstractMac' = AbstractMac
    BY <1>4, SameMac DEF ReadFails, Reply
  <2>2. AbstractAnswer[c] \in Value \cup {None}
    BY <1>4 DEF AbstractAnswer, ReadFails, ReadFile, Value
  <2>3. AbstractAnswer' = [AbstractAnswer EXCEPT ![c] = NoAddr]
    BY <1>4 DEF ReadFails, Reply, AbstractAnswer, ReadFile
  <2>4. pc[c] \in Serving /\ call[c].op = "getMACAddress"
    BY <1>4 DEF ReadFails, Serving
  <2>5. Dead \notin Value \cup {None}
    BY InterfaceAssumption DEF Value
  <2> QED
    BY <1>1, <1>4, <2>1, <2>2, <2>3, <2>4, <2>5 DEF ReadFails, Store!Unnoticed
<1>5. CASE OpenFails(c)
  <2>1. AbstractMac' = AbstractMac
    BY <1>5, SameMac DEF OpenFails, Reply
  <2>2. AbstractAnswer[c] = None
    BY <1>5 DEF AbstractAnswer, OpenFails
  <2>3. AbstractAnswer' = [AbstractAnswer EXCEPT ![c] = Ok]
    BY <1>5 DEF OpenFails, Reply, AbstractAnswer, ReadFile
  <2>4. pc[c] \in Serving /\ call[c].op = "setMACAddress"
    BY <1>5 DEF OpenFails, Serving
  <2>5. Dead # None
    BY InterfaceAssumption
  <2> QED
    BY <1>1, <1>5, <2>1, <2>2, <2>3, <2>4, <2>5 DEF OpenFails, Store!Unnoticed
<1>6. CASE ChargeFails(c)
  <2>1. AbstractMac' = AbstractMac
    BY <1>6, SameMac DEF ChargeFails
  <2>2. AbstractAnswer[c] = None
    BY <1>6 DEF AbstractAnswer, ChargeFails
  <2>3. AbstractAnswer' = [AbstractAnswer EXCEPT ![c] = charging]
    BY <1>6 DEF ChargeFails, AbstractAnswer, ReadFile
  <2>4. pc[c] \in Serving /\ call[c].op = "setCharging"
    BY <1>6 DEF ChargeFails, Serving
  <2>5. Dead # None
    BY InterfaceAssumption
  <2> QED
    BY <1>1, <1>6, <2>1, <2>2, <2>3, <2>4, <2>5 DEF ChargeFails, Store!Unnoticed
<1>7. CASE StatusFails(c)
  <2>1. AbstractMac' = AbstractMac
    BY <1>7, SameMac DEF StatusFails, Reply
  <2>2. AbstractAnswer[c] \in {charging, None}
    BY <1>7 DEF AbstractAnswer, StatusFails
  <2>3. AbstractAnswer' = [AbstractAnswer EXCEPT ![c] = FALSE]
    BY <1>7 DEF StatusFails, Reply, AbstractAnswer, ReadFile
  <2>4. pc[c] \in Serving /\ call[c].op \in {"isCharging", "setCharging"}
    BY <1>7 DEF StatusFails, Serving
  <2>5. Dead \notin {charging, None}
    BY InterfaceAssumption DEF HalInv
  <2> QED
    BY <1>1, <1>7, <2>1, <2>2, <2>3, <2>4, <2>5 DEF StatusFails, Store!Unnoticed
<1> QED
  BY <1>2, <1>3, <1>4, <1>5, <1>6, <1>7 DEF AccessFails

LEMMA NextRefines ==
    HalInv /\ HalInv' /\ [Next]_vars => [Store!StoreNext]_(Store!storeVars)
<1> SUFFICES ASSUME HalInv, HalInv', [Next]_vars
             PROVE  Store!StoreNext \/ UNCHANGED Store!storeVars
  OBVIOUS
<1> USE DEF HalInv, TypedSteps, TypeOK, StepsOK
<1>1. ASSUME NEW c \in Callers, Invoke(c) PROVE Store!Invoke(c)
  <2>1. AbstractMac' = AbstractMac
    BY <1>1, SameMac DEF Invoke
  <2>2. AbstractAnswer' = AbstractAnswer
    BY <1>1 DEF Invoke, AbstractAnswer
  <2> QED
    BY <1>1, <2>1, <2>2
       DEF Invoke, Store!Invoke, Store!Outstanding, Store!NoRequest, NoRequest,
           Store!Request, Request, Store!Value, Value
<1>2. ASSUME NEW c \in Callers, Dispatch(c) PROVE UNCHANGED Store!storeVars
  <2>1. FirstStep(call[c].op) \in {"probe", "truncate", "status", "charge"}
    BY <1>2, RequestShape DEF Dispatch, FirstStep
  <2>2. FirstStep(call[c].op) = "status" => call[c].op = "isCharging"
    BY <1>2, RequestShape DEF Dispatch, FirstStep
  <2>3. AbstractMac' = AbstractMac
    BY <1>2, <2>1, SameMac DEF Dispatch
  <2>4. AbstractAnswer' = AbstractAnswer
    BY <1>2, <2>1, <2>2 DEF Dispatch, AbstractAnswer
  <2> QED
    BY <1>2, <2>3, <2>4 DEF Dispatch, Store!storeVars
<1>3. ASSUME NEW c \in Callers, AccessFails(c) PROVE Store!Fault \/ Store!Unnoticed(c)
  BY <1>3, AccessFailsRefines
<1>4. ASSUME NEW c \in Callers, Return(c) PROVE Store!Return(c)
  <2>1. AbstractMac' = AbstractMac
    BY <1>4, SameMac DEF Return
  <2>2. AbstractAnswer[c] # None
    BY <1>4 DEF Return, AbstractAnswer
  <2>3. AbstractAnswer' = [AbstractAnswer EXCEPT ![c] = None]
    BY <1>4 DEF Return, AbstractAnswer
  <2> QED
    BY <1>4, <2>1, <2>2, <2>3 DEF Return, Store!Return, Store!NoRequest, NoRequest
<1>5. CASE Crash
  <2>1. \A d \in Callers : pc'[d] # "write"
    BY <1>5 DEF Crash
  <2>2. AbstractMac' \in {AbstractMac, NoAddr}
    <3>1. AbstractMac' = FileMac
      BY <1>5, <2>1, MacOfFilesPrime DEF Crash, FileMac
    <3>2. CASE \E d \in Callers : pc[d] = "write"
      BY <3>1, <3>2, HalAssumption DEF FilesOK, FileMac, ReadFile
    <3>3. CASE \A d \in Callers : pc[d] # "write"
      BY <3>1, <3>3, MacOfFiles
    <3> QED
      BY <3>2, <3>3
  <2> DEFINE failed == {d \in Callers : pc[d] \notin {"idle", "done"}}
  <2>3. failed \subseteq {d \in Callers : Store!Outstanding(d)}
    BY RequestShape DEF Store!Outstanding, Store!NoRequest, NoRequest
  <2>4. AbstractAnswer' = [d \in Callers |-> IF d \in failed THEN Dead ELSE AbstractAnswer[d]]
    BY <1>5 DEF Crash, AbstractAnswer
  <2> QED
    BY <1>5, <2>2, <2>3, <2>4 DEF Crash, Store!Fault, Store!StoreNext
<1>6. CASE Restart \/ WriteBack
  <2>1. AbstractMac' = AbstractMac
    BY <1>6 DEF Restart, WriteBack, AbstractMac, FileMac
  <2>2. AbstractAnswer' = AbstractAnswer
    BY <1>6 DEF Restart, WriteBack, AbstractAnswer
  <2> QED
    BY <1>6, <2>1, <2>2 DEF Restart, WriteBack, Store!storeVars
<1>7. CASE PowerCut
  <2>1. AbstractMac' = FileMac'
    BY <1>7, MacOfFilesPrime DEF PowerCut
  <2>2. FileMac' \in stored \cup {NoAddr}
    BY <1>7, HalAssumption DEF PowerCut, FileMac, ReadFile, StoredOK, Value
  <2>3. AbstractAnswer' = [d \in Callers |-> None]
    BY <1>7 DEF PowerCut, AbstractAnswer
  <2> QED
    BY <1>7, <2>1, <2>2, <2>3 
       DEF PowerCut, Store!LosePower, Store!NoRequest, NoRequest, Store!StoreNext
<1>8. CASE UNCHANGED vars
  BY <1>8 DEF vars, Store!storeVars, AbstractMac, AbstractAnswer, FileMac
<1> QED
  BY <1>1, <1>2, <1>3, <1>4, <1>5, <1>6, <1>7, <1>8, ServeRefines
     DEF Next, Store!StoreNext

\* The file-level HAL implements the atomic store: what SPen.cpp does with
\* truncated and rewritten files looks to every caller as if each call took
\* effect at one instant.
THEOREM Implementation == Spec => ImplementsStore
  BY InitRefines, NextRefines, HalInvariant, PTL DEF Spec, ImplementsStore, Store!StoreSpec
=============================================================================
