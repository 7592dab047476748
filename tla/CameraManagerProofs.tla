------------------------- MODULE CameraManagerProofs -------------------------
(***************************************************************************)
(* Proofs about the camera manager, for any number of API goroutines, of   *)
(* requests, of streams and of consumers: the state is well typed, a       *)
(* runtime that was stopped is gone, footage is taken from one source at a *)
(* time (pull cameras), and a camera whose publishers have left says so    *)
(* (RTMP cameras).                                                         *)
(***************************************************************************)
EXTENDS CameraManager, FiniteSetTheorems, TLAPS

USE SourceTypeAssumption, BoundsAssumption, OperatorsAssumption

\* TypeOK with its records named, so that a step need not look into those it leaves alone.
OpRecord   == [pc : OpPCs, rt : Runtimes \cup {None}]
CamRuntime == [started : BOOLEAN, cancelled : BOOLEAN,
               stream : Streams \cup {None}, muxer : Streams \cup {None},
               state : States, pushCancel : Streams \cup {None}]
SupRecord  == [pc : SupPCs, attempt : Streams \cup {None}]
PubRecord  == [pc : PubPCs, starting : BOOLEAN, rt : Runtimes \cup {None},
               cancel : Streams \cup {None}, stream : Streams \cup {None}]
Reading    == [Consumers -> {"none", "started", "reading", "late"}]

Typing ==
  /\ mu \in Operators \cup {"free"}
  /\ cams \in 0..made /\ made \in Runtimes /\ requests \in 0..MaxRequests /\ made <= requests + 1
  /\ op \in [Operators -> OpRecord]
  /\ rt \in [Runtimes -> CamRuntime]
  /\ sup \in [Runtimes -> SupRecord]
  /\ src \in [Streams -> {"none", "dial", "up", "failed", "ended"}]
  /\ pub \in [Streams -> PubRecord]
  /\ closed \subseteq Streams /\ ctxDone \subseteq Streams
  /\ owner \in [Streams -> Runtimes \cup {None}]
  /\ cons \in [Streams -> Reading]
  /\ stopped \subseteq Runtimes /\ raced \in BOOLEAN
  /\ mu # "free" => op[mu].pc \in {"cancel", "close", "wait", "insert"}

\* Typing says what TypeOK says of all but the history of the streams stop() cannot see, and
\* that the map holds a runtime that was made.
UnseenTyped == unseen \subseteq Streams

LEMMA TypingIsTypeOK == Typing /\ UnseenTyped => TypeOK
  BY DEF Typing, UnseenTyped, TypeOK, OpRecord, CamRuntime, SupRecord, PubRecord, Reading,
         Runtimes, None

-----------------------------------------------------------------------------
(***************************************************************************)
(* Types. That a request creates at most one runtime, and a dial takes a   *)
(* stream nobody has, is a matter of counting.                             *)
(***************************************************************************)

Stopping == {"cancel", "close", "wait"}

\* Requests that will still put a runtime into the map.
Inserters == {o \in Operators : \/ op[o].pc \in {"lock", "relock", "insert"}
                                \/ op[o].pc \in Stopping /\ mu = o}

RequestsCounted == IsFiniteSet(Inserters) /\ made + Cardinality(Inserters) <= requests + 1

\* The streams of a pull camera are numbered by its attempts.
AttemptsInOrder == attempts \in Nat /\ \A s \in Streams : src[s] # "none" <=> s <= attempts

\* A request that stops or starts a runtime has one, and inserts under m.mu.
RequestsKnow ==
  /\ \A o \in Operators :
       /\ op[o].pc \in Stopping \cup {"start", "go"} => op[o].rt \in 1..made
       /\ op[o].pc = "insert" => mu = o

\* A supervisor past the dial has an attempt, whose source was started.
Attempting == {"dialing", "ready", "serving", "clear", "drain"}
AttemptsKnown ==
  \A r \in Runtimes : sup[r].pc \in Attempting =>
    /\ sup[r].attempt \in Streams
    /\ src[sup[r].attempt] # "none"

\* A connection between its lookups has a runtime.
AtRuntime == {"read", "cancel", "clear", "connecting", "context", "attach", "consume"}
PublishersKnow == \A p \in Streams : pub[p].pc \in AtRuntime => pub[p].rt \in 1..made

TypeInv ==
  /\ Typing /\ RequestsCounted /\ AttemptsInOrder
  /\ RequestsKnow /\ AttemptsKnown /\ PublishersKnow

\* The dials so far can be counted.
LEMMA AttemptsFinite == attempts \in Nat /\ IsFiniteSet({s \in Streams : src[s] # "none"})
<1>1. IsFiniteSet(Streams)
  BY FS_Interval DEF Streams
<1>. QED BY <1>1, FS_Subset, FS_CardinalityType DEF attempts

\* The i-th dial is the first that uses stream i.
LEMMA DialTakesNext ==
  ASSUME TypeInv, NEW r \in Runtimes, Dial(r), sup'[r].pc = "dialing"
  PROVE  /\ attempts + 1 \in Streams
         /\ AttemptsInOrder'
<1>. DEFINE used == {s \in Streams : src[s] # "none"}
<1>1. /\ attempts < MaxStreams
      /\ src' = [src EXCEPT ![attempts + 1] = "dial"]
  BY DEF Dial, SupGoto, TypeInv, Typing, SupRecord
<1>2. attempts + 1 \in Streams
  BY <1>1, AttemptsFinite DEF Streams
<1>3. used' = used \cup {attempts + 1} /\ attempts + 1 \notin used
  BY <1>1, <1>2 DEF TypeInv, Typing, AttemptsInOrder
<1>4. attempts' = attempts + 1
  <2>1. IsFiniteSet(used) /\ attempts = Cardinality(used) /\ attempts' = Cardinality(used')
    BY AttemptsFinite DEF attempts
  <2>. HIDE DEF used
  <2>2. Cardinality(used \cup {attempts + 1}) = Cardinality(used) + 1
    BY <1>3, <2>1, FS_AddElement
  <2>. QED BY <1>3, <2>1, <2>2
<1>. QED BY <1>1, <1>2, <1>4 DEF TypeInv, Typing, AttemptsInOrder, Streams

\* The dials so far are what they were as long as no source is started.
LEMMA AttemptsKept ==
  ASSUME TypeInv, \A s \in Streams : src'[s] = "none" <=> src[s] = "none"
  PROVE  AttemptsInOrder'
<1>1. {s \in Streams : src'[s] # "none"} = {s \in Streams : src[s] # "none"}
  OBVIOUS
<1>. QED BY <1>1 DEF attempts, AttemptsInOrder, TypeInv

\* What is known of the requests stays while none of them moves.
LEMMA RequestsKept ==
  ASSUME TypeInv, UNCHANGED opVars
  PROVE  RequestsCounted' /\ RequestsKnow'
  BY DEF TypeInv, opVars, RequestsCounted, Inserters, RequestsKnow

-----------------------------------------------------------------------------
\* What a request's step does to its record, and to no other's.
LEMMA OpStep ==
  ASSUME Typing, NEW o \in Operators, NEW rec \in OpRecord, op' = [op EXCEPT ![o] = rec]
  PROVE  /\ op' \in [Operators -> OpRecord]
         /\ op'[o] = rec
         /\ \A q \in Operators \ {o} : op'[q] = op[q]
  BY DEF Typing

\* A request that moves on keeps the runtime it has.
LEMMA GotoStep ==
  ASSUME Typing, NEW o \in Operators, NEW pc \in OpPCs, Goto(o, pc)
  PROVE  /\ op' \in [Operators -> OpRecord]
         /\ op'[o].pc = pc /\ op'[o].rt = op[o].rt
         /\ \A q \in Operators \ {o} : op'[q] = op[q]
  BY DEF Typing, Goto, OpRecord

\* The fields of a runtime are assigned to one by one.
LEMMA RuntimeStep ==
  ASSUME Typing, NEW r \in Runtimes, NEW rec \in CamRuntime, rt' = [rt EXCEPT ![r] = rec]
  PROVE  /\ rt' \in [Runtimes -> CamRuntime]
         /\ rt'[r] = rec
         /\ \A q \in Runtimes \ {r} : rt'[q] = rt[q]
  BY DEF Typing

\* The steps of a request that are not about counting: it moves, and the lock with it.
LockMoves(o) ==
  /\ mu' = mu \/ (mu = "free" /\ mu' = o) \/ (mu = o /\ mu' = "free")
  /\ mu' = o => op'[o].pc \in Stopping \cup {"insert"}
  /\ op'[o].pc = "insert" => mu' = o

OpMoves(o) ==
  /\ op' \in [Operators -> OpRecord]
  /\ \A q \in Operators \ {o} : op'[q] = op[q]
  /\ op'[o].pc \in Stopping \cup {"start", "go"} => op'[o].rt \in 1..made'

MapMoves ==
  /\ made' \in Runtimes /\ made <= made' /\ cams' \in 0..made'
  /\ requests' \in 0..MaxRequests /\ made' <= requests' + 1

\* Any step of a request that keeps to LockMoves, OpMoves and MapMoves keeps the types.
LEMMA RequestMoves ==
  ASSUME TypeInv, NEW o \in Operators, LockMoves(o), OpMoves(o), MapMoves, RequestsCounted',
         rt' \in [Runtimes -> CamRuntime],
         closed' \subseteq Streams, stopped' \subseteq Runtimes, raced' \in BOOLEAN,
         UNCHANGED <<src, pub, ctxDone, owner, cons>>,
         sup' \in [Runtimes -> SupRecord],
         \A r \in Runtimes : sup'[r].pc \in Attempting => sup'[r] = sup[r]
  PROVE  TypeInv'
<1>. USE DEF TypeInv
<1>1. Typing'
  <2>1. mu' \in Operators \cup {"free"}
    BY DEF Typing, LockMoves
  <2>2. ASSUME mu' # "free" PROVE op'[mu'].pc \in {"cancel", "close", "wait", "insert"}
    <3>1. CASE mu' = o
      BY <3>1 DEF LockMoves, Stopping
    <3>2. CASE mu' # o
      <4>1. mu' = mu
        BY <2>2, <3>2 DEF LockMoves
      <4>. QED BY <2>1, <2>2, <3>2, <4>1 DEF OpMoves, Typing
    <3>. QED BY <3>1, <3>2
  <2>. QED BY <2>1, <2>2 DEF Typing, OpMoves, MapMoves
<1>2. AttemptsInOrder'
  BY AttemptsKept
<1>3. RequestsKnow'
  <2>. SUFFICES ASSUME NEW q \in Operators
                PROVE  /\ op'[q].pc \in Stopping \cup {"start", "go"} => op'[q].rt \in 1..made'
                       /\ op'[q].pc = "insert" => mu' = q
    BY DEF RequestsKnow
  <2>1. CASE q = o
    BY <2>1 DEF OpMoves, LockMoves
  <2>2. CASE q # o
    <3>1. op'[q] = op[q]
      BY <2>2 DEF OpMoves
    <3>2. op[q].pc \in Stopping \cup {"start", "go"} => op[q].rt \in 1..made
      BY DEF RequestsKnow
    <3>3. op[q].pc = "insert" => mu = q
      BY DEF RequestsKnow
    <3>. QED BY <2>2, <3>1, <3>2, <3>3 DEF LockMoves, MapMoves, Typing, Runtimes
  <2>. QED BY <2>1, <2>2
<1>4. AttemptsKnown' /\ PublishersKnow'
  BY DEF AttemptsKnown, PublishersKnow, Typing, MapMoves, Runtimes
<1>. QED BY <1>1, <1>2, <1>3, <1>4

\* The requests that will insert are the same ones, whoever moved.
LEMMA SameInserters ==
  ASSUME TypeInv, Inserters' = Inserters, UNCHANGED <<made, requests>>, cams' \in 0..made
  PROVE  RequestsCounted' /\ MapMoves
  BY DEF TypeInv, Typing, RequestsCounted, MapMoves, Runtimes

\* A new request will insert at most one more runtime.
LEMMA RequestTypes ==
  ASSUME TypeInv, NEW o \in Operators, Request(o)
  PROVE  TypeInv'
<1>. USE DEF TypeInv
<1>1. /\ op[o].pc = "idle" /\ requests' = requests + 1 /\ requests < MaxRequests
      /\ UNCHANGED <<mu, cams, made, rt, sup, src, pub, closed, ctxDone, owner, cons, stopped, raced>>
  BY DEF Request, streamVars
<1>2. PICK pc \in {"lock", "remove", "relock"} : Goto(o, pc)
  BY DEF Request
<1>3. /\ op' \in [Operators -> OpRecord]
      /\ op'[o].pc = pc
      /\ \A q \in Operators \ {o} : op'[q] = op[q]
  BY <1>2, GotoStep DEF OpPCs
<1>4. mu # o
  BY <1>1 DEF Typing
<1>5. RequestsCounted'
  <2>1. Inserters' = Inserters \/ Inserters' = Inserters \cup {o}
    BY <1>1, <1>2, <1>3 DEF Inserters, Stopping
  <2>2. Cardinality(Inserters) \in Nat
    BY FS_CardinalityType DEF RequestsCounted
  <2>3. /\ IsFiniteSet(Inserters')
        /\ Cardinality(Inserters') = Cardinality(Inserters) \/ Cardinality(Inserters') = Cardinality(Inserters) + 1
    BY <2>1, FS_AddElement DEF RequestsCounted
  <2>. QED BY <1>1, <2>2, <2>3 DEF RequestsCounted, Typing, Runtimes
<1>6. LockMoves(o) /\ OpMoves(o)
  BY <1>1, <1>3, <1>4 DEF LockMoves, OpMoves, Stopping
<1>7. MapMoves
  BY <1>1 DEF MapMoves, Typing, Runtimes
<1>. QED BY <1>1, <1>5, <1>6, <1>7, RequestMoves DEF Typing

\* A request that takes the camera knows the runtime it found.
LEMMA StartCameraTypes ==
  ASSUME TypeInv, NEW o \in Operators, StartCamera(o) \/ RemoveCamera(o)
  PROVE  TypeInv'
<1>. USE DEF TypeInv
<1>1. /\ op[o].pc \in {"lock", "relock", "remove"} /\ mu = "free" /\ o # "free"
      /\ cams' \in {cams, None} /\ raced' \in BOOLEAN
      /\ mu' = IF op[o].pc = "remove" THEN mu ELSE o
      /\ UNCHANGED <<made, requests, rt, sup, src, pub, closed, ctxDone, owner, cons, stopped>>
  BY DEF StartCamera, RemoveCamera, streamVars, Typing, Halfway
<1>2. PICK pc \in {"cancel", "insert", "idle"} :
        /\ op' = [op EXCEPT ![o] = [pc |-> pc, rt |-> cams]]
        /\ cams = None => pc # "cancel"
        /\ op[o].pc = "remove" => pc # "insert"
        /\ op[o].pc # "remove" => pc # "idle"
  BY DEF StartCamera, RemoveCamera
<1>3. /\ op' \in [Operators -> OpRecord]
      /\ op'[o].pc = pc /\ op'[o].rt = cams
      /\ \A q \in Operators \ {o} : op'[q] = op[q]
  <2>. DEFINE rec == [pc |-> pc, rt |-> cams]
  <2>1. rec \in OpRecord
    BY DEF OpPCs, Typing, OpRecord, None, Runtimes
  <2>2. rec.pc = pc /\ rec.rt = cams
    OBVIOUS
  <2>. HIDE DEF rec
  <2>3. op' = [op EXCEPT ![o] = rec]
    BY <1>2 DEF rec
  <2>. QED BY <2>1, <2>2, <2>3, OpStep
<1>4. Inserters' = Inserters
  BY <1>1, <1>2, <1>3 DEF Inserters, Stopping
<1>5. LockMoves(o)
  BY <1>1, <1>2, <1>3 DEF LockMoves, Stopping
<1>6. OpMoves(o)
  BY <1>1, <1>2, <1>3 DEF OpMoves, Stopping, Typing, None, Runtimes
<1>7. RequestsCounted' /\ MapMoves
  BY <1>1, <1>4, SameInserters DEF Typing, None, Runtimes
<1>. QED BY <1>1, <1>5, <1>6, <1>7, RequestMoves DEF Typing

\* stop() changes one runtime, and its request still inserts if it holds m.mu.
LEMMA StopTypes ==
  ASSUME TypeInv, NEW o \in Operators, StopCancel(o) \/ StopClose(o) \/ StopWait(o)
  PROVE  TypeInv'
<1>. USE DEF TypeInv
<1>0. op[o].pc \in Stopping /\ op[o].rt \in 1..made /\ op[o].rt \in Runtimes
  BY DEF StopCancel, StopClose, StopWait, RequestsKnow, Typing, Stopping, Runtimes
<1>1. UNCHANGED <<mu, cams, made, requests, sup, src, pub, ctxDone, owner, cons, raced>>
  BY DEF StopCancel, StopClose, StopWait, streamVars
<1>2. /\ op' \in [Operators -> OpRecord]
      /\ \A q \in Operators \ {o} : op'[q] = op[q]
      /\ \/ op'[o].pc \in Stopping /\ op'[o].rt = op[o].rt
         \/ op'[o].pc = (IF mu = o THEN "insert" ELSE "idle")
  <2>1. CASE StopCancel(o)
    BY <2>1, GotoStep DEF StopCancel, OpPCs, Stopping
  <2>2. CASE StopClose(o)
    BY <2>2, GotoStep DEF StopClose, OpPCs, Stopping
  <2>3. CASE StopWait(o)
    <3>. DEFINE rec == [pc |-> IF mu = o THEN "insert" ELSE "idle", rt |-> None]
    <3>1. rec \in OpRecord /\ op' = [op EXCEPT ![o] = rec]
      BY <2>3 DEF OpPCs, StopWait, OpRecord
    <3>2. rec.pc = IF mu = o THEN "insert" ELSE "idle"
      OBVIOUS
    <3>. HIDE DEF rec
    <3>. QED BY <3>1, <3>2, OpStep
  <2>. QED BY <2>1, <2>2, <2>3
<1>3. Inserters' = Inserters
  BY <1>0, <1>1, <1>2 DEF Inserters, Stopping
<1>4. /\ rt' \in [Runtimes -> CamRuntime]
      /\ closed' \subseteq Streams /\ stopped' \subseteq Runtimes
  <2>0. PICK r \in Runtimes : r = op[o].rt
    BY <1>0
  <2>00. rt[r] \in CamRuntime
    BY DEF Typing
  <2>1. CASE StopCancel(o)
    <3>1. rt' = [rt EXCEPT ![r].cancelled = rt[r].started] /\ closed' = closed /\ stopped' = stopped
      BY <2>0, <2>1 DEF StopCancel, streamVars
    <3>. QED BY <2>00, <3>1 DEF Typing, CamRuntime
  <2>2. CASE StopClose(o)
    <3>1. rt[r].stream \in Streams \cup {None}
      BY <2>00 DEF CamRuntime
    <3>. QED BY <2>0, <2>2, <3>1 DEF StopClose, Typing
  <2>3. CASE StopWait(o)
    BY <2>0, <2>3 DEF StopWait, streamVars, Typing
  <2>. QED BY <2>1, <2>2, <2>3
<1>5. LockMoves(o)
  BY <1>0, <1>1, <1>2 DEF Stopping, LockMoves
<1>6. OpMoves(o)
  BY <1>0, <1>1, <1>2 DEF Stopping, OpMoves
<1>7. RequestsCounted' /\ MapMoves
  BY <1>1, <1>3, SameInserters DEF Typing
<1>. QED BY <1>1, <1>4, <1>5, <1>6, <1>7, RequestMoves DEF Typing

\* The request that inserts had a runtime left to make.
LEMMA InsertTypes ==
  ASSUME TypeInv, NEW o \in Operators, Insert(o)
  PROVE  TypeInv'
<1>. USE DEF TypeInv
<1>1. /\ op[o].pc = "insert" /\ mu = o /\ mu' = "free" /\ made' = made + 1 /\ cams' = made + 1
      /\ op' = [op EXCEPT ![o] = [pc |-> "start", rt |-> made + 1]]
      /\ UNCHANGED <<requests, rt, sup, src, pub, closed, ctxDone, owner, cons, stopped, raced>>
  BY DEF Insert, streamVars, RequestsKnow
<1>2. /\ IsFiniteSet(Inserters \ {o}) /\ Cardinality(Inserters \ {o}) \in Nat
      /\ Cardinality(Inserters \ {o}) = Cardinality(Inserters) - 1
  <2>1. o \in Inserters
    BY <1>1 DEF Inserters
  <2>. QED BY <2>1, FS_RemoveElement, FS_CardinalityType DEF RequestsCounted
<1>3. made + 1 \in Runtimes /\ made + 1 <= requests + 1 /\ Cardinality(Inserters) \in Nat
  <2>1. Cardinality(Inserters) \in Nat
    BY FS_CardinalityType DEF RequestsCounted
  <2>. QED BY <1>2, <2>1 DEF RequestsCounted, Typing, Runtimes
<1>4. /\ op' \in [Operators -> OpRecord]
      /\ op'[o].pc = "start" /\ op'[o].rt = made + 1
      /\ \A q \in Operators \ {o} : op'[q] = op[q]
  <2>. DEFINE rec == [pc |-> "start", rt |-> made + 1]
  <2>1. rec \in OpRecord /\ rec.pc = "start" /\ rec.rt = made + 1
    BY <1>3 DEF OpPCs, OpRecord
  <2>. QED BY <1>1, <2>1, OpStep
<1>5. Inserters' = Inserters \ {o}
  BY <1>1, <1>4 DEF Inserters, Stopping, RequestsKnow
<1>6. RequestsCounted'
  BY <1>1, <1>2, <1>3, <1>5 DEF RequestsCounted, Typing, Runtimes
<1>7. MapMoves
  BY <1>1, <1>3 DEF MapMoves, Typing, Runtimes
<1>8. OpMoves(o)
  BY <1>1, <1>3, <1>4 DEF OpMoves, Typing, Runtimes
<1>9. LockMoves(o)
  BY <1>1, <1>4 DEF LockMoves
<1>. QED BY <1>1, <1>6, <1>7, <1>8, <1>9, RequestMoves DEF Typing

\* A started runtime's record, and a supervisor that begins its loop.
LEMMA StartTypes ==
  ASSUME TypeInv, NEW o \in Operators, StartContext(o) \/ StartSupervisor(o)
  PROVE  TypeInv'
<1>. USE DEF TypeInv
<1>0. op[o].pc \in {"start", "go"} /\ op[o].rt \in 1..made /\ op[o].rt \in Runtimes
  BY DEF StartContext, StartSupervisor, RequestsKnow, Typing, Runtimes
<1>00. mu # o
  BY <1>0 DEF Typing
<1>1. UNCHANGED <<mu, cams, made, requests, src, pub, closed, ctxDone, owner, cons, stopped, raced>>
  BY DEF StartContext, StartSupervisor, streamVars
<1>r. PICK r \in Runtimes : r = op[o].rt
  BY <1>0
<1>2. /\ op' \in [Operators -> OpRecord]
      /\ \A q \in Operators \ {o} : op'[q] = op[q]
      /\ op'[o].pc = "idle" \/ (op'[o].pc = "go" /\ op'[o].rt = op[o].rt)
  <2>1. PICK rec \in OpRecord : /\ rec.pc = "idle" \/ (rec.pc = "go" /\ rec.rt = op[o].rt)
                                /\ op' = [op EXCEPT ![o] = rec]
    <3>1. [pc |-> "idle", rt |-> None] \in OpRecord
      BY DEF OpRecord, OpPCs
    <3>2. op[o] \in OpRecord
      BY DEF Typing
    <3>3. [op[o] EXCEPT !.pc = "go"] \in OpRecord /\ [op[o] EXCEPT !.pc = "go"].rt = op[o].rt /\ [op[o] EXCEPT !.pc = "go"].pc = "go"
      BY <3>2 DEF OpRecord, OpPCs
    <3>4. op' = [op EXCEPT ![o] = [pc |-> "idle", rt |-> None]] \/ op' = [op EXCEPT ![o] = [op[o] EXCEPT !.pc = "go"]]
      BY DEF StartContext, StartSupervisor, Typing
    <3>. QED BY <3>1, <3>3, <3>4
  <2>. QED BY <2>1, OpStep
<1>3. Inserters' = Inserters
  BY <1>0, <1>1, <1>2 DEF Inserters, Stopping
<1>4. RequestsCounted' /\ MapMoves
  BY <1>1, <1>3, SameInserters DEF Typing
<1>5. LockMoves(o) /\ OpMoves(o)
  BY <1>0, <1>00, <1>1, <1>2 DEF LockMoves, OpMoves, Stopping
<1>6. rt' \in [Runtimes -> CamRuntime]
  <2>1. rt[r] \in CamRuntime
    BY DEF Typing
  <2>2. CASE StartContext(o)
    <3>. DEFINE begun == [rt EXCEPT ![r].started = TRUE]
                state == IF SourceType = "rtmp" THEN "connecting" ELSE rt[r].state
    <3>1. begun \in [Runtimes -> CamRuntime] /\ state \in States /\ begun[r].state = rt[r].state
      BY <2>1 DEF Typing, CamRuntime, States
    <3>2. rt' = [begun EXCEPT ![r].state = state]
      BY <1>r, <2>2, <3>1 DEF StartContext, Typing
    <3>. HIDE DEF begun, state
    <3>. QED BY <3>1, <3>2 DEF CamRuntime
  <2>3. CASE StartSupervisor(o)
    BY <2>3 DEF StartSupervisor, Typing
  <2>. QED BY <2>2, <2>3
<1>7. /\ sup' \in [Runtimes -> SupRecord]
      /\ \A q \in Runtimes : sup'[q].pc \in Attempting => sup'[q] = sup[q]
  <2>1. sup' = sup \/ sup' = [sup EXCEPT ![r].pc = "loop"]
    BY <1>r DEF StartContext, StartSupervisor
  <2>. QED BY <2>1 DEF Typing, SupRecord, SupPCs, Attempting
<1>. QED BY <1>1, <1>4, <1>5, <1>6, <1>7, RequestMoves DEF Typing

-----------------------------------------------------------------------------
\* A step of another goroutine: it leaves the requests alone.
LEMMA OthersMove ==
  ASSUME TypeInv, UNCHANGED <<opVars, stopped>>,
         rt' \in [Runtimes -> CamRuntime], sup' \in [Runtimes -> SupRecord],
         src' \in [Streams -> {"none", "dial", "up", "failed", "ended"}],
         pub' \in [Streams -> PubRecord],
         closed' \subseteq Streams, ctxDone' \subseteq Streams,
         owner' \in [Streams -> Runtimes \cup {None}], cons' \in [Streams -> Reading],
         AttemptsInOrder', AttemptsKnown', PublishersKnow'
  PROVE  TypeInv'
<1>1. Typing'
  BY DEF TypeInv, Typing, opVars
<1>. QED BY <1>1, RequestsKept DEF TypeInv

\* A runtime's state and stream are assigned by whoever has it.
LEMMA FieldTypes ==
  ASSUME Typing, NEW r \in Runtimes, NEW state \in States, NEW s \in Streams \cup {None}
  PROVE  /\ [rt EXCEPT ![r].state = state] \in [Runtimes -> CamRuntime]
         /\ [rt EXCEPT ![r].stream = s] \in [Runtimes -> CamRuntime]
         /\ [rt EXCEPT ![r].pushCancel = s] \in [Runtimes -> CamRuntime]
         /\ [rt EXCEPT ![r].muxer = s] \in [Runtimes -> CamRuntime]
         /\ [rt EXCEPT ![r].stream = s, ![r].state = state] \in [Runtimes -> CamRuntime]
         /\ [rt EXCEPT ![r].muxer = s, ![r].state = state] \in [Runtimes -> CamRuntime]
<1>1. rt[r] \in CamRuntime
  BY DEF Typing
<1>2. /\ [rt EXCEPT ![r].state = state] \in [Runtimes -> CamRuntime]
      /\ [rt EXCEPT ![r].stream = s] \in [Runtimes -> CamRuntime]
      /\ [rt EXCEPT ![r].pushCancel = s] \in [Runtimes -> CamRuntime]
      /\ [rt EXCEPT ![r].muxer = s] \in [Runtimes -> CamRuntime]
  BY <1>1 DEF Typing, CamRuntime
<1>3. \A f \in [Runtimes -> CamRuntime] : [f EXCEPT ![r].state = state] \in [Runtimes -> CamRuntime]
  BY DEF CamRuntime
<1>. QED BY <1>2, <1>3

\* setState(running) and startConsumers, for the stream of a runtime.
LEMMA StartConsumersTypes ==
  ASSUME TypeInv, NEW s \in Streams, NEW r \in Runtimes, StartConsumers(s, r)
  PROVE  /\ rt' \in [Runtimes -> CamRuntime]
         /\ owner' \in [Streams -> Runtimes \cup {None}]
         /\ owner' = [owner EXCEPT ![s] = r]
         /\ cons' \in [Streams -> Reading]
         /\ \A t \in Streams \ {s} : cons'[t] = cons[t]
<1>. USE DEF TypeInv
<1>1. PICK started \in SUBSET Consumers :
        /\ owner' = [owner EXCEPT ![s] = r]
        /\ cons' = [cons EXCEPT ![s] = [c \in Consumers |-> IF c \in started THEN "started" ELSE "none"]]
        /\ rt' = [rt EXCEPT ![r].muxer = IF "hls" \in started THEN s ELSE @, ![r].state = "running"]
  BY DEF StartConsumers
<1>2. [c \in Consumers |-> IF c \in started THEN "started" ELSE "none"] \in Reading
  BY DEF Reading
<1>3. rt[r].muxer \in Streams \cup {None} /\ "running" \in States
  BY DEF Typing, CamRuntime, States
<1>. DEFINE muxer == IF "hls" \in started THEN s ELSE rt[r].muxer
<1>4. rt' = [rt EXCEPT ![r].muxer = muxer, ![r].state = "running"] /\ muxer \in Streams \cup {None}
  BY <1>1, <1>3
<1>. HIDE DEF muxer
<1>5. rt' \in [Runtimes -> CamRuntime]
  BY <1>3, <1>4, FieldTypes
<1>. QED BY <1>1, <1>2, <1>5 DEF Typing

\* An attempt starts with a stream nobody had.
LEMMA DialTypes ==
  ASSUME TypeInv, NEW r \in Runtimes, Dial(r)
  PROVE  TypeInv'
<1>. USE DEF TypeInv
<1>0. /\ UNCHANGED <<opVars, pub, closed, ctxDone, cons, stopped>>
      /\ {"connecting", "error"} \subseteq States /\ None \in Streams \cup {None}
      /\ sup[r] \in SupRecord
  BY DEF Dial, States, Typing
<1>1. rt' \in [Runtimes -> CamRuntime]
  <2>1. PICK state \in States : rt' = [rt EXCEPT ![r].state = state]
    BY <1>0 DEF Dial, SetState
  <2>. QED BY <1>0, <2>1, FieldTypes
<1>2. CASE sup'[r].pc = "dialing"
  <2>. DEFINE s == attempts + 1
  <2>1. s \in Streams /\ AttemptsInOrder'
    BY <1>2, DialTakesNext
  <2>. HIDE DEF s
  <2>2. /\ sup' = [sup EXCEPT ![r] = [pc |-> "dialing", attempt |-> s]]
        /\ src' = [src EXCEPT ![s] = "dial"]
        /\ owner' = [owner EXCEPT ![s] = r]
    BY <1>0, <1>2 DEF Dial, SupGoto, Typing, SupRecord, s
  <2>3. [pc |-> "dialing", attempt |-> s] \in SupRecord
    BY <2>1 DEF SupRecord, SupPCs
  <2>4. src[s] = "none"
    BY <2>1, AttemptsFinite DEF AttemptsInOrder, s, Typing
  <2>5. AttemptsKnown'
    BY <2>1, <2>2, <2>4 DEF AttemptsKnown, Typing
  <2>6. PublishersKnow'
    BY <1>0 DEF PublishersKnow, opVars
  <2>. QED BY <1>0, <1>1, <2>1, <2>2, <2>3, <2>5, <2>6, OthersMove DEF Typing
<1>3. CASE sup'[r].pc # "dialing"
  <2>1. SupGoto(r, "done") /\ UNCHANGED <<src, owner>>
    BY <1>3 DEF Dial, Typing
  <2>2. sup' \in [Runtimes -> SupRecord] /\ \A q \in Runtimes : sup'[q].pc \in Attempting => sup'[q] = sup[q]
    BY <2>1 DEF SupGoto, Typing, SupRecord, SupPCs, Attempting
  <2>3. AttemptsKnown' /\ PublishersKnow'
    BY <1>0, <2>1, <2>2 DEF AttemptsKnown, PublishersKnow, opVars
  <2>. QED BY <1>0, <1>1, <2>1, <2>2, <2>3, AttemptsKept, OthersMove DEF Typing
<1>. QED BY <1>2, <1>3

\* A supervisor that is past its dial stays with the attempt, or gives it up.
LEMMA SupervisorTypes ==
  ASSUME TypeInv, NEW r \in Runtimes, Supervisor(r), ~Dial(r)
  PROVE  TypeInv'
<1>. USE DEF TypeInv
<1>0. UNCHANGED <<opVars, src, pub, stopped>>
  BY DEF Supervisor, Quit, SelectDone, SelectReady, SelectErr, Drain, Serve, ServeEnds, Clear, Redial
<1>1. PICK pc \in SupPCs : /\ SupGoto(r, pc)
                           /\ pc \in Attempting => sup[r].pc \in Attempting
  <2>. USE DEF SupPCs, Attempting
  <2>1. CASE Quit(r) BY <2>1 DEF Quit
  <2>2. CASE SelectDone(r) BY <2>2 DEF SelectDone
  <2>3. CASE SelectReady(r) BY <2>3 DEF SelectReady
  <2>4. CASE SelectErr(r) BY <2>4 DEF SelectErr
  <2>5. CASE Drain(r) BY <2>5 DEF Drain
  <2>6. CASE Serve(r) BY <2>6 DEF Serve
  <2>7. CASE ServeEnds(r) BY <2>7 DEF ServeEnds
  <2>8. CASE Clear(r) BY <2>8 DEF Clear
  <2>9. CASE Redial(r) BY <2>9 DEF Redial
  <2>. QED BY <2>1, <2>2, <2>3, <2>4, <2>5, <2>6, <2>7, <2>8, <2>9 DEF Supervisor
<1>2. /\ sup' \in [Runtimes -> SupRecord]
      /\ \A q \in Runtimes : sup'[q].pc \in Attempting => sup[q].pc \in Attempting /\ sup'[q].attempt = sup[q].attempt
  BY <1>1 DEF SupGoto, Typing, SupRecord
<1>3. sup[r].pc \in Attempting => sup[r].attempt \in Streams
  BY DEF AttemptsKnown
<1>4. /\ rt' \in [Runtimes -> CamRuntime]
      /\ closed' \subseteq Streams /\ ctxDone' \subseteq Streams
      /\ owner' \in [Streams -> Runtimes \cup {None}] /\ cons' \in [Streams -> Reading]
  <2>0. rt[r].state \in States /\ {"idle", "error"} \subseteq States /\ None \in Streams \cup {None}
    BY DEF Typing, CamRuntime, States
  <2>1. CASE Quit(r)
    BY <2>0, <2>1, FieldTypes DEF Quit, SetState, streamVars, Typing
  <2>2. CASE SelectDone(r)
    BY <1>3, <2>2 DEF SelectDone, Typing, Attempting
  <2>3. CASE SelectReady(r)
    BY <1>3, <2>0, <2>3, FieldTypes DEF SelectReady, streamVars, Typing, Attempting
  <2>4. CASE SelectErr(r)
    BY <1>3, <2>0, <2>4, FieldTypes DEF SelectErr, SetState, Typing, Attempting
  <2>5. CASE Drain(r)
    BY <2>0, <2>5, FieldTypes DEF Drain, SetState, streamVars, Typing
  <2>6. CASE Serve(r)
    BY <1>3, <2>6, StartConsumersTypes DEF Serve, Typing, Attempting
  <2>7. CASE ServeEnds(r)
    BY <1>3, <2>7 DEF ServeEnds, Typing, Attempting
  <2>8. CASE Clear(r)
    <3>. DEFINE state == IF rt[r].cancelled THEN rt[r].state ELSE "error"
    <3>1. rt' = [rt EXCEPT ![r].stream = None, ![r].state = state] /\ state \in States
      BY <2>0, <2>8 DEF Clear
    <3>. HIDE DEF state
    <3>2. rt' \in [Runtimes -> CamRuntime]
      BY <2>0, <3>1, FieldTypes
    <3>. QED BY <1>3, <2>8, <3>2 DEF Clear, Typing, Attempting
  <2>9. CASE Redial(r)
    BY <2>9 DEF Redial, streamVars, Typing
  <2>. QED BY <2>1, <2>2, <2>3, <2>4, <2>5, <2>6, <2>7, <2>8, <2>9 DEF Supervisor
<1>5. AttemptsKnown' /\ PublishersKnow'
  BY <1>0, <1>2, <1>4 DEF AttemptsKnown, PublishersKnow, opVars
<1>. QED BY <1>0, <1>2, <1>4, <1>5, AttemptsKept, OthersMove DEF Typing

\* A source that was started stays started.
LEMMA SourceTypes ==
  ASSUME TypeInv, NEW s \in Streams, SourceReady(s) \/ SourceEnds(s)
  PROVE  TypeInv'
<1>. USE DEF TypeInv
<1>1. UNCHANGED <<opVars, rt, sup, pub, closed, ctxDone, owner, cons, stopped>>
  BY DEF SourceReady, SourceEnds, streamVars
<1>2. /\ src' \in [Streams -> {"none", "dial", "up", "failed", "ended"}]
      /\ \A t \in Streams : src'[t] = "none" <=> src[t] = "none"
  BY DEF SourceReady, SourceEnds, Typing
<1>3. AttemptsKnown' /\ PublishersKnow'
  BY <1>1, <1>2 DEF AttemptsKnown, PublishersKnow, opVars
<1>. QED BY <1>1, <1>2, <1>3, AttemptsKept, OthersMove DEF Typing

\* A connection has the runtime it looked up until it has attached or detached.
LEMMA PublisherTypes ==
  ASSUME TypeInv, NEW p \in Streams, Offer(p) \/ Publisher(p) \/ Disconnect(p)
  PROVE  TypeInv'
<1>. USE DEF TypeInv
<1>0. UNCHANGED <<opVars, sup, src, stopped>>
  BY DEF Offer, Publisher, Disconnect, DetachRead, DetachCancel, DetachClear, DetachState,
         AttachContext, AttachStream, AttachConsumers, OnClose
<1>1. pub[p] \in PubRecord /\ (pub[p].pc \in AtRuntime => pub[p].rt \in 1..made /\ pub[p].rt \in Runtimes)
  BY DEF PublishersKnow, Typing, Runtimes
<1>2. PICK rec \in PubRecord : /\ pub' = [pub EXCEPT ![p] = rec]
                               /\ rec.pc \in AtRuntime => rec.rt \in 1..made
  <2>. USE DEF AtRuntime, PubPCs
  <2>1. CASE Offer(p)
    <3>. DEFINE rec == [pub[p] EXCEPT !.pc = "read", !.starting = TRUE, !.rt = cams]
    <3>1. cams \in 1..made /\ cams \in Runtimes
      BY <2>1 DEF Offer, Typing, None, Runtimes
    <3>2. rec \in PubRecord /\ rec.rt = cams
      BY <1>1, <3>1 DEF PubRecord
    <3>3. pub' = [pub EXCEPT ![p] = rec]
      BY <2>1 DEF Offer, Typing
    <3>. QED BY <3>1, <3>2, <3>3
  <2>2. CASE DetachRead(p)
    <3>. DEFINE rec == [pub[p] EXCEPT !.pc = "cancel", !.cancel = rt[pub[p].rt].pushCancel, !.stream = rt[pub[p].rt].stream]
    <3>1. rt[pub[p].rt] \in CamRuntime
      BY <1>1, <2>2 DEF DetachRead, Typing
    <3>2. rec \in PubRecord /\ rec.rt = pub[p].rt
      BY <1>1, <3>1 DEF PubRecord, CamRuntime
    <3>3. pub' = [pub EXCEPT ![p] = rec] /\ pub[p].pc \in AtRuntime
      BY <1>1, <2>2 DEF DetachRead, Typing
    <3>. QED BY <1>1, <3>2, <3>3
  <2>3. CASE DetachCancel(p)
    <3>. DEFINE rec == [pub[p] EXCEPT !.pc = "clear", !.cancel = None, !.stream = None]
    <3>1. rec \in PubRecord /\ rec.rt = pub[p].rt
      BY <1>1 DEF PubRecord
    <3>2. pub' = [pub EXCEPT ![p] = rec] /\ pub[p].pc \in AtRuntime
      BY <1>1, <2>3 DEF DetachCancel, Typing
    <3>. QED BY <1>1, <3>1, <3>2
  <2>4. CASE DetachClear(p) \/ DetachState(p) \/ AttachContext(p) \/ AttachStream(p)
    <3>1. PICK pc \in PubPCs : PubGoto(p, pc) /\ pub[p].pc \in AtRuntime
      BY <2>4 DEF DetachClear, DetachState, AttachContext, AttachStream
    <3>. DEFINE rec == [pub[p] EXCEPT !.pc = pc]
    <3>2. rec \in PubRecord /\ rec.rt = pub[p].rt
      BY <1>1 DEF PubRecord
    <3>3. pub' = [pub EXCEPT ![p] = rec]
      BY <3>1 DEF PubGoto, Typing
    <3>. QED BY <1>1, <3>1, <3>2, <3>3
  <2>5. CASE AttachConsumers(p) \/ OnClose(p)
    <3>1. PICK pc \in {"publishing", "gone"} : pub' = [pub EXCEPT ![p] = [pub[p] EXCEPT !.pc = pc, !.rt = None]]
      BY <2>5 DEF AttachConsumers, OnClose, Typing
    <3>2. [pub[p] EXCEPT !.pc = pc, !.rt = None] \in PubRecord /\ [pub[p] EXCEPT !.pc = pc, !.rt = None].pc = pc
      BY <1>1 DEF PubRecord
    <3>. QED BY <3>1, <3>2
  <2>6. CASE Disconnect(p)
    <3>. DEFINE rec == [pub[p] EXCEPT !.pc = IF cams = None THEN "close" ELSE "read", !.starting = FALSE, !.rt = cams]
    <3>1. cams \in Runtimes \cup {None} /\ (cams # None => cams \in 1..made)
      BY DEF Typing, None, Runtimes
    <3>2. rec \in PubRecord /\ rec.rt = cams /\ (rec.pc \in AtRuntime => cams # None)
      BY <1>1, <3>1 DEF PubRecord
    <3>3. pub' = [pub EXCEPT ![p] = rec]
      BY <2>6 DEF Disconnect, Typing
    <3>. QED BY <3>1, <3>2, <3>3
  <2>. QED BY <2>1, <2>2, <2>3, <2>4, <2>5, <2>6 DEF Publisher
<1>3. pub' \in [Streams -> PubRecord] /\ PublishersKnow'
  BY <1>0, <1>2 DEF PublishersKnow, Typing, opVars
<1>4. /\ rt' \in [Runtimes -> CamRuntime]
      /\ closed' \subseteq Streams /\ ctxDone' \subseteq Streams
      /\ owner' \in [Streams -> Runtimes \cup {None}] /\ cons' \in [Streams -> Reading]
  <2>. USE <1>1 DEF AtRuntime
  <2>0. {"connecting"} \subseteq States /\ rt \in [Runtimes -> CamRuntime]
    BY DEF States, Typing
  <2>1. CASE Offer(p) \/ Disconnect(p)
    BY <2>1 DEF Offer, Disconnect, streamVars, Typing
  <2>2. CASE DetachRead(p)
    BY <2>0, <2>2, FieldTypes DEF DetachRead, streamVars, Typing
  <2>3. CASE DetachCancel(p)
    BY <2>3 DEF DetachCancel, Typing, PubRecord
  <2>4. CASE DetachClear(p)
    BY <2>0, <2>4, FieldTypes DEF DetachClear, streamVars, Typing
  <2>5. CASE DetachState(p)
    BY <2>0, <2>5, FieldTypes DEF DetachState, SetState, streamVars, Typing
  <2>6. CASE AttachContext(p)
    BY <2>0, <2>6, FieldTypes DEF AttachContext, streamVars, Typing
  <2>7. CASE AttachStream(p)
    BY <2>0, <2>7, FieldTypes DEF AttachStream, streamVars, Typing
  <2>8. CASE AttachConsumers(p)
    BY <2>8, StartConsumersTypes DEF AttachConsumers, Typing
  <2>9. CASE OnClose(p)
    BY <2>9 DEF OnClose, Typing
  <2>. QED BY <2>1, <2>2, <2>3, <2>4, <2>5, <2>6, <2>7, <2>8, <2>9 DEF Publisher
<1>5. AttemptsKnown'
  BY <1>0 DEF AttemptsKnown
<1>. QED BY <1>0, <1>3, <1>4, <1>5, AttemptsKept, OthersMove DEF Typing

\* A consumer changes its own state and the muxer of the runtime it counts for.
LEMMA ConsumerTypes ==
  ASSUME TypeInv, NEW s \in Streams, NEW c \in Consumers,
         Consume(s, c) \/ ConsumerEnds(s, c) \/ ConsumerFails(s, c)
  PROVE  TypeInv'
<1>. USE DEF TypeInv
<1>1. UNCHANGED <<opVars, sup, src, pub, closed, ctxDone, owner, stopped>>
  BY DEF Consume, ConsumerEnds, ConsumerFails, Return
<1>2. cons' \in [Streams -> Reading]
  <2>1. PICK now \in {"late", "reading", "none"} : cons' = [cons EXCEPT ![s][c] = now]
    BY DEF Consume, ConsumerEnds, ConsumerFails, Return
  <2>. QED BY <2>1 DEF Typing, Reading
<1>3. rt' \in [Runtimes -> CamRuntime]
  <2>1. CASE Consume(s, c)
    BY <2>1 DEF Consume, Typing
  <2>2. CASE Return(s, c)
    <3>1. CASE owner[s] \in Runtimes
      <4>1. PICK r \in Runtimes : r = owner[s]
        BY <3>1
      <4>. DEFINE muxer == IF c = "hls" THEN None ELSE rt[r].muxer
      <4>2. rt' = [rt EXCEPT ![r].muxer = muxer] /\ muxer \in Streams \cup {None} /\ "idle" \in States
        BY <2>2, <4>1 DEF Return, Typing, CamRuntime, States
      <4>. HIDE DEF muxer
      <4>. QED BY <4>2, FieldTypes
    <3>2. CASE owner[s] \notin Runtimes
      BY <2>2, <3>2 DEF Return, Typing
    <3>. QED BY <3>1, <3>2
  <2>. QED BY <2>1, <2>2 DEF ConsumerEnds, ConsumerFails
<1>4. AttemptsKnown' /\ PublishersKnow'
  BY <1>1 DEF AttemptsKnown, PublishersKnow, opVars
<1>. QED BY <1>1, <1>2, <1>3, <1>4, AttemptsKept, OthersMove DEF Typing

\* The state after Manager.Start is well typed.
LEMMA InitTypes == Init => TypeInv
<1>. SUFFICES ASSUME Init PROVE TypeInv
  OBVIOUS
<1>1. 1 \in Runtimes /\ 0 \in 0..MaxRequests
  BY DEF Runtimes
<1>2. Typing
  <2>1. op \in [Operators -> OpRecord]
    BY DEF Init, OpRecord, OpPCs
  <2>2. rt \in [Runtimes -> CamRuntime]
    BY DEF Init, CamRuntime, States, Fresh
  <2>3. sup \in [Runtimes -> SupRecord]
    BY DEF Init, SupRecord, SupPCs
  <2>4. pub \in [Streams -> PubRecord]
    BY DEF Init, PubRecord, PubPCs
  <2>5. cons \in [Streams -> Reading]
    BY DEF Init, Reading
  <2>6. /\ src \in [Streams -> {"none", "dial", "up", "failed", "ended"}]
        /\ owner \in [Streams -> Runtimes \cup {None}]
    BY DEF Init
  <2>7. /\ mu = "free" /\ cams = 1 /\ made = 1 /\ requests = 0 /\ raced \in BOOLEAN
        /\ closed = {} /\ ctxDone = {} /\ stopped = {}
    BY DEF Init
  <2>. QED BY <1>1, <2>1, <2>2, <2>3, <2>4, <2>5, <2>6, <2>7 DEF Typing
<1>3. RequestsCounted
  <2>1. Inserters = {}
    BY DEF Init, Inserters, Stopping
  <2>. QED BY <2>1, FS_EmptySet DEF RequestsCounted, Init
<1>4. AttemptsInOrder
  <2>1. {s \in Streams : src[s] # "none"} = {}
    BY DEF Init
  <2>2. attempts = 0
    BY <2>1, FS_EmptySet DEF attempts
  <2>. QED BY <2>2 DEF AttemptsInOrder, Init, Streams
<1>5. RequestsKnow /\ AttemptsKnown /\ PublishersKnow
  BY DEF Init, RequestsKnow, Stopping, AttemptsKnown, Attempting, PublishersKnow, AtRuntime
<1>. QED BY <1>2, <1>3, <1>4, <1>5 DEF TypeInv

\* Every step keeps the types.
LEMMA NextTypes == TypeInv /\ [Next]_vars => TypeInv'
<1>. SUFFICES ASSUME TypeInv, [Next]_vars PROVE TypeInv'
  OBVIOUS
<1>1. ASSUME NEW o \in Operators, Request(o) \/ Operator(o) PROVE TypeInv'
  BY <1>1, RequestTypes, StartCameraTypes, StopTypes, InsertTypes, StartTypes DEF Operator
<1>2. ASSUME NEW r \in Runtimes, Supervisor(r) PROVE TypeInv'
  BY <1>2, DialTypes, SupervisorTypes
<1>3. ASSUME NEW s \in Streams, SourceReady(s) \/ SourceEnds(s) PROVE TypeInv'
  BY <1>3, SourceTypes
<1>4. ASSUME NEW p \in Streams, Offer(p) \/ Publisher(p) \/ Disconnect(p) PROVE TypeInv'
  BY <1>4, PublisherTypes
<1>5. ASSUME NEW s \in Streams, NEW c \in Consumers,
             Consume(s, c) \/ ConsumerEnds(s, c) \/ ConsumerFails(s, c)
      PROVE  TypeInv'
  BY <1>5, ConsumerTypes
<1>6. CASE UNCHANGED vars
  <2>1. UNCHANGED <<opVars, stopped, rt, sup, src, pub, closed, ctxDone, owner, cons>>
    BY <1>6 DEF vars, opVars
  <2>2. AttemptsKnown' /\ PublishersKnow'
    BY <2>1 DEF TypeInv, AttemptsKnown, PublishersKnow, opVars
  <2>. QED BY <2>1, <2>2, AttemptsKept, OthersMove DEF TypeInv, Typing
<1>. QED BY <1>1, <1>2, <1>3, <1>4, <1>5, <1>6 DEF Next

\* Only streams are taken out of stop()'s view.
LEMMA UnseenNext == TypeInv /\ UnseenTyped /\ [Next]_vars => UnseenTyped'
<1>. SUFFICES ASSUME TypeInv, UnseenTyped, [Next]_vars PROVE UnseenTyped'
  OBVIOUS
<1>1. ASSUME NEW p \in Streams, pub[p].pc \in AtRuntime PROVE Displaced(pub[p].rt) \subseteq Streams
  BY <1>1 DEF TypeInv, PublishersKnow, Displaced, Typing, Runtimes, CamRuntime
<1>2. CASE unseen' = unseen
  BY <1>2 DEF UnseenTyped
<1>3. ASSUME NEW p \in Streams, DetachClear(p) \/ AttachStream(p) PROVE UnseenTyped'
  BY <1>1, <1>3 DEF DetachClear, AttachStream, AtRuntime, UnseenTyped
<1>4. ASSUME NEW o \in Operators, Request(o) \/ Operator(o) PROVE unseen' = unseen
  BY <1>4 DEF Request, Operator, StartCamera, RemoveCamera, StopCancel, StopClose, StopWait,
              Insert, StartContext, StartSupervisor
<1>5. ASSUME NEW r \in Runtimes, Supervisor(r) PROVE unseen' = unseen
  BY <1>5 DEF Supervisor, Dial, Quit, SelectDone, SelectReady, SelectErr, Drain, Serve,
              ServeEnds, Clear, Redial
<1>6. ASSUME NEW s \in Streams, SourceReady(s) \/ SourceEnds(s) PROVE unseen' = unseen
  BY <1>6 DEF SourceReady, SourceEnds
<1>7. ASSUME NEW p \in Streams, Offer(p) \/ Publisher(p) \/ Disconnect(p)
      PROVE  unseen' = unseen \/ DetachClear(p) \/ AttachStream(p)
  BY <1>7 DEF Offer, Publisher, Disconnect, DetachRead, DetachCancel, DetachState,
              AttachContext, AttachConsumers, OnClose
<1>8. ASSUME NEW s \in Streams, NEW c \in Consumers,
             Consume(s, c) \/ ConsumerEnds(s, c) \/ ConsumerFails(s, c)
      PROVE  unseen' = unseen
  BY <1>8 DEF Consume, ConsumerEnds, ConsumerFails, Return
<1>. QED BY <1>2, <1>3, <1>4, <1>5, <1>6, <1>7, <1>8 DEF Next, vars

\* Every state is well typed: a request makes no runtime too many, an attempt takes no
\* stream twice, and no goroutine acts on a runtime it does not have.
THEOREM TypeCorrect == Spec => []TypeOK
<1>1. Init => UnseenTyped
  BY DEF Init, UnseenTyped
<1>2. TypeInv /\ UnseenTyped => TypeOK
  BY TypingIsTypeOK DEF TypeInv
<1>. QED BY <1>1, <1>2, InitTypes, NextTypes, UnseenNext, PTL DEF Spec

-----------------------------------------------------------------------------
(***************************************************************************)
(* Pull cameras: one source, as long as no request meets another halfway.  *)
(***************************************************************************)

Stops(o) == op[o].pc \in Stopping
Acts(o)  == op[o].pc \in Stopping \cup {"insert", "start", "go"}

\* Unless requests meet halfway there is at most one that has a runtime in hand. It stops the
\* one in the map, or took out of the map, and starts the one it put there.
OneActs == \A o, q \in Operators : Acts(o) /\ Acts(q) => o = q

HandAndMap ==
  \A o \in Operators :
    /\ Stops(o) => cams \in {op[o].rt, None}
    /\ op[o].pc \in {"start", "go"} => cams = op[o].rt /\ op[o].rt \notin stopped

\* A runtime with goroutines is in the map or is being stopped; while the next one is inserted
\* and started there is none.
LiveInHand ==
  /\ \A r \in Runtimes : ~WaitGroupZero(r) => r = cams \/ \E o \in Operators : Stops(o) /\ op[o].rt = r
  /\ \A o \in Operators : op[o].pc \in {"insert", "start", "go"} => \A r \in Runtimes : WaitGroupZero(r)

\* A stopped runtime has no goroutine, and was made before.
StoppedIsZero == \A r \in stopped : r <= made /\ WaitGroupZero(r)

\* What consumers read is closed, unless it is what the supervisor of their runtime serves.
ServedOrClosed ==
  \A s \in Streams : Alive(s) # {} =>
    /\ owner[s] \in Runtimes
    /\ s \in closed \/ (sup[owner[s]].pc = "serving" /\ sup[owner[s]].attempt = s)

\* No connection publishes to a pull camera, consumers read what was dialled, and an attempt is
\* its supervisor's.
PulledOnly ==
  /\ \A p \in Streams : pub[p].pc = "idle"
  /\ \A s \in Streams : Alive(s) # {} => src[s] # "none"
  /\ \A r \in Runtimes : sup[r].pc \in Attempting => owner[sup[r].attempt] = r

Unraced == OneActs /\ HandAndMap /\ LiveInHand /\ StoppedIsZero /\ ServedOrClosed

PullInv == SourceType = "pull" => PulledOnly /\ (raced \/ Unraced)

\* What is known of the state a step starts from.
PullState == TypeInv /\ SourceType = "pull" /\ PulledOnly /\ ~raced /\ Unraced

\* The goroutines of a runtime, if neither they nor the consumers counted for it change.
LEMMA SameZero ==
  ASSUME UNCHANGED <<sup, owner, cons>>
  PROVE  /\ \A r \in Runtimes : WaitGroupZero(r)' <=> WaitGroupZero(r)
         /\ \A s \in Streams : Alive(s)' = Alive(s)
  BY DEF WaitGroupZero, Supervised, Alive

\* A request that only begins takes nothing in hand.
LEMMA PullRequestStep ==
  ASSUME PullState, NEW o \in Operators, Request(o)
  PROVE  Unraced'
<1>. USE DEF PullState, TypeInv
<1>1. UNCHANGED <<cams, made, sup, closed, owner, cons, stopped>>
  BY DEF Request, streamVars
<1>2. /\ \A q \in Operators \ {o} : op'[q] = op[q]
      /\ op[o].pc = "idle" /\ op'[o].pc \in {"lock", "remove", "relock"}
  BY GotoStep DEF Request, OpPCs
<1>3. \A q \in Operators : Acts(q)' => op'[q] = op[q] /\ Acts(q)
  BY <1>2 DEF Acts, Stopping
<1>4. OneActs' /\ HandAndMap'
  BY <1>1, <1>3 DEF Unraced, OneActs, HandAndMap, Acts, Stops
<1>5. LiveInHand'
  <2>1. \A q \in Operators : Stops(q) => q # o
    BY <1>2 DEF Stops, Stopping
  <2>. QED BY <1>1, <1>2, <1>3, <2>1, SameZero DEF Unraced, LiveInHand, Stops, Acts
<1>6. StoppedIsZero' /\ ServedOrClosed'
  BY <1>1, SameZero DEF Unraced, StoppedIsZero, ServedOrClosed, Typing
<1>. QED BY <1>4, <1>5, <1>6 DEF Unraced

\* The request that takes the camera is the only one that acts on it.
LEMMA PullTakeStep ==
  ASSUME PullState, NEW o \in Operators, StartCamera(o) \/ RemoveCamera(o), ~raced'
  PROVE  Unraced'
<1>. USE DEF PullState, TypeInv
<1>1. /\ UNCHANGED <<made, sup, closed, owner, cons, stopped>>
      /\ op[o].pc \in {"lock", "relock", "remove"}
      /\ cams' = IF op[o].pc = "remove" THEN None ELSE cams
      /\ ~Halfway(o)
  BY DEF StartCamera, RemoveCamera, streamVars
<1>2. PICK pc \in {"cancel", "insert", "idle"} :
        /\ op' = [op EXCEPT ![o] = [pc |-> pc, rt |-> cams]]
        /\ cams = None <=> pc # "cancel"
        /\ op[o].pc = "remove" => pc # "insert"
  BY DEF StartCamera, RemoveCamera
<1>3. /\ op'[o].pc = pc /\ op'[o].rt = cams
      /\ \A q \in Operators \ {o} : op'[q] = op[q]
  <2>1. op \in [Operators -> OpRecord]
    BY DEF Typing
  <2>. QED BY <1>2, <2>1
<1>4. \A q \in Operators : ~Acts(q)
  BY <1>1 DEF Halfway, Acts, Stopping
<1>5. \A q \in Operators \ {o} : ~Acts(q)'
  BY <1>3, <1>4 DEF Acts
<1>6. \A r \in Runtimes : ~WaitGroupZero(r) => r = cams
  BY <1>4 DEF Unraced, LiveInHand, Acts, Stops
<1>7. OneActs'
  BY <1>5 DEF OneActs
<1>8. HandAndMap'
  BY <1>1, <1>3, <1>5 DEF HandAndMap, Acts, Stops, Stopping
<1>9. LiveInHand'
  <2>1. ASSUME NEW r \in Runtimes, ~WaitGroupZero(r)'
        PROVE  r = cams' \/ (Stops(o)' /\ op'[o].rt = r)
    <3>1. r = cams /\ cams # None
      BY <1>1, <1>6, <2>1, SameZero DEF Runtimes, None
    <3>. QED BY <1>2, <1>3, <3>1 DEF Stops, Stopping
  <2>2. ASSUME NEW q \in Operators, op'[q].pc \in {"insert", "start", "go"}, NEW r \in Runtimes
        PROVE  WaitGroupZero(r)'
    <3>1. q = o /\ pc = "insert"
      BY <1>3, <1>5, <2>2 DEF Acts
    <3>2. cams = None /\ r # None
      BY <1>2, <3>1 DEF Runtimes, None
    <3>. QED BY <1>1, <1>6, <3>2, SameZero
  <2>. QED BY <2>1, <2>2 DEF LiveInHand
<1>10. StoppedIsZero' /\ ServedOrClosed'
  BY <1>1, SameZero DEF Unraced, StoppedIsZero, ServedOrClosed, Typing
<1>. QED BY <1>7, <1>8, <1>9, <1>10 DEF Unraced

\* stop: cancel, close, and wait until nothing of the runtime is left.
LEMMA PullStopStep ==
  ASSUME PullState, NEW o \in Operators, StopCancel(o) \/ StopClose(o) \/ StopWait(o)
  PROVE  Unraced'
<1>. USE DEF PullState, TypeInv
<1>0. UNCHANGED <<cams, made, sup, owner, cons>> /\ closed \subseteq closed'
  BY DEF StopCancel, StopClose, StopWait, streamVars
<1>1. Stops(o) /\ \A q \in Operators \ {o} : ~Acts(q)
  BY DEF Unraced, OneActs, StopCancel, StopClose, StopWait, Stops, Acts, Stopping
<1>2. /\ \A q \in Operators \ {o} : op'[q] = op[q]
      /\ \/ Stops(o)' /\ op'[o].rt = op[o].rt /\ stopped' = stopped
         \/ StopWait(o) /\ op'[o].pc \in {"insert", "idle"}
  <2>1. CASE StopCancel(o)
    BY <2>1, GotoStep DEF StopCancel, OpPCs, Stopping, Stops
  <2>2. CASE StopClose(o)
    BY <2>2, GotoStep DEF StopClose, OpPCs, Stopping, Stops
  <2>3. CASE StopWait(o)
    BY <2>3 DEF StopWait, Typing
  <2>. QED BY <2>1, <2>2, <2>3
<1>3. \A q \in Operators \ {o} : ~Acts(q)'
  BY <1>1, <1>2 DEF Acts
<1>4. OneActs'
  BY <1>3 DEF OneActs
<1>5. HandAndMap'
  BY <1>0, <1>1, <1>2, <1>3 DEF Unraced, HandAndMap, Acts, Stops, Stopping
<1>6. \A r \in Runtimes : ~WaitGroupZero(r) => r = op[o].rt
  <2>1. ASSUME NEW r \in Runtimes, ~WaitGroupZero(r) PROVE r = cams \/ r = op[o].rt
    BY <1>1, <2>1 DEF Unraced, LiveInHand, Acts, Stops
  <2>2. cams \in {op[o].rt, None}
    BY <1>1 DEF Unraced, HandAndMap
  <2>. QED BY <2>1, <2>2 DEF Runtimes, None
<1>7. LiveInHand'
  <2>1. CASE StopWait(o)
    <3>1. \A r \in Runtimes : WaitGroupZero(r)
      BY <1>6, <2>1 DEF StopWait
    <3>. QED BY <1>0, <3>1, SameZero DEF LiveInHand
  <2>2. CASE ~StopWait(o)
    BY <1>0, <1>2, <1>3, <1>6, <2>2, SameZero DEF LiveInHand, Acts, Stops, Stopping
  <2>. QED BY <2>1, <2>2
<1>8. StoppedIsZero'
  <2>1. CASE StopWait(o)
    <3>1. stopped' \subseteq stopped \cup {op[o].rt} /\ WaitGroupZero(op[o].rt)
      BY <2>1 DEF StopWait
    <3>2. op[o].rt \in 1..made /\ op[o].rt \in Runtimes
      BY <1>1 DEF RequestsKnow, Stops, Typing, Runtimes
    <3>. QED BY <1>0, <3>1, <3>2, SameZero DEF Unraced, StoppedIsZero, Typing
  <2>2. CASE ~StopWait(o)
    BY <1>0, <1>2, <2>2, SameZero DEF Unraced, StoppedIsZero, Typing
  <2>. QED BY <2>1, <2>2
<1>9. ServedOrClosed'
  BY <1>0, SameZero DEF Unraced, ServedOrClosed
<1>. QED BY <1>4, <1>5, <1>7, <1>8, <1>9 DEF Unraced

\* The next runtime is put into the map and started when the last one is gone.
LEMMA PullStartStep ==
  ASSUME PullState, NEW o \in Operators, Insert(o) \/ StartContext(o) \/ StartSupervisor(o)
  PROVE  Unraced'
<1>. USE DEF PullState, TypeInv
<1>0. /\ UNCHANGED <<owner, cons, closed, stopped>>
      /\ op[o].pc \in {"insert", "start", "go"}
  BY DEF Insert, StartContext, StartSupervisor, streamVars
<1>1. Acts(o) /\ \A q \in Operators \ {o} : ~Acts(q)
  BY <1>0 DEF Unraced, OneActs, Acts
<1>2. \A r \in Runtimes : WaitGroupZero(r)
  BY <1>0 DEF Unraced, LiveInHand
<1>3. \A s \in Streams : Alive(s) = {}
  BY <1>2 DEF Unraced, ServedOrClosed, WaitGroupZero
<1>4. ServedOrClosed'
  BY <1>0, <1>3 DEF ServedOrClosed, Alive
<1>5. CASE Insert(o)
  <2>1. /\ sup' = sup /\ made' = made + 1 /\ cams' = made + 1
        /\ op'[o].pc = "start" /\ op'[o].rt = made + 1
        /\ \A q \in Operators \ {o} : op'[q] = op[q]
    BY <1>5 DEF Insert, streamVars, Typing
  <2>2. \A q \in Operators \ {o} : ~Acts(q)'
    BY <1>1, <2>1 DEF Acts
  <2>3. OneActs'
    BY <2>2 DEF OneActs
  <2>4. made + 1 \notin stopped /\ made \in Nat
    BY DEF Unraced, StoppedIsZero, Typing, Runtimes
  <2>5. HandAndMap'
    BY <1>0, <2>1, <2>2, <2>4 DEF HandAndMap, Acts, Stops, Stopping
  <2>6. LiveInHand'
    BY <1>0, <1>2, <2>1, SameZero DEF LiveInHand
  <2>7. StoppedIsZero'
    BY <1>0, <1>2, <2>1, <2>4, SameZero DEF Unraced, StoppedIsZero, Typing, Runtimes
  <2>. QED BY <1>4, <2>3, <2>5, <2>6, <2>7 DEF Unraced
<1>6. CASE StartContext(o)
  <2>1. /\ UNCHANGED <<sup, made, cams>>
        /\ op' = [op EXCEPT ![o] = [op[o] EXCEPT !.pc = "go"]] /\ op[o].pc = "start"
    BY <1>6 DEF StartContext, streamVars, Typing
  <2>2. /\ op'[o].pc = "go" /\ op'[o].rt = op[o].rt
        /\ \A q \in Operators \ {o} : op'[q] = op[q]
    BY <2>1 DEF Typing, OpRecord
  <2>3. \A q \in Operators \ {o} : ~Acts(q)'
    BY <1>1, <2>2 DEF Acts
  <2>4. OneActs'
    BY <2>3 DEF OneActs
  <2>5. HandAndMap'
    BY <1>0, <2>1, <2>2, <2>3 DEF Unraced, HandAndMap, Acts, Stops, Stopping
  <2>6. LiveInHand' /\ StoppedIsZero'
    BY <1>0, <1>2, <2>1, SameZero DEF Unraced, LiveInHand, StoppedIsZero, Typing
  <2>. QED BY <1>4, <2>4, <2>5, <2>6 DEF Unraced
<1>7. CASE StartSupervisor(o)
  <2>1. /\ UNCHANGED <<made, cams>>
        /\ op[o].pc = "go" /\ sup' = [sup EXCEPT ![op[o].rt].pc = "loop"]
        /\ op'[o].pc = "idle"
        /\ \A q \in Operators \ {o} : op'[q] = op[q]
    BY <1>7 DEF StartSupervisor, Typing
  <2>2. \A q \in Operators : ~Acts(q)'
    BY <1>1, <2>1 DEF Acts, Stopping
  <2>3. OneActs' /\ HandAndMap'
    BY <2>2 DEF OneActs, HandAndMap, Acts, Stops
  <2>4. cams = op[o].rt /\ op[o].rt \notin stopped
    BY <2>1 DEF Unraced, HandAndMap
  <2>5. \A r \in Runtimes : r # cams => WaitGroupZero(r)'
    BY <1>0, <1>2, <2>1, <2>4 DEF WaitGroupZero, Supervised, Alive, Typing
  <2>6. LiveInHand'
    BY <2>1, <2>2, <2>5 DEF LiveInHand, Acts
  <2>7. StoppedIsZero'
    BY <1>0, <2>1, <2>4, <2>5 DEF Unraced, StoppedIsZero, Typing
  <2>. QED BY <1>4, <2>3, <2>6, <2>7 DEF Unraced
<1>. QED BY <1>5, <1>6, <1>7

\* What a supervisor's step does to its record, its attempt's stream, and nothing of others.
LEMMA SupervisorStep ==
  ASSUME TypeInv, PulledOnly, NEW r \in Runtimes, Supervisor(r)
  PROVE  /\ Supervised(r) /\ UNCHANGED <<opVars, pub, stopped>> /\ closed \subseteq closed'
         /\ \A q \in Runtimes \ {r} : sup'[q] = sup[q]
         /\ \A s \in Streams : owner'[s] = r \/ (owner'[s] = owner[s] /\ Alive(s)' = Alive(s))
         /\ \A s \in Streams : src[s] # "none" => src'[s] # "none" /\ owner'[s] = owner[s]
         /\ \A s \in Streams : Alive(s)' # {} => Alive(s) # {} \/ src[s] # "none"
         /\ sup'[r].pc \in Attempting => owner'[sup'[r].attempt] = r
<1>. USE DEF TypeInv
<1>1. CASE Dial(r)
  <2>1. /\ sup[r].pc = "loop" /\ UNCHANGED <<opVars, pub, closed, cons, stopped>>
        /\ \A q \in Runtimes \ {r} : sup'[q] = sup[q]
    BY <1>1 DEF Dial, SupGoto, Typing
  <2>2. CASE sup'[r].pc = "dialing"
    <3>0. attempts + 1 \in Streams
      BY <1>1, <2>2, DialTakesNext
    <3>1. PICK a \in Streams : a = attempts + 1
      BY <3>0
    <3>2. /\ sup' = [sup EXCEPT ![r] = [pc |-> "dialing", attempt |-> a]]
          /\ owner' = [owner EXCEPT ![a] = r] /\ src' = [src EXCEPT ![a] = "dial"]
      BY <1>1, <2>2, <3>1 DEF Dial, SupGoto, Typing, SupRecord
    <3>3. src[a] = "none"
      BY <3>1, AttemptsFinite DEF AttemptsInOrder, Streams
    <3>. QED BY <2>1, <3>2, <3>3 DEF Supervised, Alive, Typing
  <2>3. CASE sup'[r].pc # "dialing"
    <3>1. SupGoto(r, "done") /\ UNCHANGED <<src, owner>>
      BY <1>1, <2>3 DEF Dial, Typing
    <3>. QED BY <2>1, <3>1 DEF SupGoto, Supervised, Alive, Typing, SupRecord, Attempting
  <2>. QED BY <2>2, <2>3
<1>2. CASE Serve(r)
  <2>1. /\ sup[r].pc = "ready" /\ SupGoto(r, "serving")
        /\ StartConsumers(sup[r].attempt, r)
        /\ UNCHANGED <<opVars, src, pub, closed, stopped>>
    BY <1>2 DEF Serve
  <2>2. /\ sup[r].attempt \in Streams /\ src[sup[r].attempt] # "none"
        /\ owner[sup[r].attempt] = r
    BY <2>1 DEF AttemptsKnown, PulledOnly, Attempting
  <2>3. /\ owner' = [owner EXCEPT ![sup[r].attempt] = r]
        /\ \A s \in Streams \ {sup[r].attempt} : cons'[s] = cons[s]
    BY <2>1, <2>2 DEF StartConsumers, Typing
  <2>4. /\ sup'[r].pc = "serving" /\ sup'[r].attempt = sup[r].attempt
        /\ \A q \in Runtimes \ {r} : sup'[q] = sup[q]
    BY <2>1 DEF SupGoto, Typing, SupRecord
  <2>. QED BY <2>1, <2>2, <2>3, <2>4 DEF Supervised, Alive, Typing
<1>3. CASE ~Dial(r) /\ ~Serve(r)
  <2>1. /\ UNCHANGED <<opVars, src, pub, owner, cons, stopped>> /\ closed \subseteq closed'
        /\ sup[r].pc \notin {"none", "done"}
    BY <1>3 DEF Supervisor, Quit, SelectDone, SelectReady, SelectErr, Drain, ServeEnds, Clear,
                Redial, streamVars
  <2>2. PICK pc \in SupPCs : SupGoto(r, pc) /\ (pc \in Attempting => sup[r].pc \in Attempting)
    BY <1>3 DEF Supervisor, Quit, SelectDone, SelectReady, SelectErr, Drain, ServeEnds, Clear,
                Redial, SupPCs, Attempting
  <2>3. /\ sup'[r].pc = pc /\ sup'[r].attempt = sup[r].attempt
        /\ \A q \in Runtimes \ {r} : sup'[q] = sup[q]
    BY <2>2 DEF SupGoto, Typing, SupRecord
  <2>. QED BY <2>1, <2>2, <2>3 DEF Supervised, Alive, PulledOnly
<1>. QED BY <1>1, <1>2, <1>3

\* A supervisor that runs has not been stopped, and nobody starts another meanwhile.
LEMMA PullSupervisorStep ==
  ASSUME PullState, NEW r \in Runtimes, Supervisor(r)
  PROVE  Unraced'
<1>. USE DEF PullState, TypeInv
<1>0. /\ Supervised(r) /\ UNCHANGED <<opVars, pub, stopped>> /\ closed \subseteq closed'
      /\ \A q \in Runtimes \ {r} : sup'[q] = sup[q]
      /\ \A s \in Streams : owner'[s] = r \/ (owner'[s] = owner[s] /\ Alive(s)' = Alive(s))
  BY SupervisorStep
<1>1. ~WaitGroupZero(r)
  BY <1>0 DEF WaitGroupZero
<1>2. \A q \in Runtimes : ~WaitGroupZero(q)' => ~WaitGroupZero(q)
  <2>1. ASSUME NEW q \in Runtimes \ {r}, WaitGroupZero(q) PROVE WaitGroupZero(q)'
    <3>1. ~Supervised(q)'
      BY <1>0, <2>1 DEF WaitGroupZero, Supervised
    <3>2. ASSUME NEW s \in Streams, owner'[s] = q PROVE Alive(s)' = {}
      BY <1>0, <2>1, <3>2 DEF WaitGroupZero
    <3>. QED BY <3>1, <3>2 DEF WaitGroupZero
  <2>. QED BY <1>1, <2>1
<1>3. OneActs' /\ HandAndMap'
  BY <1>0 DEF Unraced, OneActs, HandAndMap, Acts, Stops, opVars
<1>4. LiveInHand'
  <2>1. \A o \in Operators : op[o].pc \notin {"insert", "start", "go"}
    BY <1>1 DEF Unraced, LiveInHand
  <2>. QED BY <1>0, <1>2, <2>1 DEF Unraced, LiveInHand, Stops, opVars
<1>5. StoppedIsZero'
  BY <1>0, <1>2 DEF Unraced, StoppedIsZero, Typing, opVars
<1>6. ServedOrClosed'
  <2>1. ASSUME NEW s \in Streams, Alive(s)' # {}, Alive(s) # {}, UNCHANGED owner[s],
               owner[s] # r \/ sup[r].pc # "serving" \/ s \in closed'
        PROVE  owner'[s] \in Runtimes /\ (s \in closed' \/ (sup'[owner'[s]].pc = "serving" /\ sup'[owner'[s]].attempt = s))
    BY <1>0, <2>1 DEF Unraced, ServedOrClosed
  <2>2. CASE Serve(r)
    <3>1. /\ sup[r].pc = "ready" /\ SupGoto(r, "serving") /\ StartConsumers(sup[r].attempt, r)
      BY <2>2 DEF Serve
    <3>2. sup[r].attempt \in Streams /\ owner[sup[r].attempt] = r
      BY <3>1 DEF AttemptsKnown, PulledOnly, Attempting
    <3>3. /\ owner' = [owner EXCEPT ![sup[r].attempt] = r]
          /\ \A s \in Streams \ {sup[r].attempt} : cons'[s] = cons[s]
      BY <3>1, <3>2 DEF StartConsumers, Typing
    <3>4. sup'[r].pc = "serving" /\ sup'[r].attempt = sup[r].attempt
      BY <3>1 DEF SupGoto, Typing, SupRecord
    <3>. SUFFICES ASSUME NEW s \in Streams, Alive(s)' # {}
                  PROVE  owner'[s] \in Runtimes /\ (s \in closed' \/ (sup'[owner'[s]].pc = "serving" /\ sup'[owner'[s]].attempt = s))
      BY DEF ServedOrClosed
    <3>5. CASE s = sup[r].attempt
      BY <3>2, <3>3, <3>4, <3>5 DEF Typing
    <3>6. CASE s # sup[r].attempt
      BY <2>1, <3>1, <3>3, <3>6 DEF Alive, Typing
    <3>. QED BY <3>5, <3>6
  <2>3. CASE ~Serve(r)
    <3>1. cons' = cons
      BY <2>3 DEF Supervisor, Dial, Quit, SelectDone, SelectReady, SelectErr, Drain, ServeEnds,
                  Clear, Redial, streamVars
    <3>2. ASSUME NEW s \in Streams, Alive(s) # {} PROVE owner'[s] = owner[s]
      BY <3>2, SupervisorStep DEF PulledOnly
    <3>3. sup[r].pc = "serving" => ServeEnds(r)
      BY <2>3 DEF Supervisor, Dial, Quit, SelectDone, SelectReady, SelectErr, Drain, Serve,
                  Clear, Redial
    <3>4. ASSUME NEW s \in Streams, Alive(s) # {}, owner[s] = r, sup[r].pc = "serving"
          PROVE  s \in closed'
      BY <3>3, <3>4 DEF Unraced, ServedOrClosed, ServeEnds
    <3>. QED BY <2>1, <3>1, <3>2, <3>4 DEF ServedOrClosed, Alive
  <2>. QED BY <2>2, <2>3
<1>. QED BY <1>3, <1>4, <1>5, <1>6 DEF Unraced

\* Consumers only go.
LEMMA ConsumersGo ==
  ASSUME Typing, NEW s \in Streams, NEW c \in Consumers,
         Consume(s, c) \/ ConsumerEnds(s, c) \/ ConsumerFails(s, c)
  PROVE  \A t \in Streams : Alive(t)' \subseteq Alive(t)
<1>1. cons[s][c] # "none"
  BY DEF Consume, ConsumerEnds, ConsumerFails
<1>2. PICK now \in {"late", "reading", "none"} : cons' = [cons EXCEPT ![s][c] = now]
  BY DEF Consume, ConsumerEnds, ConsumerFails, Return
<1>. QED BY <1>1, <1>2 DEF Typing, Reading, Alive

\* A step of a source or a consumer starts nothing.
LEMMA PullStreamStep ==
  ASSUME PullState, UNCHANGED <<opVars, sup, closed, owner, stopped>>,
         \A t \in Streams : Alive(t)' \subseteq Alive(t)
  PROVE  Unraced'
<1>. USE DEF PullState, opVars
<1>1. \A r \in Runtimes : ~WaitGroupZero(r)' => ~WaitGroupZero(r)
  BY DEF WaitGroupZero, Supervised
<1>2. OneActs' /\ HandAndMap'
  BY DEF Unraced, OneActs, HandAndMap, Acts, Stops
<1>3. LiveInHand'
  BY <1>1 DEF Unraced, LiveInHand, Stops
<1>4. StoppedIsZero' /\ ServedOrClosed'
  BY <1>1 DEF Unraced, StoppedIsZero, ServedOrClosed, TypeInv, Typing
<1>. QED BY <1>2, <1>3, <1>4 DEF Unraced

\* No RTMP connection acts on a pull camera.
LEMMA NobodyPublishes ==
  ASSUME SourceType = "pull", PulledOnly, NEW p \in Streams
  PROVE  ~(Offer(p) \/ Publisher(p) \/ Disconnect(p))
  BY DEF PulledOnly, Offer, Publisher, Disconnect, DetachRead, DetachCancel, DetachClear,
         DetachState, AttachContext, AttachStream, AttachConsumers, OnClose

\* Whatever happens to a pull camera, nobody publishes to it.
LEMMA PulledOnlyKept ==
  ASSUME TypeInv, SourceType = "pull", PulledOnly, Next
  PROVE  PulledOnly'
<1>. USE DEF TypeInv
<1>1. ASSUME NEW o \in Operators, Request(o) \/ Operator(o) PROVE PulledOnly'
  <2>1. UNCHANGED <<src, pub, owner, cons>>
    BY <1>1 DEF Request, Operator, StartCamera, RemoveCamera, StopCancel, StopClose, StopWait,
                Insert, StartContext, StartSupervisor, streamVars
  <2>2. sup' = sup \/ (StartSupervisor(o) /\ sup' = [sup EXCEPT ![op[o].rt].pc = "loop"])
    BY <1>1 DEF Request, Operator, StartCamera, RemoveCamera, StopCancel, StopClose, StopWait,
                Insert, StartContext, StartSupervisor, streamVars
  <2>3. \A r \in Runtimes : sup'[r].pc \in Attempting => sup'[r] = sup[r]
    BY <2>2 DEF Typing, SupRecord, Attempting
  <2>. QED BY <2>1, <2>3 DEF PulledOnly, Alive
<1>2. ASSUME NEW r \in Runtimes, Supervisor(r) PROVE PulledOnly'
  <2>0. /\ UNCHANGED pub
        /\ \A q \in Runtimes \ {r} : sup'[q] = sup[q]
        /\ \A s \in Streams : src[s] # "none" => src'[s] # "none" /\ owner'[s] = owner[s]
        /\ \A s \in Streams : Alive(s)' # {} => Alive(s) # {} \/ src[s] # "none"
        /\ sup'[r].pc \in Attempting => owner'[sup'[r].attempt] = r
    BY <1>2, SupervisorStep
  <2>1. ASSUME NEW q \in Runtimes \ {r}, sup'[q].pc \in Attempting PROVE owner'[sup'[q].attempt] = q
    BY <2>0, <2>1 DEF PulledOnly, AttemptsKnown
  <2>. QED BY <2>0, <2>1 DEF PulledOnly
<1>3. ASSUME NEW s \in Streams, SourceReady(s) \/ SourceEnds(s) PROVE PulledOnly'
  <2>1. UNCHANGED <<sup, pub, owner, cons>> /\ \A t \in Streams : src[t] # "none" => src'[t] # "none"
    BY <1>3 DEF SourceReady, SourceEnds, streamVars, Typing
  <2>. QED BY <2>1 DEF PulledOnly, Alive
<1>4. ASSUME NEW s \in Streams, NEW c \in Consumers,
             Consume(s, c) \/ ConsumerEnds(s, c) \/ ConsumerFails(s, c)
      PROVE  PulledOnly'
  <2>1. UNCHANGED <<sup, src, pub, owner>>
    BY <1>4 DEF Consume, ConsumerEnds, ConsumerFails, Return
  <2>. QED BY <1>4, <2>1, ConsumersGo DEF PulledOnly
<1>. QED BY <1>1, <1>2, <1>3, <1>4, NobodyPublishes DEF Next

\* After Manager.Start the one runtime is in the map and nothing is served yet.
LEMMA PullInit == Init => PullInv
<1>. SUFFICES ASSUME Init, SourceType = "pull" PROVE PulledOnly /\ Unraced
  BY DEF PullInv
<1>1. \A s \in Streams : Alive(s) = {}
  BY DEF Init, Alive
<1>2. PulledOnly
  BY <1>1 DEF Init, PulledOnly, Attempting
<1>3. \A o \in Operators : ~Acts(o)
  BY DEF Init, Acts, Stopping
<1>4. \A r \in Runtimes : r # cams => WaitGroupZero(r)
  BY <1>1 DEF Init, WaitGroupZero, Supervised
<1>5. OneActs /\ HandAndMap /\ LiveInHand
  BY <1>3, <1>4 DEF OneActs, HandAndMap, LiveInHand, Acts, Stops
<1>6. StoppedIsZero /\ ServedOrClosed
  BY <1>1 DEF Init, StoppedIsZero, ServedOrClosed
<1>. QED BY <1>2, <1>5, <1>6 DEF Unraced

\* That requests met halfway is never forgotten.
LEMMA RacedStays == [Next]_vars => (raced => raced')
<1>. SUFFICES ASSUME [Next]_vars, raced PROVE raced'
  OBVIOUS
<1>1. ASSUME NEW o \in Operators, Request(o) \/ Operator(o) PROVE raced'
  BY <1>1 DEF Request, Operator, StartCamera, RemoveCamera, StopCancel, StopClose, StopWait,
              Insert, StartContext, StartSupervisor
<1>2. ASSUME NEW r \in Runtimes, Supervisor(r) PROVE raced'
  BY <1>2 DEF Supervisor, Dial, Quit, SelectDone, SelectReady, SelectErr, Drain, Serve, ServeEnds,
              Clear, Redial, opVars
<1>3. ASSUME NEW p \in Streams,
             SourceReady(p) \/ SourceEnds(p) \/ Offer(p) \/ Publisher(p) \/ Disconnect(p)
      PROVE  raced'
  BY <1>3 DEF SourceReady, SourceEnds, Offer, Publisher, Disconnect, DetachRead, DetachCancel,
              DetachClear, DetachState, AttachContext, AttachStream, AttachConsumers, OnClose, opVars
<1>4. ASSUME NEW s \in Streams, NEW c \in Consumers,
             Consume(s, c) \/ ConsumerEnds(s, c) \/ ConsumerFails(s, c)
      PROVE  raced'
  BY <1>4 DEF Consume, ConsumerEnds, ConsumerFails, Return, opVars
<1>5. CASE UNCHANGED vars
  BY <1>5 DEF vars
<1>. QED BY <1>1, <1>2, <1>3, <1>4, <1>5 DEF Next

\* Every step keeps the one source, or requests have met halfway.
LEMMA PullNext == TypeInv /\ PullInv /\ [Next]_vars => PullInv'
<1>. SUFFICES ASSUME TypeInv, PulledOnly, raced \/ Unraced, [Next]_vars, SourceType = "pull"
              PROVE  PulledOnly' /\ (raced' \/ Unraced')
  BY DEF PullInv
<1>1. PulledOnly'
  <2>1. CASE UNCHANGED vars
    BY <2>1 DEF vars, PulledOnly, Alive
  <2>. QED BY <2>1, PulledOnlyKept
<1>2. ASSUME ~raced' PROVE Unraced'
  <2>0. PullState
    BY <1>2, RacedStays DEF PullState
  <2>1. ASSUME NEW o \in Operators, Request(o) \/ Operator(o) PROVE Unraced'
    BY <1>2, <2>0, <2>1, PullRequestStep, PullTakeStep, PullStopStep, PullStartStep DEF Operator
  <2>2. ASSUME NEW r \in Runtimes, Supervisor(r) PROVE Unraced'
    BY <2>0, <2>2, PullSupervisorStep
  <2>3. ASSUME NEW s \in Streams, SourceReady(s) \/ SourceEnds(s) PROVE Unraced'
    <3>1. UNCHANGED <<opVars, sup, closed, owner, stopped, cons>>
      BY <2>3 DEF SourceReady, SourceEnds, streamVars
    <3>. QED BY <2>0, <3>1, PullStreamStep DEF Alive
  <2>4. ASSUME NEW s \in Streams, NEW c \in Consumers,
               Consume(s, c) \/ ConsumerEnds(s, c) \/ ConsumerFails(s, c)
        PROVE  Unraced'
    <3>1. UNCHANGED <<opVars, sup, closed, owner, stopped>>
      BY <2>4 DEF Consume, ConsumerEnds, ConsumerFails, Return
    <3>. QED BY <2>0, <2>4, <3>1, ConsumersGo, PullStreamStep DEF TypeInv
  <2>5. CASE UNCHANGED vars
    <3>1. UNCHANGED <<opVars, sup, closed, owner, stopped, cons>>
      BY <2>5 DEF vars, opVars
    <3>. QED BY <2>0, <3>1, PullStreamStep DEF Alive
  <2>. QED BY <2>1, <2>2, <2>3, <2>4, <2>5, NobodyPublishes DEF Next
<1>. QED BY <1>1, <1>2

\* The invariants of a pull camera hold in every state.
LEMMA PullInvariant == Spec => [](TypeInv /\ PullInv)
<1>. QED BY InitTypes, NextTypes, PullInit, PullNext, PTL DEF Spec

\* StoppedIsGoneUnlessRaced holds of every pull camera: as long as no request meets another
\* halfway, what stop() waited for never runs again (runtime.go 179-195).
THEOREM StoppedStaysGone ==
  ASSUME SourceType = "pull"
  PROVE  Spec => []StoppedIsGoneUnlessRaced
<1>1. PullInv => StoppedIsGoneUnlessRaced
  BY DEF PullInv, Unraced, StoppedIsZero, StoppedIsGoneUnlessRaced
<1>. QED BY <1>1, PullInvariant, PTL

\* OneSourceUnlessRaced holds of every pull camera: one supervisor that runs, one open stream
\* whose consumers read it, across reconnects and restarts.
THEOREM OneSource ==
  ASSUME SourceType = "pull"
  PROVE  Spec => []OneSourceUnlessRaced
<1>1. ASSUME TypeInv, PullInv PROVE OneRuntimeUnlessRaced
  BY <1>1 DEF PullInv, Unraced, LiveInHand, OneRuntimeUnlessRaced, InHand, WaitGroupZero
<1>2. ASSUME TypeInv, PullInv PROVE ServedOnceUnlessRaced
  <2>. SUFFICES ASSUME ~raced, NEW s \in Streams, NEW t \in Streams,
                       s # t, Alive(s) # {}, Alive(t) # {}
                PROVE  s \in closed \/ t \in closed
    BY DEF ServedOnceUnlessRaced
  <2>1. Unraced
    BY <1>2 DEF PullInv
  <2>2. /\ owner[s] \in Runtimes /\ owner[t] \in Runtimes
        /\ ~WaitGroupZero(owner[s]) /\ ~WaitGroupZero(owner[t])
    BY <2>1 DEF Unraced, ServedOrClosed, WaitGroupZero
  <2>3. \A r, q \in Runtimes : ~WaitGroupZero(r) /\ ~WaitGroupZero(q) => r = q
    BY <2>1 DEF Unraced, LiveInHand, HandAndMap, OneActs, Acts, Stops, Runtimes, None
  <2>4. owner[s] = owner[t]
    BY <2>2, <2>3
  <2>. QED BY <2>1, <2>4 DEF Unraced, ServedOrClosed
<1>. QED BY <1>1, <1>2, PullInvariant, PTL DEF OneSourceUnlessRaced

-----------------------------------------------------------------------------
(***************************************************************************)
(* RTMP cameras: the last connection out leaves the camera not live.       *)
(***************************************************************************)

\* A connection that publishes, or is at one of these places of an attach or a detach of the
\* runtime in the map.
PublishesOrAt(p, places) == pub[p].pc = "publishing" \/ (pub[p].pc \in places /\ pub[p].rt = cams)

StreamPlaces == {"consume", "read", "cancel", "clear"}
StatePlaces == {"read", "cancel", "clear", "connecting"}

\* Where the runtime in the map got its stream and its state from, some connection is still
\* there to take them away again.
StreamHasPublisher ==
  cams # None /\ rt[cams].stream # None => PublishesOrAt(rt[cams].stream, StreamPlaces)

RunningHasPublisher ==
  cams # None /\ rt[cams].state = "running" => \E p \in Streams : PublishesOrAt(p, StatePlaces)

NoSupervisors ==
  /\ \A r \in Runtimes : sup[r].pc = "none"
  /\ \A o \in Operators : op[o].pc # "go"

\* A runtime starts without a stream.
NotMadeYet == \A r \in Runtimes : r > made => rt[r].stream = None /\ rt[r].state # "running"

Attached == NotMadeYet /\ StreamHasPublisher /\ RunningHasPublisher

PushInv == SourceType = "rtmp" => NoSupervisors /\ Attached

\* What is known of the state a step starts from.
PushState == TypeInv /\ SourceType = "rtmp" /\ NoSupervisors /\ Attached

\* What one assignment to a field of a runtime leaves as it was.
LEMMA FieldValues ==
  ASSUME Typing, NEW r \in Runtimes, NEW state, NEW s
  PROVE  /\ rt' = [rt EXCEPT ![r].stream = s] => 
              /\ rt'[r].stream = s /\ rt'[r].state = rt[r].state
              /\ \A q \in Runtimes \ {r} : rt'[q] = rt[q]
         /\ rt' = [rt EXCEPT ![r].state = state] =>
              /\ rt'[r].state = state /\ rt'[r].stream = rt[r].stream
              /\ \A q \in Runtimes \ {r} : rt'[q] = rt[q]
         /\ rt' = [rt EXCEPT ![r].pushCancel = s] \/ rt' = [rt EXCEPT ![r].muxer = s] =>
              /\ rt'[r].state = rt[r].state /\ rt'[r].stream = rt[r].stream
              /\ \A q \in Runtimes \ {r} : rt'[q] = rt[q]
  BY DEF Typing, CamRuntime

\* A connection's step, as the camera's stream and state tell it.
LEMMA PublisherStep ==
  ASSUME PushState, NEW p \in Streams, Offer(p) \/ Publisher(p) \/ Disconnect(p)
  PROVE  /\ UNCHANGED <<cams, made, op, sup>>
         /\ \A q \in Streams \ {p} : pub'[q] = pub[q]
         /\ \A r \in Runtimes :
              /\ rt'[r] = rt[r] \/ r \in 1..made
              /\ \/ rt'[r].stream = rt[r].stream
                 \/ rt'[r].stream = None
                 \/ rt'[r].stream = p /\ pub'[p].pc = "consume" /\ pub'[p].rt = r
              /\ rt'[r].state \in {rt[r].state, "connecting"} \/ pub'[p].pc = "publishing"
         /\ PublishesOrAt(p, StreamPlaces) /\ cams # None
              => PublishesOrAt(p, StreamPlaces)' \/ rt'[cams].stream = None
         /\ PublishesOrAt(p, StatePlaces) /\ cams # None
              => PublishesOrAt(p, StatePlaces)' \/ rt'[cams].state = "connecting"
<1>. USE DEF PushState, TypeInv
<1>0. UNCHANGED <<cams, made, op, sup>>
  BY DEF Offer, Publisher, Disconnect, DetachRead, DetachCancel, DetachClear, DetachState,
         AttachContext, AttachStream, AttachConsumers, OnClose, opVars
<1>1. /\ cams \in Runtimes \cup {None} /\ 1..made \subseteq Runtimes
      /\ \A r \in Runtimes : rt[r] \in CamRuntime
      /\ pub[p] \in PubRecord
      /\ pub[p].pc \in AtRuntime => pub[p].rt \in 1..made /\ pub[p].rt \in Runtimes
  BY DEF PublishersKnow, Typing, Runtimes, None
<1>2. CASE Offer(p) \/ Disconnect(p)
  <2>1. /\ rt' = rt /\ \A q \in Streams \ {p} : pub'[q] = pub[q]
        /\ pub[p].pc \in {"idle", "publishing"} /\ (Disconnect(p) => pub[p].pc = "publishing")
        /\ cams # None => pub'[p].pc = "read" /\ pub'[p].rt = cams
    <3>1. CASE Offer(p)
      BY <1>1, <3>1 DEF Offer, Disconnect, Typing, PubRecord
    <3>2. CASE Disconnect(p)
      BY <1>1, <3>2 DEF Disconnect, Typing, PubRecord
    <3>. QED BY <1>2, <3>1, <3>2
  <2>. QED BY <1>0, <1>1, <2>1 DEF PublishesOrAt, StreamPlaces, StatePlaces
<1>3. CASE Publisher(p)
  <2>. USE DEF AtRuntime, StreamPlaces, StatePlaces
  <2>1. ASSUME NEW pc, pub' = [pub EXCEPT ![p].pc = pc]
        PROVE  /\ pub'[p].pc = pc /\ pub'[p].rt = pub[p].rt
               /\ \A q \in Streams \ {p} : pub'[q] = pub[q]
    BY <1>1, <2>1 DEF Typing, PubRecord
  <2>2. CASE DetachRead(p)
    <3>1. PICK r \in Runtimes : r = pub[p].rt /\ r \in 1..made
      BY <1>1, <2>2 DEF DetachRead
    <3>2. rt' = [rt EXCEPT ![r].pushCancel = None]
      BY <2>2, <3>1 DEF DetachRead
    <3>3. /\ pub[p].pc = "read" /\ pub'[p].pc = "cancel" /\ pub'[p].rt = r
          /\ \A q \in Streams \ {p} : pub'[q] = pub[q]
      BY <1>1, <2>2, <3>1 DEF DetachRead, Typing, PubRecord
    <3>. QED BY <1>0, <1>1, <3>1, <3>2, <3>3, FieldValues DEF PublishesOrAt
  <2>3. CASE DetachCancel(p)
    <3>1. /\ rt' = rt /\ pub[p].pc = "cancel" /\ pub'[p].pc = "clear" /\ pub'[p].rt = pub[p].rt
          /\ \A q \in Streams \ {p} : pub'[q] = pub[q]
      BY <1>1, <2>3 DEF DetachCancel, Typing, PubRecord
    <3>. QED BY <1>0, <1>1, <3>1 DEF PublishesOrAt
  <2>4. CASE DetachClear(p)
    <3>1. PICK r \in Runtimes : r = pub[p].rt /\ r \in 1..made
      BY <1>1, <2>4 DEF DetachClear
    <3>2. rt' = [rt EXCEPT ![r].stream = None] /\ pub[p].pc = "clear"
      BY <2>4, <3>1 DEF DetachClear
    <3>3. /\ pub'[p].pc = "connecting" /\ pub'[p].rt = r
          /\ \A q \in Streams \ {p} : pub'[q] = pub[q]
      BY <2>1, <2>4, <3>1 DEF DetachClear, PubGoto
    <3>4. /\ rt'[r].stream = None /\ rt'[r].state = rt[r].state
          /\ \A q \in Runtimes \ {r} : rt'[q] = rt[q]
      BY <3>2, FieldValues
    <3>. QED BY <1>0, <1>1, <3>1, <3>2, <3>3, <3>4 DEF PublishesOrAt
  <2>5. CASE DetachState(p)
    <3>1. PICK r \in Runtimes : r = pub[p].rt /\ r \in 1..made
      BY <1>1, <2>5 DEF DetachState
    <3>2. rt' = [rt EXCEPT ![r].state = "connecting"] /\ pub[p].pc = "connecting"
      BY <2>5, <3>1 DEF DetachState, SetState
    <3>3. pub'[p].rt = r /\ \A q \in Streams \ {p} : pub'[q] = pub[q]
      BY <2>1, <2>5, <3>1 DEF DetachState, PubGoto
    <3>4. /\ rt'[r].state = "connecting" /\ rt'[r].stream = rt[r].stream
          /\ \A q \in Runtimes \ {r} : rt'[q] = rt[q]
      BY <3>2, FieldValues
    <3>. QED BY <1>0, <1>1, <3>1, <3>2, <3>3, <3>4 DEF PublishesOrAt
  <2>6. CASE AttachContext(p)
    <3>1. PICK r \in Runtimes : r = pub[p].rt /\ r \in 1..made
      BY <1>1, <2>6 DEF AttachContext
    <3>2. rt' = [rt EXCEPT ![r].pushCancel = p] /\ pub[p].pc = "context"
      BY <2>6, <3>1 DEF AttachContext
    <3>3. pub'[p].rt = r /\ \A q \in Streams \ {p} : pub'[q] = pub[q]
      BY <2>1, <2>6, <3>1 DEF AttachContext, PubGoto
    <3>. QED BY <1>0, <1>1, <3>1, <3>2, <3>3, FieldValues DEF PublishesOrAt
  <2>7. CASE AttachStream(p)
    <3>1. PICK r \in Runtimes : r = pub[p].rt /\ r \in 1..made
      BY <1>1, <2>7 DEF AttachStream
    <3>2. rt' = [rt EXCEPT ![r].stream = p] /\ pub[p].pc = "attach"
      BY <2>7, <3>1 DEF AttachStream
    <3>3. pub'[p].pc = "consume" /\ pub'[p].rt = r /\ \A q \in Streams \ {p} : pub'[q] = pub[q]
      BY <2>1, <2>7, <3>1 DEF AttachStream, PubGoto
    <3>. QED BY <1>0, <1>1, <3>1, <3>2, <3>3, FieldValues DEF PublishesOrAt
  <2>8. CASE AttachConsumers(p)
    <3>1. PICK r \in Runtimes : r = pub[p].rt /\ r \in 1..made
      BY <1>1, <2>8 DEF AttachConsumers
    <3>2. PICK muxer \in Streams \cup {None} :
            rt' = [rt EXCEPT ![r].muxer = muxer, ![r].state = "running"]
      BY <1>1, <2>8, <3>1 DEF AttachConsumers, StartConsumers, Typing, CamRuntime
    <3>3. /\ rt'[r].stream = rt[r].stream
          /\ \A q \in Runtimes \ {r} : rt'[q] = rt[q]
      BY <1>1, <3>2 DEF Typing, CamRuntime
    <3>4. pub'[p].pc = "publishing" /\ \A q \in Streams \ {p} : pub'[q] = pub[q]
      BY <1>1, <2>8 DEF AttachConsumers, Typing, PubRecord
    <3>. QED BY <1>0, <1>1, <3>1, <3>3, <3>4 DEF PublishesOrAt
  <2>9. CASE OnClose(p)
    <3>1. /\ rt' = rt /\ pub[p].pc = "close" /\ \A q \in Streams \ {p} : pub'[q] = pub[q]
      BY <1>1, <2>9 DEF OnClose, Typing, PubRecord
    <3>. QED BY <1>0, <1>1, <3>1 DEF PublishesOrAt
  <2>. QED BY <1>3, <2>2, <2>3, <2>4, <2>5, <2>6, <2>7, <2>8, <2>9 DEF Publisher
<1>. QED BY <1>2, <1>3

\* A connection takes away the stream and the state it gave, or somebody else is there to.
LEMMA PushPublisherStep ==
  ASSUME PushState, NEW p \in Streams, Offer(p) \/ Publisher(p) \/ Disconnect(p)
  PROVE  (NoSupervisors /\ Attached)'
<1>. USE DEF PushState
<1>0. cams \in Runtimes \cup {None} /\ \A r \in Runtimes : rt[r].stream \in Streams \cup {None}
  BY DEF TypeInv, Typing, CamRuntime, Runtimes, None
<1>1. NoSupervisors'
  BY PublisherStep DEF NoSupervisors
<1>2. NotMadeYet'
  BY PublisherStep DEF Attached, NotMadeYet, TypeInv, Typing, Runtimes
<1>3. StreamHasPublisher'
  <2>. SUFFICES ASSUME NEW s \in Streams, cams # None, rt'[cams].stream = s, UNCHANGED cams
                PROVE  PublishesOrAt(s, StreamPlaces)'
    <3>1. \A r \in Runtimes : rt'[r].stream \in Streams \cup {None}
      BY <1>0, PublisherStep
    <3>. QED BY <1>0, <3>1, PublisherStep DEF StreamHasPublisher
  <2>1. CASE s = p /\ pub'[p].pc = "consume" /\ pub'[p].rt = cams
    BY <2>1 DEF PublishesOrAt, StreamPlaces
  <2>2. CASE s = rt[cams].stream
    <3>1. PublishesOrAt(s, StreamPlaces)
      BY <2>2 DEF Attached, StreamHasPublisher, Streams, None
    <3>2. CASE s = p
      BY <3>1, <3>2, PublisherStep DEF Streams, None
    <3>3. CASE s # p
      <4>1. pub'[s] = pub[s]
        BY <3>3, PublisherStep
      <4>. QED BY <3>1, <4>1 DEF PublishesOrAt
    <3>. QED BY <3>2, <3>3
  <2>. QED BY <1>0, <2>1, <2>2, PublisherStep DEF Streams, None
<1>4. RunningHasPublisher'
  <2>. SUFFICES ASSUME cams # None, rt'[cams].state = "running", UNCHANGED cams
                PROVE  \E q \in Streams : PublishesOrAt(q, StatePlaces)'
    BY PublisherStep DEF RunningHasPublisher
  <2>1. CASE pub'[p].pc = "publishing"
    BY <2>1 DEF PublishesOrAt
  <2>2. CASE rt[cams].state = "running"
    <3>1. PICK q \in Streams : PublishesOrAt(q, StatePlaces)
      BY <2>2 DEF Attached, RunningHasPublisher
    <3>2. CASE q = p
      BY <3>1, <3>2, PublisherStep
    <3>3. CASE q # p
      <4>1. pub'[q] = pub[q]
        BY <3>3, PublisherStep
      <4>. QED BY <3>1, <4>1 DEF PublishesOrAt
    <3>. QED BY <3>2, <3>3
  <2>. QED BY <1>0, <2>1, <2>2, PublisherStep
<1>. QED BY <1>1, <1>2, <1>3, <1>4 DEF Attached

\* Whatever else happens leaves the publishers where they are, and takes the runtime they
\* act on out of the map, or starts with a fresh one.
LEMMA AttachedKept ==
  ASSUME PushState, UNCHANGED pub, made' >= made, made' \in Nat, cams' \in Runtimes \cup {None},
         cams' \in {cams, None} \/ (cams' = made + 1 /\ made' = made + 1),
         \A r \in Runtimes : /\ rt'[r].stream = rt[r].stream
                             /\ rt'[r].state \in {rt[r].state, "connecting"}
  PROVE  Attached'
<1>. USE DEF PushState
<1>1. NotMadeYet'
  BY DEF Attached, NotMadeYet, TypeInv, Typing, Runtimes
<1>2. CASE cams' = cams
  <2>1. StreamHasPublisher'
    BY <1>2 DEF Attached, StreamHasPublisher, PublishesOrAt
  <2>2. RunningHasPublisher'
    BY <1>2 DEF Attached, RunningHasPublisher, PublishesOrAt
  <2>. QED BY <1>1, <2>1, <2>2 DEF Attached
<1>3. CASE cams' = None
  BY <1>1, <1>3 DEF Attached, StreamHasPublisher, RunningHasPublisher
<1>4. CASE cams' = made + 1
  <2>1. cams' \in Runtimes /\ cams' > made
    BY <1>4 DEF TypeInv, Typing, Runtimes, None
  <2>2. rt'[cams'].stream = None /\ rt'[cams'].state # "running"
    BY <2>1 DEF Attached, NotMadeYet
  <2>. QED BY <1>1, <2>2 DEF Attached, StreamHasPublisher, RunningHasPublisher
<1>. QED BY <1>2, <1>3, <1>4

\* A request gives no runtime a stream.
LEMMA PushOperatorStep ==
  ASSUME PushState, NEW o \in Operators, Request(o) \/ Operator(o)
  PROVE  (NoSupervisors /\ Attached)'
<1>. USE DEF PushState, TypeInv
<1>0. ~StartSupervisor(o)
  BY DEF StartSupervisor, NoSupervisors
<1>1. UNCHANGED <<sup, pub>>
  BY <1>0 DEF Request, Operator, StartCamera, RemoveCamera, StopCancel, StopClose, StopWait,
              Insert, StartContext
<1>2. op'[o].pc # "go" /\ \A q \in Operators \ {o} : op'[q] = op[q]
  BY <1>0 DEF Request, Operator, StartCamera, RemoveCamera, StopCancel, StopClose, StopWait,
              Insert, StartContext, Goto, Typing, OpRecord
<1>3. NoSupervisors'
  BY <1>1, <1>2 DEF NoSupervisors
<1>4. \A r \in Runtimes : /\ rt'[r].stream = rt[r].stream
                          /\ rt'[r].state \in {rt[r].state, "connecting"}
  <2>1. CASE StopCancel(o) \/ StartContext(o)
    <3>1. PICK r \in Runtimes : r = op[o].rt
      BY <2>1 DEF StopCancel, StartContext, RequestsKnow, Stopping, Typing, Runtimes
    <3>2. CASE StopCancel(o)
      <4>1. rt' = [rt EXCEPT ![r].cancelled = rt[r].started]
        BY <3>1, <3>2 DEF StopCancel
      <4>. QED BY <4>1 DEF Typing, CamRuntime
    <3>3. CASE StartContext(o)
      <4>1. rt' = [rt EXCEPT ![r].started = TRUE, ![r].state = "connecting"]
        BY <3>1, <3>3 DEF StartContext
      <4>. QED BY <4>1 DEF Typing, CamRuntime
    <3>. QED BY <2>1, <3>2, <3>3
  <2>2. CASE ~StopCancel(o) /\ ~StartContext(o)
    <3>1. rt' = rt
      BY <1>0, <2>2 DEF Request, Operator, StartCamera, RemoveCamera, StopClose, StopWait, Insert
    <3>. QED BY <3>1
  <2>. QED BY <2>1, <2>2
<1>5. \/ cams' \in {cams, None} /\ made' = made
      \/ cams' = made + 1 /\ made' = made + 1
  BY <1>0 DEF Request, Operator, StartCamera, RemoveCamera, StopCancel, StopClose, StopWait,
              Insert, StartContext
<1>6. TypeInv'
  BY RequestTypes, StartCameraTypes, StopTypes, InsertTypes, StartTypes, <1>0 DEF Operator
<1>7. made \in Nat /\ made' \in Nat /\ cams' \in Runtimes \cup {None}
  BY <1>6 DEF Typing, Runtimes, None
<1>. QED BY <1>1, <1>3, <1>4, <1>5, <1>7, AttachedKept

\* A consumer that ends leaves stream and state alone.
LEMMA PushConsumerStep ==
  ASSUME PushState, NEW s \in Streams, NEW c \in Consumers,
         Consume(s, c) \/ ConsumerEnds(s, c) \/ ConsumerFails(s, c)
  PROVE  (NoSupervisors /\ Attached)'
<1>. USE DEF PushState, TypeInv
<1>1. UNCHANGED <<op, sup, pub, made, cams>>
  BY DEF Consume, ConsumerEnds, ConsumerFails, Return, opVars
<1>2. \A r \in Runtimes : rt'[r].stream = rt[r].stream /\ rt'[r].state = rt[r].state
  <2>1. CASE Consume(s, c)
    BY <2>1 DEF Consume
  <2>2. CASE Return(s, c)
    <3>1. PICK muxer : rt' = [rt EXCEPT ![owner[s]].muxer = muxer]
      BY <2>2 DEF Return
    <3>. QED BY <3>1 DEF Typing, CamRuntime
  <2>. QED BY <2>1, <2>2 DEF ConsumerEnds, ConsumerFails
<1>3. made \in Nat /\ cams \in Runtimes \cup {None}
  BY DEF Typing, Runtimes, None
<1>. QED BY <1>1, <1>2, <1>3, AttachedKept DEF NoSupervisors

\* After Manager.Start no connection has been accepted.
LEMMA PushInit == Init => PushInv
  BY DEF Init, Fresh, PushInv, NoSupervisors, Attached, NotMadeYet, StreamHasPublisher,
         RunningHasPublisher, Runtimes

\* Every step keeps a publisher behind the stream and the state of the runtime in the map.
LEMMA PushNext == TypeInv /\ PushInv /\ [Next]_vars => PushInv'
<1>. SUFFICES ASSUME PushState, [Next]_vars PROVE (NoSupervisors /\ Attached)'
  BY DEF PushInv, PushState
<1>1. ASSUME NEW r \in Runtimes PROVE ~Supervisor(r)
  BY DEF PushState, NoSupervisors, Supervisor, Dial, Quit, SelectDone, SelectReady, SelectErr,
         Drain, Serve, ServeEnds, Clear, Redial
<1>2. ASSUME UNCHANGED <<opVars, sup, pub, rt>> PROVE (NoSupervisors /\ Attached)'
  <2>1. made \in Nat /\ cams \in Runtimes \cup {None}
    BY DEF PushState, TypeInv, Typing, Runtimes, None
  <2>. QED BY <1>2, <2>1, AttachedKept DEF PushState, NoSupervisors, opVars
<1>3. ASSUME NEW s \in Streams, SourceReady(s) \/ SourceEnds(s) PROVE (NoSupervisors /\ Attached)'
  BY <1>2, <1>3 DEF SourceReady, SourceEnds
<1>4. CASE UNCHANGED vars
  BY <1>2, <1>4 DEF vars, opVars
<1>. QED BY <1>1, <1>3, <1>4, PushOperatorStep, PushPublisherStep, PushConsumerStep DEF Next

\* SettledWhenGone holds of every RTMP camera: when the last connection has closed or was not
\* accepted yet, the runtime in the map has no stream and is not running (runtime.go 198-245).
THEOREM SettlesWhenGone == Spec => []SettledWhenGone
<1>1. ASSUME TypeInv, PushInv PROVE SettledWhenGone
  <2>. SUFFICES ASSUME SourceType = "rtmp", \A p \in Streams : pub[p].pc \in {"idle", "close", "gone"},
                       cams \in Runtimes
                PROVE  rt[cams].stream = None /\ rt[cams].state # "running"
    BY DEF SettledWhenGone
  <2>1. \A p \in Streams : ~PublishesOrAt(p, StreamPlaces) /\ ~PublishesOrAt(p, StatePlaces)
    BY DEF PublishesOrAt, StreamPlaces, StatePlaces
  <2>2. cams # None /\ rt[cams].stream \in Streams \cup {None}
    BY <1>1 DEF TypeInv, Typing, CamRuntime, Runtimes, None
  <2>. QED BY <1>1, <2>1, <2>2 DEF PushInv, Attached, StreamHasPublisher, RunningHasPublisher
<1>. QED BY <1>1, InitTypes, NextTypes, PushInit, PushNext, PTL DEF Spec

=============================================================================
