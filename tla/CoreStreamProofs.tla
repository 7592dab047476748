-------------------------- MODULE CoreStreamProofs --------------------------
(***************************************************************************)
(* Proofs about the fan-out hub, for any set of readers, any capacity and  *)
(* any number of units. Each invariant of the run is proved from Wiring,   *)
(* which relates the reader set, the channels and the consumers.           *)
(***************************************************************************)
EXTENDS CoreStream, SequenceTheorems, TLAPS

USE BufSizeAssumption, MaxUnitsAssumption

-----------------------------------------------------------------------------
(***************************************************************************)
(* Sequences as channels.                                                  *)
(***************************************************************************)

\* Receiving from a channel: what is left is the channel without its head.
LEMMA TailOfChannel ==
  ASSUME NEW s \in Seq(Nat), s # <<>>
  PROVE  /\ Head(s) \in Nat
         /\ Head(s) = s[1]
         /\ Tail(s) \in Seq(Nat)
         /\ Len(s) \in Nat \ {0}
         /\ Len(Tail(s)) = Len(s) - 1
         /\ \A i \in 1..Len(Tail(s)) : Tail(s)[i] = s[i + 1]
  OBVIOUS

\* Sending on a channel: the old units stay where they are, the new one is last.
LEMMA AppendToChannel ==
  ASSUME NEW s \in Seq(Nat), NEW u \in Nat
  PROVE  /\ Append(s, u) \in Seq(Nat)
         /\ Len(s) \in Nat
         /\ Len(Append(s, u)) = Len(s) + 1
         /\ \A i \in 1..Len(s) : Append(s, u)[i] = s[i]
         /\ Append(s, u)[Len(s) + 1] = u
  OBVIOUS

-----------------------------------------------------------------------------
\* Type correctness of every variable: in particular no channel ever holds more
\* units than the capacity AddReader gave it.
THEOREM TypeCorrect == Spec => []TypeOK
<1>1. Init => TypeOK
  <2>1. <<>> \in Seq(Nat) /\ Len(<<>>) = 0
    BY EmptySeq
  <2>2. ASSUME Init PROVE \A r \in Readers : chan[r] = <<>> /\ Len(chan[r]) <= BufSize
    BY <2>1, <2>2 DEF Init
  <2>3. ASSUME Init PROVE chan \in [Readers -> Seq(Nat)]
    BY <2>1, <2>3 DEF Init
  <2>4. ASSUME Init
        PROVE  /\ closed \in BOOLEAN /\ registered \subseteq Readers /\ writing \in BOOLEAN
               /\ todo \subseteq Readers /\ written \in Nat
               /\ chClosed \in [Readers -> BOOLEAN] /\ dropped \in [Readers -> Nat]
               /\ phase \in [Readers -> Phases] /\ last \in [Readers -> Nat]
               /\ joined \in [Readers -> Nat] /\ taken \in [Readers -> Nat]
    BY <2>4 DEF Init, Phases
  <2>. QED BY <2>2, <2>3, <2>4 DEF TypeOK
<1>2. TypeOK /\ [Next]_vars => TypeOK'
  <2> SUFFICES ASSUME TypeOK, [Next]_vars PROVE TypeOK'
    OBVIOUS
  <2> USE DEF TypeOK, Phases, streamVars, readerVars
  <2>1. CASE BeginWrite
    BY <2>1 DEF BeginWrite
  <2>2. CASE EndWrite
    BY <2>2 DEF EndWrite
  <2>3. ASSUME NEW r \in Readers, Push(r) PROVE TypeOK'
    <3>1. /\ Append(chan[r], written) \in Seq(Nat)
          /\ Len(Append(chan[r], written)) = Len(chan[r]) + 1
      BY AppendToChannel
    <3>4. Len(chan[r]) \in Nat
      BY AppendToChannel
    <3>2. CASE Len(chan[r]) < BufSize
      <4>1. chan' = [chan EXCEPT ![r] = Append(@, written)] /\ dropped' = dropped
        BY <2>3, <3>2, <3>4 DEF Push
      <4>2. chan' \in [Readers -> Seq(Nat)]
        BY <4>1, <3>1
      <4>3. \A p \in Readers : Len(chan'[p]) <= BufSize
        BY <4>1, <3>1, <3>2, <3>4
      <4>. QED BY <2>3, <4>1, <4>2, <4>3 DEF Push
    <3>3. CASE Len(chan[r]) >= BufSize
      <4>1. chan' = chan /\ dropped' = [dropped EXCEPT ![r] = @ + 1]
        BY <2>3, <3>3, <3>4 DEF Push
      <4>. QED BY <2>3, <4>1 DEF Push
    <3>5. Len(chan[r]) < BufSize \/ Len(chan[r]) >= BufSize
      BY <3>4
    <3>. QED BY <3>2, <3>3, <3>5
  <2>4. CASE CloseStream
    BY <2>4 DEF CloseStream
  <2>5. ASSUME NEW r \in Readers, AddReader(r) PROVE TypeOK'
    BY <2>5 DEF AddReader
  <2>6. ASSUME NEW r \in Readers, Receive(r) PROVE TypeOK'
    <3>1. /\ Tail(chan[r]) \in Seq(Nat)
          /\ Head(chan[r]) \in Nat
          /\ Len(Tail(chan[r])) = Len(chan[r]) - 1
          /\ Len(chan[r]) \in Nat
      BY <2>6, TailOfChannel DEF Receive
    <3>. QED BY <2>6, <3>1 DEF Receive
  <2>7. ASSUME NEW r \in Readers, SeeClosed(r) \/ Cancel(r) PROVE TypeOK'
    BY <2>7 DEF SeeClosed, Cancel
  <2>8. ASSUME NEW r \in Readers, RemoveReader(r) PROVE TypeOK'
    BY <2>8 DEF RemoveReader
  <2>9. CASE UNCHANGED vars
    BY <2>9 DEF vars
  <2>. QED
    BY <2>1, <2>2, <2>3, <2>4, <2>5, <2>6, <2>7, <2>8, <2>9 DEF Next, Writer, Consumer
<1>. QED BY <1>1, <1>2, PTL DEF Spec

-----------------------------------------------------------------------------
(***************************************************************************)
(* The strengthening: a Reader that was not added yet is untouched, a      *)
(* registered one has an open channel, and outside WriteUnit nothing is    *)
(* left to push.                                                           *)
(***************************************************************************)
Wiring ==
  /\ ~writing => todo = {}
  /\ todo \subseteq registered
  /\ \A r \in Readers :
       /\ r \in registered => ~chClosed[r]
       /\ phase[r] = "new" => /\ r \notin registered
                              /\ ~chClosed[r]
                              /\ chan[r] = <<>>
                              /\ dropped[r] = 0
                              /\ taken[r] = 0

LEMMA WiringInvariant == Spec => []Wiring
<1>1. Init => Wiring
  BY DEF Init, Wiring
<1>2. TypeOK /\ Wiring /\ [Next]_vars => Wiring'
  <2> SUFFICES ASSUME TypeOK, Wiring, [Next]_vars PROVE Wiring'
    OBVIOUS
  <2> USE DEF TypeOK, Wiring, Phases, streamVars, readerVars
  <2>1. CASE BeginWrite
    BY <2>1 DEF BeginWrite
  <2>2. CASE EndWrite
    BY <2>2 DEF EndWrite
  <2>3. ASSUME NEW r \in Readers, Push(r) PROVE Wiring'
    BY <2>3 DEF Push
  <2>4. CASE CloseStream
    BY <2>4 DEF CloseStream
  <2>5. ASSUME NEW r \in Readers, AddReader(r) PROVE Wiring'
    BY <2>5 DEF AddReader
  <2>6. ASSUME NEW r \in Readers, Receive(r) PROVE Wiring'
    BY <2>6 DEF Receive
  <2>7. ASSUME NEW r \in Readers, SeeClosed(r) \/ Cancel(r) PROVE Wiring'
    BY <2>7 DEF SeeClosed, Cancel
  <2>8. ASSUME NEW r \in Readers, RemoveReader(r) PROVE Wiring'
    BY <2>8 DEF RemoveReader
  <2>9. CASE UNCHANGED vars
    BY <2>9 DEF vars
  <2>. QED
    BY <2>1, <2>2, <2>3, <2>4, <2>5, <2>6, <2>7, <2>8, <2>9 DEF Next, Writer, Consumer
<1>. QED BY <1>1, <1>2, TypeCorrect, PTL DEF Spec

\* No goroutine of the process sends on a closed channel or closes one twice,
\* whatever the interleaving of WriteUnit, AddReader, RemoveReader and Close.
THEOREM NeverPanics == Spec => []NoPanic
<1>1. TypeOK /\ Wiring => NoPanic
  BY DEF TypeOK, Wiring, NoPanic
<1>. QED BY <1>1, TypeCorrect, WiringInvariant, PTL

-----------------------------------------------------------------------------
\* Dropped() together with what the consumer received and still holds adds up to
\* everything the source wrote since the reader was added.
THEOREM Accounting == Spec => []NothingUnaccounted
<1>1. Init => NothingUnaccounted
  BY DEF Init, NothingUnaccounted
<1>2. TypeOK /\ Wiring /\ NothingUnaccounted /\ [Next]_vars => NothingUnaccounted'
  <2> SUFFICES ASSUME TypeOK, Wiring, NothingUnaccounted, [Next]_vars,
                      NEW q \in registered'
               PROVE  (taken[q] + Len(chan[q]) + dropped[q] + Pending(q)
                         = written - joined[q])'
    BY DEF NothingUnaccounted
  <2> USE DEF TypeOK, Wiring, NothingUnaccounted, Pending, streamVars, readerVars
  <2>0. \A r \in Readers :
          /\ Len(chan[r]) \in Nat
          /\ r \in registered =>
               taken[r] + Len(chan[r]) + dropped[r] + Pending(r) = written - joined[r]
    BY AppendToChannel
  <2>1. CASE BeginWrite
    <3>1. q \in registered /\ q \notin todo /\ q \in todo' /\ written' = written + 1
      BY <2>1 DEF BeginWrite
    <3>2. /\ Pending(q) = 0 /\ Pending(q)' = 1
          /\ taken' = taken /\ chan' = chan /\ dropped' = dropped /\ joined' = joined
      BY <3>1, <2>1 DEF BeginWrite
    <3>. QED BY <3>1, <3>2, <2>0
  <2>2. CASE EndWrite
    BY <2>2 DEF EndWrite
  <2>3. ASSUME NEW r \in Readers, Push(r)
        PROVE  (taken[q] + Len(chan[q]) + dropped[q] + Pending(q) = written - joined[q])'
    <3>1. CASE q # r
      BY <2>3, <3>1 DEF Push
    <3>2. CASE q = r /\ Len(chan[r]) < BufSize
      <4>1. Len(chan'[r]) = Len(chan[r]) + 1 /\ dropped' = dropped
        BY <2>3, <3>2, AppendToChannel DEF Push
      <4>2. q \in registered /\ Pending(q) = 1 /\ Pending(q)' = 0
            /\ taken' = taken /\ written' = written /\ joined' = joined
        BY <2>3, <3>2 DEF Push
      <4>3. taken[q] + Len(chan[q]) + dropped[q] + 1 = written - joined[q]
        BY <4>2, <2>0
      <4>4. taken[q] \in Nat /\ Len(chan[q]) \in Nat /\ dropped[q] \in Nat
            /\ written \in Nat /\ joined[q] \in Nat
        BY <2>0, <3>2
      <4>. QED BY <3>2, <4>1, <4>2, <4>3, <4>4
    <3>3. CASE q = r /\ Len(chan[r]) >= BufSize
      <4>1. dropped'[r] = dropped[r] + 1 /\ chan' = chan
        BY <2>3, <3>3, <2>0 DEF Push
      <4>. QED BY <2>3, <3>3, <4>1, <2>0 DEF Push
    <3>. QED BY <3>1, <3>2, <3>3, <2>0
  <2>4. CASE CloseStream
    BY <2>4 DEF CloseStream
  <2>5. ASSUME NEW r \in Readers, AddReader(r)
        PROVE  (taken[q] + Len(chan[q]) + dropped[q] + Pending(q) = written - joined[q])'
    <3>1. CASE q # r
      BY <2>5, <3>1 DEF AddReader
    <3>2. CASE q = r
      <4>1. chan'[q] = <<>> /\ dropped'[q] = 0 /\ taken'[q] = 0 /\ q \notin todo'
            /\ joined'[q] = written'
        BY <2>5, <3>2 DEF AddReader
      <4>. QED BY <4>1, <2>5 DEF AddReader
    <3>. QED BY <3>1, <3>2
  <2>6. ASSUME NEW r \in Readers, Receive(r)
        PROVE  (taken[q] + Len(chan[q]) + dropped[q] + Pending(q) = written - joined[q])'
    <3>1. CASE q # r
      BY <2>6, <3>1 DEF Receive
    <3>2. CASE q = r
      <4>1. Len(chan'[r]) = Len(chan[r]) - 1
        BY <2>6, TailOfChannel DEF Receive
      <4>2. q \in registered /\ Pending(q)' = Pending(q) /\ taken'[q] = taken[q] + 1
            /\ dropped' = dropped /\ written' = written /\ joined' = joined
        BY <2>6, <3>2 DEF Receive
      <4>. QED BY <3>2, <4>1, <4>2, <2>0
    <3>. QED BY <3>1, <3>2
  <2>7. ASSUME NEW r \in Readers, SeeClosed(r) \/ Cancel(r)
        PROVE  (taken[q] + Len(chan[q]) + dropped[q] + Pending(q) = written - joined[q])'
    BY <2>7 DEF SeeClosed, Cancel
  <2>8. ASSUME NEW r \in Readers, RemoveReader(r)
        PROVE  (taken[q] + Len(chan[q]) + dropped[q] + Pending(q) = written - joined[q])'
    BY <2>8 DEF RemoveReader
  <2>9. CASE UNCHANGED vars
    BY <2>9 DEF vars
  <2>. QED
    BY <2>1, <2>2, <2>3, <2>4, <2>5, <2>6, <2>7, <2>8, <2>9 DEF Next, Writer, Consumer
<1>. QED BY <1>1, <1>2, TypeCorrect, WiringInvariant, PTL DEF Spec

-----------------------------------------------------------------------------
(***************************************************************************)
(* InOrder is not inductive: the unit being fanned out must be newer than  *)
(* all a reader still to be pushed to has received or buffered.            *)
(***************************************************************************)
OrderedFor(r) ==
  /\ last[r] <= written
  /\ r \in todo => last[r] < written
  /\ \A i \in 1..Len(chan[r]) :
       /\ last[r] < chan[r][i]
       /\ chan[r][i] <= written
       /\ r \in todo => chan[r][i] < written
       /\ \A j \in 1..Len(chan[r]) : i < j => chan[r][i] < chan[r][j]

Ordered == \A r \in Readers : OrderedFor(r)

LEMMA OrderedInvariant == Spec => []Ordered
<1>1. Init => Ordered
  <2>. SUFFICES ASSUME Init, NEW q \in Readers PROVE OrderedFor(q)
    BY DEF Ordered
  <2>1. chan[q] = <<>> /\ last[q] = 0 /\ written = 0 /\ todo = {}
    BY DEF Init
  <2>2. Len(chan[q]) = 0
    BY <2>1, EmptySeq
  <2>3. 1..Len(chan[q]) = {}
    BY <2>2
  <2>. QED BY <2>1, <2>3 DEF OrderedFor
<1>2. TypeOK /\ Wiring /\ Ordered /\ [Next]_vars => Ordered'
  <2> SUFFICES ASSUME TypeOK, Wiring, Ordered, [Next]_vars, NEW q \in Readers
               PROVE  OrderedFor(q)'
    BY DEF Ordered
  <2> USE DEF streamVars, readerVars
  <2>0. /\ OrderedFor(q)
        /\ last \in [Readers -> Nat] /\ written \in Nat /\ chan[q] \in Seq(Nat)
        /\ Len(chan[q]) \in Nat
        /\ \A i \in 1..Len(chan[q]) : chan[q][i] \in Nat
    BY DEF Ordered, TypeOK
  <2>1. CASE BeginWrite
    <3>1. last' = last /\ chan' = chan /\ written' = written + 1
      BY <2>1 DEF BeginWrite
    <3>. QED BY <2>0, <3>1 DEF OrderedFor
  <2>2. CASE EndWrite
    BY <2>2, <2>0 DEF EndWrite, OrderedFor
  <2>3. ASSUME NEW r \in Readers, Push(r) PROVE OrderedFor(q)'
    <3>1. last' = last /\ written' = written /\ q \in todo' => q \in todo
      BY <2>3 DEF Push
    <3>2. CASE chan'[q] = chan[q]
      <4>1. last'[q] = last[q] /\ written' = written /\ (q \in todo' => q \in todo)
        BY <2>3 DEF Push
      <4>. QED BY <4>1, <3>2, <2>0 DEF OrderedFor
    <3>3. CASE chan'[q] # chan[q]
      <4>1. q = r /\ q \in todo /\ q \notin todo' /\ chan'[q] = Append(chan[q], written)
            /\ last'[q] = last[q] /\ written' = written
        BY <2>3, <3>3 DEF Push, TypeOK
      <4>2. /\ Len(chan'[q]) = Len(chan[q]) + 1
            /\ \A i \in 1..Len(chan[q]) : chan'[q][i] = chan[q][i]
            /\ chan'[q][Len(chan[q]) + 1] = written
        BY <4>1, <2>0, AppendToChannel
      <4>3. \A i \in 1..Len(chan'[q]) : i \in 1..Len(chan[q]) \/ i = Len(chan[q]) + 1
        BY <4>2, <2>0
      <4>4. last[q] < written /\ \A i \in 1..Len(chan[q]) : chan[q][i] < written
        BY <4>1, <2>0 DEF OrderedFor
      <4>5. ASSUME NEW i \in 1..Len(chan'[q]), NEW j \in 1..Len(chan'[q]), i < j
            PROVE  chan'[q][i] < chan'[q][j]
        <5>1. i \in 1..Len(chan[q])
          BY <4>5, <4>2, <2>0
        <5>2. CASE j \in 1..Len(chan[q])
          BY <4>2, <4>5, <5>1, <5>2, <2>0 DEF OrderedFor
        <5>3. CASE j = Len(chan[q]) + 1
          BY <4>2, <4>4, <5>1, <5>3
        <5>. QED BY <4>3, <5>2, <5>3
      <4>6. ASSUME NEW i \in 1..Len(chan'[q])
            PROVE  last[q] < chan'[q][i] /\ chan'[q][i] <= written
        <5>1. CASE i \in 1..Len(chan[q])
          <6>1. chan'[q][i] = chan[q][i] /\ last[q] < chan[q][i] /\ chan[q][i] <= written
            BY <4>2, <5>1, <2>0 DEF OrderedFor
          <6>. QED BY <6>1
        <5>2. CASE i = Len(chan[q]) + 1
          BY <4>2, <4>4, <5>2, <2>0
        <5>. QED BY <4>3, <5>1, <5>2
      <4>. QED BY <4>1, <4>4, <4>5, <4>6, <2>0 DEF OrderedFor
    <3>. QED BY <3>2, <3>3
  <2>4. CASE CloseStream
    BY <2>4, <2>0 DEF CloseStream, OrderedFor
  <2>5. ASSUME NEW r \in Readers, AddReader(r) PROVE OrderedFor(q)'
    <3>1. CASE q # r
      <4>1. last'[q] = last[q] /\ chan' = chan /\ written' = written /\ todo' = todo
        BY <2>5, <3>1, <2>0 DEF AddReader
      <4>. QED BY <4>1, <2>0 DEF OrderedFor
    <3>2. CASE q = r
      <4>1. last'[q] = written' /\ chan'[q] = <<>> /\ q \notin todo' /\ written' = written
        BY <2>5, <3>2, <2>0 DEF AddReader, Wiring
      <4>2. 1..Len(chan'[q]) = {}
        BY <4>1, EmptySeq
      <4>. QED BY <4>1, <4>2, <2>0 DEF OrderedFor
    <3>. QED BY <3>1, <3>2
  <2>6. ASSUME NEW r \in Readers, Receive(r) PROVE OrderedFor(q)'
    <3>1. CASE q # r
      <4>1. last'[q] = last[q] /\ chan'[q] = chan[q] /\ written' = written /\ todo' = todo
        BY <2>6, <3>1, <2>0 DEF Receive, TypeOK
      <4>. QED BY <4>1, <2>0 DEF OrderedFor
    <3>2. CASE q = r
      <4>1. /\ last'[q] = chan[q][1] /\ chan'[q] = Tail(chan[q])
            /\ written' = written /\ todo' = todo /\ chan[q] # <<>>
        BY <2>6, <3>2, <2>0, TailOfChannel DEF Receive, TypeOK
      <4>2. /\ Len(chan'[q]) = Len(chan[q]) - 1 /\ Len(chan[q]) \in Nat \ {0}
            /\ \A i \in 1..Len(chan'[q]) : chan'[q][i] = chan[q][i + 1]
        BY <4>1, <2>0, TailOfChannel
      <4>3. 1 \in 1..Len(chan[q])
            /\ \A i \in 1..Len(chan'[q]) : i + 1 \in 1..Len(chan[q]) /\ 1 < i + 1
        BY <4>2
      <4>4. last'[q] <= written' /\ (q \in todo' => last'[q] < written')
        BY <4>1, <4>3, <2>0 DEF OrderedFor
      <4>5. ASSUME NEW i \in 1..Len(chan'[q])
            PROVE  /\ last'[q] < chan'[q][i] /\ chan'[q][i] <= written'
                   /\ (q \in todo' => chan'[q][i] < written')
                   /\ \A j \in 1..Len(chan'[q]) : i < j => chan'[q][i] < chan'[q][j]
        <5>1. chan[q][1] < chan[q][i + 1] /\ chan[q][i + 1] <= written
              /\ (q \in todo => chan[q][i + 1] < written)
          BY <4>3, <2>0 DEF OrderedFor
        <5>2. ASSUME NEW j \in 1..Len(chan'[q]), i < j PROVE chan'[q][i] < chan'[q][j]
          <6>1. i + 1 \in 1..Len(chan[q]) /\ j + 1 \in 1..Len(chan[q]) /\ i + 1 < j + 1
            BY <4>3, <5>2
          <6>2. chan[q][i + 1] < chan[q][j + 1]
            BY <6>1, <2>0 DEF OrderedFor
          <6>. QED BY <6>2, <4>2
        <5>. QED BY <5>1, <5>2, <4>1, <4>2
      <4>. QED BY <4>4, <4>5 DEF OrderedFor
    <3>. QED BY <3>1, <3>2
  <2>7. ASSUME NEW r \in Readers, SeeClosed(r) \/ Cancel(r) PROVE OrderedFor(q)'
    BY <2>7, <2>0 DEF SeeClosed, Cancel, OrderedFor
  <2>8. ASSUME NEW r \in Readers, RemoveReader(r) PROVE OrderedFor(q)'
    BY <2>8, <2>0 DEF RemoveReader, OrderedFor
  <2>9. CASE UNCHANGED vars
    BY <2>9, <2>0 DEF vars, OrderedFor
  <2>. QED
    BY <2>1, <2>2, <2>3, <2>4, <2>5, <2>6, <2>7, <2>8, <2>9 DEF Next, Writer, Consumer
<1>. QED BY <1>1, <1>2, TypeCorrect, WiringInvariant, PTL DEF Spec

\* No consumer sees a unit twice, out of order, or one written before it was added.
THEOREM DeliveredInOrder == Spec => []InOrder
<1>1. Ordered => InOrder
  BY DEF Ordered, OrderedFor, InOrder
<1>. QED BY <1>1, OrderedInvariant, PTL

-----------------------------------------------------------------------------
\* The hub with its lock, buffers and channels implements the lossy feed: every
\* step of it is a publication, a join, a delivery, a departure, the closing of the
\* feed, or nothing at all.
THEOREM HubImplementsFeed == Spec => ImplementsFeed
<1> USE DEF Feed!vars, member, Phases, streamVars, readerVars
<1>1. Init => Feed!Init
  BY DEF Init, Feed!Init
<1>2. TypeOK /\ Ordered /\ [Next]_vars => [Feed!Next]_(Feed!vars)
  <2> SUFFICES ASSUME TypeOK, Ordered, [Next]_vars PROVE [Feed!Next]_(Feed!vars)
    OBVIOUS
  <2>0. phase \in [Readers -> {"new", "reading", "leaving", "left"}]
    BY DEF TypeOK
  <2>1. CASE BeginWrite
    BY <2>1 DEF BeginWrite, Feed!Next, Feed!Publish
  <2>2. CASE EndWrite
    BY <2>2 DEF EndWrite
  <2>3. ASSUME NEW r \in Readers, Push(r) PROVE [Feed!Next]_(Feed!vars)
    BY <2>3 DEF Push
  <2>4. CASE CloseStream
    BY <2>4 DEF CloseStream, Feed!Next, Feed!Shut
  <2>5. ASSUME NEW r \in Readers, AddReader(r) PROVE [Feed!Next]_(Feed!vars)
    <3>1. Feed!Join(r)
      BY <2>0, <2>5 DEF AddReader, Feed!Join
    <3>. QED BY <3>1 DEF Feed!Next
  <2>6. ASSUME NEW r \in Readers, Receive(r) PROVE [Feed!Next]_(Feed!vars)
    <3>1. chan[r] \in Seq(Nat) /\ chan[r] # <<>> /\ OrderedFor(r)
          /\ written \in Nat /\ last[r] \in Nat
      BY <2>6 DEF TypeOK, Ordered, Receive
    <3>2. Head(chan[r]) \in last[r] + 1 .. written
      <4>1. Head(chan[r]) = chan[r][1] /\ 1 \in 1..Len(chan[r]) /\ chan[r][1] \in Nat
        BY <3>1, TailOfChannel
      <4>2. last[r] < chan[r][1] /\ chan[r][1] <= written
        BY <4>1, <3>1 DEF OrderedFor
      <4>. QED BY <3>1, <4>1, <4>2
    <3>3. Feed!Deliver(r)
      BY <2>6, <3>2 DEF Receive, Feed!Deliver
    <3>. QED BY <3>3 DEF Feed!Next
  <2>7. ASSUME NEW r \in Readers, SeeClosed(r) \/ Cancel(r) PROVE [Feed!Next]_(Feed!vars)
    <3>1. Feed!Leave(r)
      BY <2>0, <2>7 DEF SeeClosed, Cancel, Feed!Leave
    <3>. QED BY <3>1 DEF Feed!Next
  <2>8. ASSUME NEW r \in Readers, RemoveReader(r) PROVE [Feed!Next]_(Feed!vars)
    BY <2>0, <2>8 DEF RemoveReader
  <2>9. CASE UNCHANGED vars
    BY <2>9 DEF vars
  <2>. QED
    BY <2>1, <2>2, <2>3, <2>4, <2>5, <2>6, <2>7, <2>8, <2>9 DEF Next, Writer, Consumer
<1>. QED BY <1>1, <1>2, TypeCorrect, OrderedInvariant, PTL DEF Spec, ImplementsFeed, Feed!Spec

=============================================================================
