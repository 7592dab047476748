----------------------------- MODULE CoreStream -----------------------------
(***************************************************************************)
(* The fan-out hub of internal/core/stream.go. One source goroutine calls  *)
(* WriteUnit; every consumer (recorder, HLS muxer, motion detector, ...)   *)
(* runs the loop "AddReader; select on ctx.Done and reader.Units(); defer  *)
(* reader.Close()". The RWMutex is modelled by its effect: while a         *)
(* WriteUnit holds the read lock (writing), AddReader, RemoveReader and    *)
(* Close cannot take the write lock, but consumers do receive, so the      *)
(* pushes of one WriteUnit are steps of their own.                         *)
(***************************************************************************)
EXTENDS Naturals, Sequences, FiniteSets

CONSTANTS
  Readers,   \* the Reader structs ever created on this stream
  BufSize,   \* channel capacity given to AddReader
  MaxUnits   \* bound of the model: units the source writes

ASSUME BufSizeAssumption == BufSize \in Nat \ {0}   \* AddReader replaces <= 0 by 512
ASSUME MaxUnitsAssumption == MaxUnits \in Nat

VARIABLES
  closed,      \* Stream.closed
  registered,  \* Stream.readers
  writing,     \* a WriteUnit holds the read lock
  todo,        \* readers the current WriteUnit has not pushed to yet
  written,     \* units accepted so far; the n-th accepted unit is n
  chan,        \* chan[r]: buffered units of Reader.ch
  chClosed,    \* chClosed[r]: Reader.ch has been closed
  dropped,     \* Reader.dropped
  phase,       \* consumer: "new", "reading", "leaving" (in its defer), "left"
  last,        \* the last unit r received, or written when it was added
  joined,      \* history: written when r was added
  taken        \* history: how many units r received

streamVars == <<closed, registered, writing, todo, written>>
readerVars == <<chan, chClosed, dropped, phase, last, joined, taken>>
vars == <<closed, registered, writing, todo, written, chan, chClosed, dropped,
          phase, last, joined, taken>>

Phases == {"new", "reading", "leaving", "left"}

TypeOK ==
  /\ closed \in BOOLEAN
  /\ registered \subseteq Readers
  /\ writing \in BOOLEAN
  /\ todo \subseteq Readers
  /\ written \in Nat
  /\ chan \in [Readers -> Seq(Nat)]
  /\ \A r \in Readers : Len(chan[r]) <= BufSize
  /\ chClosed \in [Readers -> BOOLEAN]
  /\ dropped \in [Readers -> Nat]
  /\ phase \in [Readers -> Phases]
  /\ last \in [Readers -> Nat]
  /\ joined \in [Readers -> Nat]
  /\ taken \in [Readers -> Nat]

-----------------------------------------------------------------------------
Init ==
  /\ closed = FALSE
  /\ registered = {}
  /\ writing = FALSE
  /\ todo = {}
  /\ written = 0
  /\ chan = [r \in Readers |-> <<>>]
  /\ chClosed = [r \in Readers |-> FALSE]
  /\ dropped = [r \in Readers |-> 0]
  /\ phase = [r \in Readers |-> "new"]
  /\ last = [r \in Readers |-> 0]
  /\ joined = [r \in Readers |-> 0]
  /\ taken = [r \in Readers |-> 0]

(***************************************************************************)
(* The source: WriteUnit takes the read lock and pushes to each reader.    *)
(***************************************************************************)
BeginWriteIgnoringClosed ==   \* mutant: the closed check is gone
  /\ ~writing
  /\ written < MaxUnits
  /\ written' = written + 1
  /\ writing' = TRUE
  /\ todo' = registered
  /\ UNCHANGED <<closed, registered, readerVars>>

BeginWrite ==
  /\ ~writing
  /\ ~closed
  /\ written < MaxUnits
  /\ written' = written + 1
  /\ writing' = TRUE
  /\ todo' = registered
  /\ UNCHANGED <<closed, registered, readerVars>>

PushBlocking(r) ==   \* mutant: a plain channel send
  /\ r \in todo
  /\ Len(chan[r]) < BufSize
  /\ chan' = [chan EXCEPT ![r] = Append(@, written)]
  /\ todo' = todo \ {r}
  /\ UNCHANGED <<closed, registered, writing, written, dropped, chClosed, phase,
                 last, joined, taken>>

PushEvictingOldest(r) ==   \* mutant: a full buffer silently loses its oldest unit
  /\ r \in todo
  /\ chan' = [chan EXCEPT ![r] =
                Append(IF Len(@) < BufSize THEN @ ELSE Tail(@), written)]
  /\ todo' = todo \ {r}
  /\ UNCHANGED <<closed, registered, writing, written, dropped, chClosed, phase,
                 last, joined, taken>>

PushOffByOne(r) ==   \* mutant: one unit more than the channel holds
  /\ r \in todo
  /\ Len(chan[r]) <= BufSize
  /\ chan' = [chan EXCEPT ![r] = Append(@, written)]
  /\ todo' = todo \ {r}
  /\ UNCHANGED <<closed, registered, writing, written, dropped, chClosed, phase,
                 last, joined, taken>>

Push(r) ==
  /\ r \in todo
  /\ todo' = todo \ {r}
  /\ \/ /\ Len(chan[r]) < BufSize
        /\ chan' = [chan EXCEPT ![r] = Append(@, written)]
        /\ UNCHANGED dropped
     \/ /\ Len(chan[r]) >= BufSize
        /\ dropped' = [dropped EXCEPT ![r] = @ + 1]
        /\ UNCHANGED chan
  /\ UNCHANGED <<closed, registered, writing, written, chClosed, phase, last,
                 joined, taken>>

EndWrite ==
  /\ writing
  /\ todo = {}
  /\ writing' = FALSE
  /\ UNCHANGED <<closed, registered, todo, written, readerVars>>

(***************************************************************************)
(* Stream.Close: detaches and closes every reader, once.                   *)
(***************************************************************************)
CloseStream ==
  /\ ~writing
  /\ ~closed
  /\ closed' = TRUE
  /\ registered' = {}
  /\ chClosed' = [r \in Readers |-> chClosed[r] \/ r \in registered]
  /\ UNCHANGED <<writing, todo, written, chan, dropped, phase, last, joined, taken>>

(***************************************************************************)
(* The consumer loop.                                                      *)
(***************************************************************************)
AddReader(r) ==      \* does not look at closed
  /\ phase[r] = "new"
  /\ ~writing
  /\ registered' = registered \cup {r}
  /\ phase' = [phase EXCEPT ![r] = "reading"]
  /\ joined' = [joined EXCEPT ![r] = written]
  /\ last' = [last EXCEPT ![r] = written]
  /\ UNCHANGED <<closed, writing, todo, written, chan, chClosed, dropped, taken>>

Receive(r) ==
  /\ phase[r] = "reading"
  /\ chan[r] # <<>>
  /\ last' = [last EXCEPT ![r] = Head(chan[r])]
  /\ chan' = [chan EXCEPT ![r] = Tail(@)]
  /\ taken' = [taken EXCEPT ![r] = @ + 1]
  /\ UNCHANGED <<streamVars, chClosed, dropped, phase, joined>>

SeeClosed(r) ==      \* u, ok := <-Units(); !ok
  /\ phase[r] = "reading"
  /\ chan[r] = <<>>
  /\ chClosed[r]
  /\ phase' = [phase EXCEPT ![r] = "leaving"]
  /\ UNCHANGED <<streamVars, chan, chClosed, dropped, last, joined, taken>>

Cancel(r) ==         \* the consumer's own ctx is done
  /\ phase[r] = "reading"
  /\ phase' = [phase EXCEPT ![r] = "leaving"]
  /\ UNCHANGED <<streamVars, chan, chClosed, dropped, last, joined, taken>>

RemoveReaderUnlocked(r) ==   \* mutant: does not take the write lock
  /\ phase[r] = "leaving"
  /\ registered' = registered \ {r}
  /\ chClosed' = [chClosed EXCEPT ![r] = @ \/ r \in registered]
  /\ phase' = [phase EXCEPT ![r] = "left"]
  /\ UNCHANGED <<closed, writing, todo, written, chan, dropped, last, joined, taken>>

RemoveReader(r) ==
  /\ phase[r] = "leaving"
  /\ ~writing
  /\ registered' = registered \ {r}
  /\ chClosed' = [chClosed EXCEPT ![r] = @ \/ r \in registered]
  /\ phase' = [phase EXCEPT ![r] = "left"]
  /\ UNCHANGED <<closed, writing, todo, written, chan, dropped, last, joined, taken>>

Writer == BeginWrite \/ EndWrite \/ \E r \in Readers : Push(r)

Consumer(r) ==
  AddReader(r) \/ Receive(r) \/ SeeClosed(r) \/ Cancel(r) \/ RemoveReader(r)

Next == Writer \/ CloseStream \/ \E r \in Readers : Consumer(r)

(***************************************************************************)
(* A goroutine inside WriteUnit runs on, and so does a consumer that can   *)
(* receive, has seen its channel closed, or is in its defer. Nothing       *)
(* promises another unit, another consumer, a cancellation or a Close.     *)
(***************************************************************************)
Fairness ==
  /\ WF_vars(EndWrite)
  /\ \A r \in Readers :
       /\ WF_vars(Push(r))
       /\ WF_vars(Receive(r))
       /\ WF_vars(SeeClosed(r))
       /\ SF_vars(RemoveReader(r))

Spec == Init /\ [][Next]_vars
FairSpec == Spec /\ Fairness

-----------------------------------------------------------------------------
(***************************************************************************)
(* No send on a closed channel and no second close of one: either panics   *)
(* the whole process. Every reader still to be pushed to is registered,    *)
(* and the channel of a registered reader is open.                         *)
(***************************************************************************)
NoPanic ==
  /\ todo \subseteq registered
  /\ \A r \in registered : ~chClosed[r]

(***************************************************************************)
(* The drop counter tells the truth: what r received, what waits in its    *)
(* buffer, what was counted dropped and what the current WriteUnit still   *)
(* has to push are exactly the units accepted since r was added, as long   *)
(* as it is registered.                                                    *)
(***************************************************************************)
Pending(r) == IF r \in todo THEN 1 ELSE 0

NothingUnaccounted ==
  \A r \in registered :
    taken[r] + Len(chan[r]) + dropped[r] + Pending(r) = written - joined[r]

(***************************************************************************)
(* A consumer never sees a unit twice or out of order: its buffer holds    *)
(* increasing units, all newer than the last one it received and none from *)
(* the future.                                                             *)
(***************************************************************************)
InOrder ==
  \A r \in Readers :
    \A i \in 1..Len(chan[r]) :
      /\ last[r] < chan[r][i]
      /\ chan[r][i] <= written
      /\ \A j \in 1..Len(chan[r]) : i < j => chan[r][i] < chan[r][j]

(***************************************************************************)
(* "Writes never block on slow readers": a WriteUnit ends whether or not   *)
(* any consumer ever receives again.                                       *)
(***************************************************************************)
WriteEnds == writing ~> ~writing

(***************************************************************************)
(* Closing the stream releases every consumer that was reading it: none    *)
(* waits for ever on a channel nobody will close.                          *)
(***************************************************************************)
CloseReleasesReaders ==
  \A r \in Readers :
    []((phase[r] = "reading" /\ ~closed)
         => [](closed => <>(phase[r] = "left")))

(***************************************************************************)
(* Nobody waits for ever in the hub: neither the source in WriteUnit nor a *)
(* consumer of a stream that was closed (stream.go 48-63, 93-105).         *)
(***************************************************************************)
CallsEnd == WriteEnds /\ CloseReleasesReaders

(***************************************************************************)
(* The hub implements the lossy feed: a unit counts as published when      *)
(* WriteUnit accepts it, and a consumer has left once it is in its defer.  *)
(***************************************************************************)
member ==
  [r \in Readers |-> IF phase[r] = "leaving" THEN "left" ELSE phase[r]]

Feed == INSTANCE LossyFeed WITH published <- written

ImplementsFeed == Feed!Spec

=============================================================================
