------------------------------ MODULE LossyFeed ------------------------------
(***************************************************************************)
(* What the fan-out hub promises its consumers, with no channels, locks or *)
(* buffers: units are published in order; a consumer that has joined is    *)
(* handed units published after it joined, each at most once and in order, *)
(* possibly skipping some; nothing is published into a feed that was       *)
(* closed and nothing is handed to a consumer that has left.               *)
(***************************************************************************)
EXTENDS Naturals

CONSTANT Readers

VARIABLES
  published,  \* how many units have been published; unit n is the n-th one
  closed,     \* TRUE once the feed takes no more units
  member,     \* member[r]: "new", "reading" or "left"
  last        \* last[r]: the last unit handed to r (or published when it joined)

vars == <<published, closed, member, last>>

Init ==
  /\ published = 0
  /\ closed = FALSE
  /\ member = [r \in Readers |-> "new"]
  /\ last = [r \in Readers |-> 0]

Publish ==
  /\ ~closed
  /\ published' = published + 1
  /\ UNCHANGED <<closed, member, last>>

Join(r) ==
  /\ member[r] = "new"
  /\ member' = [member EXCEPT ![r] = "reading"]
  /\ last' = [last EXCEPT ![r] = published]
  /\ UNCHANGED <<published, closed>>

Deliver(r) ==
  /\ member[r] = "reading"
  /\ \E u \in last[r] + 1 .. published : last' = [last EXCEPT ![r] = u]
  /\ UNCHANGED <<published, closed, member>>

Leave(r) ==
  /\ member[r] = "reading"
  /\ member' = [member EXCEPT ![r] = "left"]
  /\ UNCHANGED <<published, closed, last>>

Shut ==
  /\ closed' = TRUE
  /\ UNCHANGED <<published, member, last>>

Next ==
  \/ Publish
  \/ Shut
  \/ \E r \in Readers : Join(r) \/ Deliver(r) \/ Leave(r)

Spec == Init /\ [][Next]_vars

=============================================================================
