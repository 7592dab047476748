---------------------------- MODULE FaceIdentity ----------------------------
(***************************************************************************)
(* Who is who: tracks of faces, the persons they belong to, and everybody  *)
(* who changes that: the worker that assigns a fresh recording             *)
(* (face/gallery.go), the periodic or requested reclustering               *)
(* (face/cluster.go) and the operator's corrections                        *)
(* (api/faces_corrections.go).  All of them are sequences of single SQL    *)
(* statements (database/face_store.go, face_track_store.go) without a      *)
(* transaction, on one connection: prog[a] holds the statements actor a    *)
(* still has to execute, and one statement is one step.                    *)
(*                                                                         *)
(* A track stands for one face, its best one.  Embeddings are abstracted   *)
(* to the relation Alike: the pairs of tracks above the match threshold.   *)
(***************************************************************************)
EXTENDS Integers, Sequences, FiniteSets, SequencesExt, FiniteSetsExt

CONSTANTS
  NTracks,     \* bound: appearances of faces
  Clips,       \* the recordings, as sets of the tracks they yield
  Alike,       \* pairs {a, b} of similar tracks
  Operators,   \* concurrent requests
  MaxOps,      \* bound: corrections, reclustering passes and recordings deleted, in all
  MaxBusy,     \* bound: operations under way at one time
  MaxPersons,  \* bound: persons ever created
  Keep         \* exemplarsPerPerson

Tracks  == 1..NTracks
Persons == 1..MaxPersons
Worker  == "worker"
Ticker  == "ticker"
Actors  == {Worker, Ticker} \cup Operators

ASSUME FaceIdentityAssumption ==
  /\ NTracks \in Nat /\ MaxPersons \in Nat /\ Keep \in Nat \ {0}
  /\ MaxOps \in Nat /\ MaxBusy \in Nat
  /\ UNION Clips = Tracks /\ \A c, d \in Clips : c = d \/ c \cap d = {}
  /\ \A e \in Alike : e \subseteq Tracks /\ Cardinality(e) = 2
  /\ Worker \notin Operators /\ Ticker \notin Operators

Similar == 2   \* weight of a similar pair
Tie     == 3   \* weight of a must link

Nobody == 0    \* person_id ''
NoRow  == -1   \* a row that is not there

VARIABLES
  faceDB,      \* the tables, see FaceInit
  made,        \* identifiers of persons handed out so far
  prog,        \* the statements each actor has yet to execute
  gallery,     \* the worker's snapshot: the persons it compares with
  pass,        \* what each actor's reclustering pass read and computed
  used,        \* how many of MaxOps
  raced,       \* history: an operation began while another was halfway
  late,        \* history: tracks confirmed while a pass was under way
  drift        \* history: persons whose row no longer tells what they have

faceVars == <<faceDB, made, prog, gallery, pass, used, raced, late, drift>>

NoPass == [seen |-> <<>>, free |-> {}, label |-> <<>>, edges |-> {}, cannot |-> {}]

FaceInit ==
  /\ faceDB = [owner     |-> [t \in Tracks |-> NoRow],   \* face_tracks.person_id
               confirmed |-> [t \in Tracks |-> FALSE],   \* face_tracks.confirmed
               holder    |-> [t \in Tracks |-> Nobody],  \* faces.person_id
               ignored   |-> [t \in Tracks |-> FALSE],   \* faces.ignored
               exemplar  |-> [t \in Tracks |-> FALSE],   \* faces.is_exemplar
               count     |-> [p \in Persons |-> NoRow],  \* persons.face_count
               links     |-> {}]                         \* person_links
  /\ made = 0
  /\ prog = [a \in Actors |-> <<>>]
  /\ gallery = {}
  /\ pass = [a \in Actors |-> NoPass]
  /\ used = 0
  /\ raced = FALSE /\ late = {} /\ drift = {}

Held(db, p)  == {t \in Tracks : db.holder[t] = p}
Anchored(db, t) == db.confirmed[t] /\ db.owner[t] \notin {Nobody, NoRow}
Shown(db, p) == {t \in Held(db, p) : ~db.ignored[t]}

-----------------------------------------------------------------------------
(* Statements: what to do, to a track t, a person p, with a q.              *)

OfTrack(op, t, p)  == [op |-> op, t |-> t, p |-> p, q |-> 0]
OfPerson(op, p, q) == [op |-> op, t |-> 0, p |-> p, q |-> q]
Own(op)            == OfPerson(op, Nobody, 0)

At(a, op) == prog[a] # <<>> /\ Head(prog[a]).op = op
Arg(a)    == Head(prog[a])

(* Actor a executes its first statement, which turns the tables into db and *)
(* lets the statements more follow.                                         *)
Do(a, db, more) ==
  /\ faceDB' = db
  /\ prog' = [prog EXCEPT ![a] = more \o Tail(@)]
  /\ pass' = IF prog'[a] = <<>> THEN [pass EXCEPT ![a] = NoPass] ELSE pass
  /\ late' = IF \A b \in Actors : pass[b] = NoPass THEN late
             ELSE late \cup {t \in Tracks : Anchored(db, t) /\ ~Anchored(faceDB, t)}
  /\ drift' = drift \cup {p \in Persons : /\ faceDB.count[p] # NoRow /\ db.count[p] = NoRow
                                          /\ Held(db, p) # {}}
  /\ UNCHANGED <<used, raced>>

Execute(a, db) == Do(a, db, <<>>) /\ UNCHANGED <<made, gallery>>

CreatePerson(a) == At(a, "person") /\ Execute(a, [faceDB EXCEPT !.count[Arg(a).p] = 0])

DeletePerson(a) == At(a, "delete") /\ Execute(a, [faceDB EXCEPT !.count[Arg(a).p] = NoRow])

(* face_tracks.recording_id is a foreign key: without its recording a track *)
(* cannot be inserted, and AssignRecording gives up.                        *)
CreateTrack(a) ==
  /\ At(a, "track")
  /\ \/ /\ faceDB.holder[Arg(a).t] # NoRow
        /\ Execute(a, [faceDB EXCEPT !.owner[Arg(a).t] = Arg(a).p])
     \/ /\ faceDB.holder[Arg(a).t] = NoRow
        /\ prog' = [prog EXCEPT ![a] = <<>>]
        /\ drift' = drift \cup {Arg(a).p}
        /\ UNCHANGED <<faceDB, made, gallery, pass, used, raced, late>>

UpdatePerson(a) ==
  /\ At(a, "move")
  /\ Execute(a, [faceDB EXCEPT !.owner[Arg(a).t] = IF @ = NoRow THEN @ ELSE Arg(a).p])

SetPersonByTrack(a) ==
  /\ At(a, "faces")
  /\ Execute(a, [faceDB EXCEPT !.holder[Arg(a).t] = IF @ = NoRow THEN @ ELSE Arg(a).p])

ReassignTracks(a) ==
  /\ At(a, "allTracks")
  /\ Execute(a, [faceDB EXCEPT !.owner = [t \in Tracks |-> IF @[t] = Arg(a).p THEN Arg(a).q ELSE @[t]]])

ReassignFaces(a) ==
  /\ At(a, "allFaces")
  /\ Execute(a, [faceDB EXCEPT !.holder = [t \in Tracks |-> IF @[t] = Arg(a).p THEN Arg(a).q ELSE @[t]]])

SetConfirmed(a) ==
  /\ At(a, "confirm")
  /\ Execute(a, [faceDB EXCEPT !.confirmed[Arg(a).t] = @ \/ faceDB.owner[Arg(a).t] # NoRow])

SetIgnored(a) == At(a, "ignore") /\ Execute(a, [faceDB EXCEPT !.ignored[Arg(a).t] = Arg(a).p = 1])

SetExemplar(a) == At(a, "exemplar") /\ Execute(a, [faceDB EXCEPT !.exemplar[Arg(a).t] = TRUE])

(* The best Keep of some faces, by a quality the model leaves out.          *)
Best(S) == kSubset(IF Cardinality(S) < Keep THEN Cardinality(S) ELSE Keep, S)

PruneExemplars(a) ==
  /\ At(a, "prune")
  /\ \E B \in Best({t \in Held(faceDB, Arg(a).p) : faceDB.exemplar[t]}) :
       Execute(a, [faceDB EXCEPT !.exemplar =
                     [t \in Tracks |-> @[t] /\ (faceDB.holder[t] = Arg(a).p => t \in B)]])

(* RebuildExemplars: one statement clears, the next one marks.              *)
ClearExemplars(a) ==
  /\ At(a, "clear")
  /\ Execute(a, [faceDB EXCEPT !.exemplar = [t \in Tracks |-> @[t] /\ faceDB.holder[t] # Arg(a).p]])

MarkExemplars(a) ==
  /\ At(a, "mark")
  /\ \E B \in Best(Shown(faceDB, Arg(a).p)) :
       Execute(a, [faceDB EXCEPT !.exemplar = [t \in Tracks |-> @[t] \/ t \in B]])

(* Persons.Recount: SELECT COUNT, then UPDATE.  With q = 1 the caller goes  *)
(* on as refreshPerson: delete a person that has nothing left, else rebuild *)
(* its exemplars.                                                           *)
Recount(a) ==
  /\ At(a, "count")
  /\ LET p == Arg(a).p
         n == Cardinality(Shown(faceDB, p))
         then == IF Arg(a).q = 0 THEN <<>>
                 ELSE IF n = 0 THEN <<OfPerson("delete", p, 0)>>
                 ELSE <<OfPerson("clear", p, 0), OfPerson("mark", p, 0)>>
     IN Do(a, faceDB, <<OfPerson("setcount", p, n)>> \o then)
  /\ UNCHANGED <<made, gallery>>

SetCount(a) ==
  /\ At(a, "setcount")
  /\ Execute(a, [faceDB EXCEPT !.count[Arg(a).p] = IF @ = NoRow THEN NoRow ELSE Arg(a).q])

Refresh(p) == IF p = Nobody THEN <<>> ELSE <<OfPerson("count", p, 1)>>

Statement(a) ==
  \/ CreatePerson(a) \/ DeletePerson(a) \/ CreateTrack(a) \/ UpdatePerson(a) \/ SetPersonByTrack(a)
  \/ ReassignTracks(a) \/ ReassignFaces(a) \/ SetConfirmed(a) \/ SetIgnored(a) \/ SetExemplar(a)
  \/ PruneExemplars(a) \/ ClearExemplars(a) \/ MarkExemplars(a) \/ Recount(a) \/ SetCount(a)

-----------------------------------------------------------------------------
(* Operations.  What an operation reads before it first writes is read when *)
(* it begins.                                                               *)

Begin(a, stmts) ==
  /\ prog[a] = <<>>
  /\ Cardinality({b \in Actors : prog[b] # <<>>}) < MaxBusy
  /\ prog' = [prog EXCEPT ![a] = stmts]
  /\ raced' = (raced \/ \E b \in Actors : prog[b] # <<>>)
  /\ UNCHANGED <<faceDB, late, drift>>

(* Gallery.AssignRecording: unless the recording has tracks already, load   *)
(* every person's exemplars and assign its tracks one after the other.      *)
AssignRecording(clip) ==
  /\ \A t \in clip : faceDB.owner[t] = NoRow /\ faceDB.holder[t] = Nobody
  /\ \E order \in SetToSeqs({t \in clip : ~faceDB.ignored[t]}) :
       Begin(Worker, [i \in DOMAIN order |-> OfTrack("assign", order[i], Nobody)])
  /\ gallery' = {p \in Persons : \E t \in Shown(faceDB, p) : faceDB.exemplar[t]}
  /\ UNCHANGED <<made, pass, used>>

(* One track: the nearest person if it is near enough, else a new one.      *)
AssignTrack ==
  LET t == Arg(Worker).t
      with(p) == <<OfTrack("track", t, p), OfTrack("faces", t, p), OfTrack("exemplar", t, p),
                   OfPerson("prune", p, 0), OfPerson("count", p, 0)>>
  IN /\ At(Worker, "assign")
     /\ \/ \E p \in gallery : /\ Do(Worker, faceDB, with(p))
                              /\ UNCHANGED <<made, gallery>>
        \/ /\ made < MaxPersons
           /\ made' = made + 1
           /\ gallery' = gallery \cup {made'}
           /\ Do(Worker, faceDB, <<OfPerson("person", made', 0)>> \o with(made'))

Ask(o, stmts) ==
  /\ used < MaxOps
  /\ used' = used + 1
  /\ Begin(o, stmts)
  /\ UNCHANGED <<gallery, pass>>

Confirming(S)  == [i \in 1..Cardinality(S) |-> OfTrack("confirm", SetToSeq(S)[i], Nobody)]
Exists(p)      == p \in Persons /\ faceDB.count[p] # NoRow
TracksOf(p)    == {t \in Tracks : faceDB.owner[t] = p}
Listed         == {t \in Tracks : faceDB.owner[t] # NoRow}

MergePersonsUnrefreshed(o, src, target) == \* mutant: the target is not recounted
  /\ src # target /\ Exists(target)
  /\ Ask(o, <<OfPerson("allTracks", src, target), OfPerson("allFaces", src, target)>>
            \o Confirming(TracksOf(src)) \o <<OfPerson("delete", src, 0)>>)
  /\ UNCHANGED made

MergePersons(o, src, target) ==
  /\ src # target /\ Exists(target)
  /\ Ask(o, <<OfPerson("allTracks", src, target), OfPerson("allFaces", src, target)>>
            \o Confirming(TracksOf(src)) \o <<OfPerson("delete", src, 0)>> \o Refresh(target))
  /\ UNCHANGED made

(* The tracks to move are looked at one by one, in SplitTrack.              *)
SplitPerson(o, p, ts) ==
  /\ Exists(p) /\ made < MaxPersons
  /\ made' = made + 1
  /\ Ask(o, <<OfPerson("person", made', 0)>>
            \o [i \in 1..Cardinality(ts) |-> [op |-> "split", t |-> SetToSeq(ts)[i], p |-> p, q |-> made']]
            \o Refresh(p) \o Refresh(made'))

SplitTrack(o) ==
  /\ At(o, "split")
  /\ LET t == Arg(o).t
         q == Arg(o).q
     IN Do(o, faceDB, IF faceDB.owner[t] # Arg(o).p THEN <<>>
                      ELSE <<OfTrack("move", t, q), OfTrack("confirm", t, q), OfTrack("faces", t, q)>>)
  /\ UNCHANGED <<made, gallery>>

DeletePersonRequest(o, p) ==
  /\ Ask(o, <<OfPerson("allTracks", p, Nobody), OfPerson("allFaces", p, Nobody), OfPerson("delete", p, 0)>>)
  /\ UNCHANGED made

MoveTrack(o, t, new, target) ==
  LET old == faceDB.owner[t]
  IN /\ t \in Listed
     /\ Ask(o, (IF new THEN <<OfPerson("person", target, 0)>> ELSE <<>>)
               \o <<OfTrack("move", t, target), OfTrack("confirm", t, target), OfTrack("faces", t, target)>>
               \o (IF old # target THEN Refresh(old) ELSE <<>>) \o Refresh(target))

AssignTrackRequest(o, t) ==
  \/ \E p \in Persons : Exists(p) /\ MoveTrack(o, t, FALSE, p) /\ UNCHANGED made
  \/ made < MaxPersons /\ made' = made + 1 /\ MoveTrack(o, t, TRUE, made')

ConfirmTrack(o, t) == t \in Listed /\ Ask(o, Confirming({t})) /\ UNCHANGED made

IgnoreFace(o, t) ==
  /\ faceDB.holder[t] # NoRow
  /\ \E ign \in {0, 1} : Ask(o, <<OfTrack("ignore", t, ign)>> \o Refresh(faceDB.holder[t]))
  /\ UNCHANGED made

CreateLink(kind, a, b) ==
  /\ used < MaxOps
  /\ used' = used + 1
  /\ faceDB' = [faceDB EXCEPT !.links = @ \cup {[kind |-> kind, ends |-> {a, b}]}]
  /\ UNCHANGED <<made, prog, gallery, pass, raced, late, drift>>

DeleteLink(l) ==
  /\ used < MaxOps
  /\ used' = used + 1
  /\ faceDB' = [faceDB EXCEPT !.links = @ \ {l}]
  /\ UNCHANGED <<made, prog, gallery, pass, raced, late, drift>>

(* A recording is deleted; its faces and tracks go with it (ON DELETE       *)
(* CASCADE), and nobody recounts the persons they belonged to.              *)
LoseRecording(clip) ==
  /\ used < MaxOps
  /\ \E t \in clip : faceDB.holder[t] # NoRow
  /\ used' = used + 1
  /\ faceDB' = [faceDB EXCEPT !.owner  = [t \in Tracks |-> IF t \in clip THEN NoRow ELSE @[t]],
                              !.holder = [t \in Tracks |-> IF t \in clip THEN NoRow ELSE @[t]]]
  /\ drift' = drift \cup {p \in Persons : \E t \in clip : p \in {faceDB.holder[t], faceDB.owner[t]}}
  /\ UNCHANGED <<made, prog, gallery, pass, raced, late>>

-----------------------------------------------------------------------------
(* Clusterer.Recluster: read the tracks, read the links, spread labels      *)
(* until nothing changes, then move the tracks that are not confirmed.      *)
(* A label is a person's number, or a track's number above all persons.     *)

ReclusterMovingAnchors(a) == \* mutant: confirmed tracks are free to move, too
  /\ used < MaxOps
  /\ Cardinality(Listed) > 1
  /\ used' = used + 1
  /\ Begin(a, <<Own("links"), Own("sweep"), Own("apply")>>)
  /\ pass' = [pass EXCEPT ![a] =
       [NoPass EXCEPT !.seen = [t \in Listed |-> faceDB.owner[t]], !.free = Listed]]
  /\ UNCHANGED <<made, gallery>>

Recluster(a) ==
  /\ used < MaxOps
  /\ Cardinality(Listed) > 1
  /\ used' = used + 1
  /\ Begin(a, <<Own("links"), Own("sweep"), Own("apply")>>)
  /\ pass' = [pass EXCEPT ![a] =
       [NoPass EXCEPT !.seen = [t \in Listed |-> faceDB.owner[t]],
                      !.free = {t \in Listed : ~Anchored(faceDB, t)}]]
  /\ UNCHANGED <<made, gallery>>

ReadLinks(a) ==
  LET seen == pass[a].seen
      pairs(kind) == {l.ends : l \in {m \in faceDB.links : m.kind = kind /\ m.ends \subseteq DOMAIN seen}}
      near == {e \in Alike \ pairs("cannot") : e \subseteq DOMAIN seen}
  IN /\ At(a, "links")
     /\ prog' = [prog EXCEPT ![a] = Tail(@)]
     /\ pass' = [pass EXCEPT
          ![a].label  = [t \in DOMAIN seen |-> IF t \in pass[a].free THEN MaxPersons + t ELSE seen[t]],
          ![a].edges  = {[ends |-> e, w |-> Similar] : e \in near} \cup {[ends |-> e, w |-> Tie] : e \in pairs("must")},
          ![a].cannot = pairs("cannot")]
     /\ UNCHANGED <<faceDB, made, gallery, used, raced, late, drift>>

(* What the neighbours of t with label l weigh, and the heaviest label      *)
(* among the neighbours (the smallest of several), if it outweighs t's own. *)
Score(P, label, t, l) ==
  LET hits(w) == {e \in P.edges : e.w = w /\ t \in e.ends /\ \E u \in e.ends \ {t} : label[u] = l}
  IN Similar * Cardinality(hits(Similar)) + Tie * Cardinality(hits(Tie))

Adopt(P, label, t) ==
  LET near == {label[u] : u \in (UNION {e.ends : e \in {f \in P.edges : t \in f.ends}}) \ {t}}
      top  == Max({Score(P, label, t, l) : l \in near})
  IN IF near = {} \/ top <= Score(P, label, t, label[t]) THEN label[t]
     ELSE Min({l \in near : Score(P, label, t, l) = top})

(* The labels after the tracks of order have adopted theirs, one by one.    *)
Relabelled(P, order) ==
  LET lab[i \in 0..Len(order)] ==
        IF i = 0 THEN P.label
                 ELSE [lab[i - 1] EXCEPT ![order[i]] = Adopt(P, lab[i - 1], order[i])]
  IN lab[Len(order)]

(* One round in a shuffled order; the rounds end when one changes nothing   *)
(* (or after thirty, which is not modelled).                                *)
Sweep(a) ==
  /\ At(a, "sweep")
  /\ \E order \in SetToSeqs(pass[a].free) :
       LET new == Relabelled(pass[a], order)
       IN /\ prog' = IF new = pass[a].label THEN [prog EXCEPT ![a] = Tail(@)] ELSE prog
          /\ pass' = [pass EXCEPT ![a].label = new]
  /\ UNCHANGED <<faceDB, made, gallery, used, raced, late, drift>>

(* The persons a group of tracks could become: those most of its tracks     *)
(* have already, by what the pass read; an empty answer asks for a new one. *)
CanonicalPerson(P, group) ==
  LET have(p) == Cardinality({t \in group : P.seen[t] = p})
      known   == {P.seen[t] : t \in group} \ {Nobody}
  IN IF known = {} THEN {} ELSE {Min({p \in known : \A q \in known : have(p) >= have(q)})}

ApplyPass(a) ==
  LET P      == pass[a]
      labels == {P.label[t] : t \in P.free}
      group(l) == {t \in P.free : P.label[t] = l}
      fresh  == SetToSeq({l \in labels : l > MaxPersons /\ CanonicalPerson(P, group(l)) = {}})
      target(l) == IF l <= MaxPersons THEN l
                   ELSE IF CanonicalPerson(P, group(l)) # {} THEN Max(CanonicalPerson(P, group(l)))
                   ELSE made + CHOOSE i \in DOMAIN fresh : fresh[i] = l
      moved  == {t \in P.free : P.seen[t] # target(P.label[t])}
      touched == ({P.seen[t] : t \in moved} \cup {target(P.label[t]) : t \in moved}) \ {Nobody}
      move(t) == <<OfTrack("move", t, target(P.label[t])), OfTrack("faces", t, target(P.label[t]))>>
  IN /\ At(a, "apply")
     /\ made + Len(fresh) <= MaxPersons
     /\ made' = made + Len(fresh)
     /\ \E order \in SetToSeqs(moved) :
          Do(a, faceDB, [i \in DOMAIN fresh |-> OfPerson("person", made + i, 0)]
                        \o FlattenSeq([i \in DOMAIN order |-> move(order[i])])
                        \o FlattenSeq([i \in 1..Cardinality(touched) |-> Refresh(SetToSeq(touched)[i])]))
     /\ UNCHANGED gallery

-----------------------------------------------------------------------------
Request(o) ==
  \/ \E p, q \in Persons : MergePersons(o, p, q)
  \/ \E p \in Persons : \E ts \in (SUBSET Tracks) \ {{}} : SplitPerson(o, p, ts)
  \/ \E p \in Persons : Exists(p) /\ DeletePersonRequest(o, p)
  \/ \E t \in Tracks : AssignTrackRequest(o, t) \/ ConfirmTrack(o, t) \/ IgnoreFace(o, t)
  \/ SplitTrack(o)
  \/ \E kind \in {"must", "cannot"} : \E a, b \in Listed : a # b /\ CreateLink(kind, a, b)
  \/ \E l \in faceDB.links : DeleteLink(l)

FaceNext ==
  \/ \E a \in Actors : Statement(a)
  \/ \E c \in Clips : AssignRecording(c) \/ LoseRecording(c)
  \/ AssignTrack
  \/ \E o \in Operators : Request(o)
  \/ \E a \in Actors \ {Worker} : Recluster(a) \/ ReadLinks(a) \/ Sweep(a) \/ ApplyPass(a)

FaceSpec == FaceInit /\ [][FaceNext]_faceVars

-----------------------------------------------------------------------------
Quiet == \A a \in Actors : prog[a] = <<>>

FaceTypeOK ==
  /\ faceDB.owner \in [Tracks -> Persons \cup {Nobody, NoRow}]
  /\ faceDB.holder \in [Tracks -> Persons \cup {Nobody, NoRow}]
  /\ faceDB.count \in [Persons -> Tracks \cup {0, NoRow}]
  /\ made \in 0..MaxPersons /\ gallery \subseteq Persons

(* When no operation met another one halfway, what they leave fits          *)
(* together: a track and its face name the same person; a person's row      *)
(* counts its faces, and is gone when there are none; and who has faces has *)
(* exemplars, at most Keep of them, by which the next recording finds him.  *)
(* (api/faces_corrections.go refreshPerson and its callers, gallery.go,     *)
(* cluster.go.)  Excepted are the persons of `drift'.                       *)
IdentityConsistent ==
  Quiet /\ ~raced =>
    /\ \A t \in Listed : faceDB.holder[t] = faceDB.owner[t]
    /\ \A p \in Persons \ drift :
         LET shown == Shown(faceDB, p)
             marked == {t \in Held(faceDB, p) : faceDB.exemplar[t]}
         IN /\ faceDB.count[p] = IF shown = {} THEN NoRow ELSE Cardinality(shown)
            /\ shown # {} => marked \subseteq shown /\ Cardinality(marked) \in 1..Keep

(* A reclustering pass moves no confirmed track, unless the track was       *)
(* confirmed after the pass read it (cluster.go 116-127, 167-197).          *)
AnchorsUnlessStale ==
  [][\A a \in Actors : pass[a] # NoPass =>
       \A t \in Tracks \ late :
         At(a, "move") /\ Arg(a).t = t /\ prog'[a] # prog[a] => ~Anchored(faceDB, t)]_faceVars
=============================================================================
