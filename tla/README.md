# Kenko NVR: TLA+ models, checks and proofs

Kenko NVR is a network video recorder in one Go process: cameras come in by RTSP, RTMP,
ONVIF or GB28181, their streams are fanned out to live views, detectors and recorders,
and the recordings are kept in files, a SQLite database and optionally S3. The modules
here model that process: how streams come in, the fan-out hub and the camera manager, the
recorders and the life of a recording, everything that shows live or recorded footage,
the recognition of faces, and the accounts, alerts and device dialogues around them.
Source paths below are relative to `src/internal/`.

Run a check with `tlc -config MCCameras.cfg CameraManager.tla`, the proofs of a module
with `tlapm CoreStreamProofs.tla`.

## 1. The system

| component | state it keeps | operations | interacts by | module |
|---|---|---|---|---|
| core hub (`core/stream.go`) | readers, closed flag, one bounded channel per reader | WriteUnit, AddReader, RemoveReader, Close | called by a source goroutine; channels to every consumer | `CoreStream`, `LossyFeed` |
| camera manager (`manager/`) | map of runtimes under `m.mu`; per runtime: stream, muxer, state, context, WaitGroup | start, apply, remove, supervise, attach and detach of publishers | called by API, settings and RTMP goroutines; starts sources and consumers | `CameraManager` |
| RTMP ingest (`rtmp/`) | parameter sets, tracks, the published stream | messages of one connection, publish, close | writes a hub; `OnPublishStart/Stop` of the manager | `Ingest` |
| RTSP pull (`rtsp/`) | the decoder's fragments | one callback per packet | writes a hub | `RtspPull` |
| GB28181 (`gb28181/`) | devices, pending transactions, sessions, RTP reassembly | REGISTER, INVITE, BYE, media | UDP; writes a hub | `GBDialogue`, `GBMedia` |
| recorder (`recording/recorder.go`) | pending samples per track, pre-roll GOPs, open file | one handler per unit, rotation, finalize | reader of the hub; `Sink` calls into the manager and the database | `Recorder` |
| transcode recorder (`recording/transcode.go`) | work directory, the segment at hand | pump, report lines, rename, register | ffmpeg; `Sink` | `TranscodeRecorder` |
| upload worker, retention, delete request | one batch at a time | stat, upload, mark, unlink, flag; by age, size, free space | rows, local files, S3 | `RecordingLifecycle` |
| archive encryption (`storage/`) | passphrase and salt in the settings | save settings, encrypt, open, read, seek | settings, S3 | `Archive` |
| live transcoder (`transcode/`) | viewers, grace timer, one ffmpeg | Acquire, Release, Close | reads one hub, writes another | `LiveTranscode` |
| live viewers (`api/stream.go`, `mse.go`, `webrtc.go`) | a reference, a reader | open, copy, release | hub, live transcoder | `Viewers` |
| packaging (`mse/`, `restream/`) | pending samples, first times | one call per unit | behind a viewer's reader | `Muxing` |
| recording playback (`rechls/`) | sessions, directories, one ffmpeg each | Ensure, evict, collect | request goroutines waiting on `ready` | `Playback` |
| RTSP server (`rtspserver/`) | publications | describe, pump, replace server | reads a hub | `Republish` |
| face jobs (`face/worker.go`) | job queue, faces, tracks | claim, analyse, store, complete | database, ffmpeg, inference service | `FaceJobs` |
| face identities (`face/gallery.go`, `cluster.go`, `api/faces_corrections.go`) | tracks, persons, links | assign, recluster, correct | database statements | `FaceIdentity` |
| detectors (`motion/`, `face/live.go`) | event state | start and end of events | reader of the hub; runtime callbacks, recorder gate | `Events` |
| accounts (`api/auth.go`, `api/users.go`) | tokens in memory, users in the database | login, update, delete, revoke | HTTP requests | `Accounts` |
| notifications (`notify/`) | throttle, shared MQTT client, VAPID keys | notify, deliver, save settings | runtimes, settings, brokers | `Notifier` |
| Home Assistant (`hadiscovery/`) | retained messages on the broker | resync, publish, remove | runtimes, camera API | `HomeAssistant` |

What is hard in it: the hub is written, joined, left and closed by different goroutines;
a camera can be edited or removed while it connects, streams or reconnects, and whatever
belonged to its earlier stream (consumers, detectors, publications, transcoders) may still
be ending when the next one begins; a recorder decides at each keyframe about footage it
already holds; a clip is a file, a row and an object that four goroutines change one call
at a time; identities of faces are changed by a worker, a periodic pass and an operator
in sequences of single SQL statements; and UDP, brokers, ffmpeg and the inference service
lose, delay, hang or die. `PROJECT.json` lists these hazards one by one, each at its line.

What makes the parts correct, in a sentence each: the hub never panics, blocks its writer
or reorders; a camera has one live runtime and one served stream, and can always be
stopped; what comes in becomes the units that were sent; a file holds whole GOPs, once
and in order; a clip that is listed can be played until it is deleted on purpose, also
from the encrypted archive; what viewers share is counted right and ends after them;
every recording is analysed once, and tracks, faces and persons agree; an administrator
is always left and tokens tell the truth; and calls, alerts and retained messages are
right in the end whatever was lost.

## 2. Modules

### `CoreStream` (and `LossyFeed`, its abstract specification)

`core/stream.go`, with the loop of `hls/muxer.go` as the consumer. Each block between
lock and unlock is one action: `BeginWrite`, one `Push` per reader of the snapshot (the
order of Go's map iteration is nondeterministic) and `EndWrite` are
`WriteUnit` under the read lock; `AddReader`, `RemoveReader` and `CloseStream` take the
write lock. `Push` is the non-blocking send that counts a drop. A panic is a state of the
model, not an assumption. Units are numbered; their content is left out.

`LossyFeed` says what consumers are promised with no locks, channels or buffers: what
they are handed was published after they joined, in order, each at most once, possibly
with gaps. The property `ImplementsFeed` is the refinement.

### `CameraManager`

`manager/manager.go` and `manager/runtime.go` around one camera, pull or RTMP. The
goroutines: requests (`Request`, `StartCamera`, `RemoveCamera`, `Stop*`, `Insert`,
`Start*`), the supervisor of each runtime (`Dial` to `Redial`), the source of each dial
attempt, RTMP connections (`Offer`, `Detach*`, `Attach*`, `Disconnect`, `OnClose`), and
the consumers that `startConsumers` starts. A step is what happens between two points
where another goroutine could run with effect: lock operations, the waits of `stop()`,
channel operations. `m.mu` appears as `mu` only where it is held across a blocking call
(`startCamera` calls `stop()` under it); elsewhere the locked block is one step. Runtimes
and streams are numbered as they appear. The WaitGroup is what it counts: a supervisor or
consumer goroutine that has not ended.

Three history variables name the situations in which the code's guarantees end: `raced`
(a request acted on the camera while another one was halfway), `stopped` (runtimes
that a `stop()` has waited for) and `unseen` (pushed streams that `stop()` could not see,
because they were attached after it had looked or taken out of view by a connection that
attached at the same time). The properties called `...UnlessRaced` say what holds
outside these races; the runs of section 4 show what does not hold inside.

### `Recorder`

`recording/recorder.go`, one unit per step: `Key` and `Inter` are `handleVideo`, `Audio`
is `handleAudio`, `Stop` the end of `Run`. The helpers (`Flush`, `StashGOP`, `Prune`,
`OpenSegment`, `WritePreroll`, `Finalize`) are functions of the recorder's state and keep
their names. Units are numbered in order of arrival, and buffers and files hold numbers:
what a fragment contains is what the properties are about, not its timestamps. The gate
of motion recording is any sequence of answers at keyframes, because detector and
recorder are not synchronised. Faults are a file that cannot be created, a row that
cannot be inserted, a fragment that cannot be written and a row that cannot be completed;
a failing fragment leaves nothing, a failing completion a row that stays `"incomplete"`
(`complete = 0`) and is only logged. Every handler error ends `Run`, whose deferred
`finalize` flushes once more and ignores the error of that flush.

### `RecordingLifecycle`

Files, rows and objects of a bounded number of clips, with the recorders, the upload
worker, retention, the delete request and a crash. One action is one file or database
call (the database has one connection, so a statement is atomic). Worker settings are
read at each tick and may be any values then. The rows a worker works through are listed
once, and what retention read of them (whether a row has an object, `ret.archived`) is
kept from the listing, as in the code.

### `LiveTranscode`

`transcode/transcode.go` with `liveStream`, `setStream` and `clearStream` of
`manager/runtime.go`: the live view of a camera whose codec browsers cannot play.
`SetStream`, `SourceEnds`, `ClearStream` and `CloseDropped` are the supervisor's side;
`Visit`, `PickShared` and `PickNew` are `liveStream`, with the stream read before the
lock as in the code; `Acquire*`, `ReadyClosed`, `GiveUp`, `Take` and `Drop` are the
branches of `Acquire`; `Leave` is `Release`; `TimerFires` and `StopIfIdle` are the two
halves of a timer whose `Stop` cannot recall a callback that already runs; `FeedSource`,
`Ready`, `Exit`, `Die` and `EndRun` are one `run` with its ffmpeg process. `t.cancel` is a
flag, and the context it cancels is `cancelled` of the run, with the reason kept as
history. The direct path (H.264, or no encoder) has no state and is left out.

### What comes in: `Ingest`, `RtspPull`, `GBMedia`

`Ingest` is one publishing RTMP connection of `rtmp/server.go`: sequence headers set the
parameter sets, the first frame after one calls `publish`, which the manager may refuse
(it is then tried again at each frame), and frames become units. A sequence header is its
version, timestamps are narrowed to `Width` and wrap once. `RtspPull` is the callback of
a pulled video track: a packet's time is asked for before the decoder sees it, because
gortsplib takes a track up only at the first packet of a keyframe; packets get lost.
`GBMedia` is the way from RTP packets to units (`rtp.go`, `ps.go`, `media.go`): `push` and
`flush` of the frame assembler with sequence numbers and timestamps that wrap, the
program stream's elements with or without a stream map, `tryReady`, and packets that are
lost, late or out of order; a datagram that the network repeats is left out. A packet
carries one element; bytes are left out. A frame of the session is at most five packets
and fits the assembler (`5 <= MaxPackets`; the code's limit is 8192).

### What is made of it: `Muxing`, `TranscodeRecorder`, `Archive`

`Muxing` feeds a reader that loses units anywhere into the MSE fragmenter and the FLV
muxer (`pushVideo`, `pushAudio`, base times, durations, milliseconds). `TranscodeRecorder`
has, for each stream of a camera, an FFmpeg that cuts segments in the directory all of
them share, its report lines, and the recorder's `Rename`, `Register` and
`FinalizeSegment`, with the backstop that kills a process that hangs. `Archive` is
client-side encryption: saving the settings (read, keep or mint the salt, write), a
key as passphrase and salt, and the decrypting reader with `Seek` and short reads; a
byte of keystream is named by its counter block and its place, `addBE` works on digits.

### What viewers share: `Viewers`, `Playback`, `Republish`

`Viewers` is the life of a request to watch live: the reference that
`LiveStreamFor` says must be released exactly once, the setup that may fail, the reader,
and for WebRTC the goroutine both are handed to. `Playback` is `rechls`: `Ensure` with its
map under a lock and directory, process and readiness outside of it, eviction, idle
collection and `stop()`; which session was accessed before which is all that is kept of
`lastAccess` (`before`). `Republish` is the RTSP server's publications: made outside the
lock and inserted under it, a pump each, and servers that are replaced.

### Faces and events: `FaceJobs`, `FaceIdentity`, `Events`

`FaceJobs` is the durable queue with its one worker, call by call: claim, open, extract,
analyse and store batches, track, complete or fail, with recordings that lose their file
or row, failing calls and crashes; rows carry the attempt that stored them, and
`created_at` is kept as the order of the jobs (`queue`).
`FaceIdentity` executes every operation on tracks and persons (`AssignRecording`,
`Recluster`, merge, split, assign, confirm, ignore, delete, links) as the list of its SQL
statements, one step each, because there is no transaction around them; embeddings are a
relation. Its history variable `raced` says that two of them overlapped, `drift` names
the persons whom a cascade or an ignored last face left behind. `Events` is one camera's
detectors over successive streams, the runtime's current event and gate, and the rows.

### Around them: `GBDialogue`, `Accounts`, `Notifier`, `HomeAssistant`

`GBDialogue` is `Play` against a device over UDP: every datagram may be lost, late or
repeated, responses go to bounded inboxes by call, ports are handed out in turn (and from
the first one again by a new server; `turn` notes which ones were passed over because
they were taken), the device reboots with another address, and new settings replace the
server. `Accounts` has
login, logout and the changes of users step by step (`met` names accounts on which two
requests met; `unlisted` says that a request on the last administrator could not list the
accounts and went on). `Notifier` has the throttle, one goroutine per alert with the channels it
has yet to try, the MQTT client they share and its replacement, and the settings that hold the VAPID keys, which a request
may fail to read (`unread`) or to write. `HomeAssistant` is the broker's retained picture of
the cameras under runtimes, handlers and the resync. A camera is pulled or pushed (`push`).
`due` is what its runtime has changed and not yet published; `stop()` waits for the
goroutine that pulls and for detectors, but not for RTMP connections: what these still
publish after a stop, or after a later connection, is `late`, also all of a stream's
messages when a connection attaches to a runtime that has been stopped.

### Composition: `MCMedia`, `MCOutputs`, `MCWorkers`, `MCServices`

Each checks several modules in one run. Their parts share no variable: what lies between
them (the camera's stream, a file, a row) is the business of `CoreStream`,
`CameraManager` and `RecordingLifecycle`. A product of independent state machines shows
nothing that its factors do not, so `part` chooses one and the others rest; the choice is
part of the initial state, and every property is checked in every behaviour. `MCServices` takes
the calls twice: several cameras on an undisturbed device (`"calls"`), and one camera
through reboots and replaced servers (`"mishaps"`, `LoneCamera`). `InBounds` and the
conditions beside it in `ServicesNext` are bounds of the run (a request whose read fails
comes with one more change, or with one alert; a pushing camera has one change less); the
theorems about the parts do without them.

### Proofs

`CoreStreamProofs`, `CameraManagerProofs` and `RecordingLifecycleProofs` prove about the
module in their name; `MediaProofs`, `OutputsProofs`, `WorkersProofs` and
`ServicesProofs` about the modules that `MCMedia`, `MCOutputs`, `MCWorkers` and
`MCServices` compose. `DataFacts` has the lemmas about numbers, sequences and finite sets
that they share.
The theorems and their arguments are in section 5.

## 3. Passing runs

| run | configuration | bounds | shows |
|---|---|---|---|
| `core_stream` | `MCCoreStream.cfg` | 2 readers, capacity 2, 4 units | no panic, exact accounting, writers end and Close releases consumers (`CallsEnd`), refinement of `LossyFeed` |
| `cameras` | `MCCameras.cfg` | pull, 2 operators, 2 requests, 2 dials | stopped runtimes stay stopped, one runtime and one served stream, consumers end and requests return |
| `push` | `MCPush.cfg` | RTMP, 1 request, 2 connections | not live after the last publisher; what can hold up a request |
| `recordings` | `MCRecordings.cfg` | 2 clips, batch of 1, 1 crash, failing removals and statements (also marking a missing file) | custody of clips and progress of uploads |
| `media` | `MCMedia.cfg` | RTMP: 5 messages, timestamps modulo 16; RTSP: 3 units of 1 to 3 packets, 2 lost; GB28181: 3 frames, window 3, 1 lost, sequence modulo 32; recorder: 6 units, segment 2, pre-roll 1, all faults; muxing: 6 units; archive: 2 salts, 5 bytes in blocks of 2 | units are what was sent, files hold what they should, fragments play without a gap, archives read back |
| `outputs` | `MCOutputs.cfg` | transcoder: 2 visits, 2 source streams, 1 death; 2 viewers of each kind; playback: 2 keys, 2 requests, capacity 1, 2 sessions; RTSP: 2 clients, 2 streams, 2 servers, 4 publications | reference counts, one process, what is shared can be found and ends |
| `workers` | `MCWorkers.cfg` | 2 streams, 2 segments, names of 2 seconds; 2 tracks, 1 operator with 2 corrections, 3 persons; 2 recordings of 2 faces, 2 attempts, 2 troubles; 2 detectors, 4 frames, 1 failed write | segments filed, identities consistent, recordings analysed once, events closed |
| `services` | `MCServices.cfg` | 2 cameras with 3 calls on 2 ports without a mishap, or 1 camera with 1 mishap, inboxes of 1, patience of 1; 2 users, 2 requests, 3 changes; 2 senders, 2 administrators of settings, 3 alerts, 1 link fault, failing reads and writes of rows and settings; 1 camera, pulled with 4 changes or pushing with 3, 1 lost publish | calls hung up, an administrator left, alerts spaced and tried, the broker right in the end |

Why the bounds suffice. A capacity of 2 with 4 units fills, overflows and drains a
buffer; two readers are enough for one to be slow while the other is not. Two requests
and two attempts let every request meet every phase of connection, service, loss and
redial, and a second stream meet what is left of the first; a third request adds a third
runtime that meets only what two already do. Two clips with a batch of one make one clip
stand in front of another, and one crash can fall between any two calls.
Six units hold two dropped pre-roll GOPs, a trigger, a rotation and the end of the
segment in one behaviour, with the clock standing still or moving at each keyframe;
segment and pre-roll lengths are chosen so that a keyframe falls before, on and after
each boundary. The GB28181 session is an IDR frame, a frame with audio in front and an
IDR frame, long enough for both counters to wrap and for a late packet to land after its
frame. Two visits give a late timer callback a viewer to meet, a stale stream a newer
transcoder to replace, and a waiting viewer the process of another. A playback capacity
of one makes every second key an eviction. Two streams of a camera are what an overlap of
recorders, detectors or publications takes. Two tracks that look alike in two recordings
are enough to be merged, split, linked and confirmed against a pass; a correction and the
worker's or the pass's statements interleave in every order. Two attempts with two
troubles fail a job for good, and one trouble and one crash retry it. Two requests on two
accounts suffice for each administrator to remove the other.

Deadlock checking is off everywhere: requests, streams, clips and messages are bounded,
and the system has nothing left to do once they are used up. What must not get stuck is
stated as liveness.

Fairness. `core_stream`: the steps of a write that has begun, and of a consumer whose
channel has something for it; no fairness for new units, joins or Close. `CameraManager`:
every goroutine that can go on does; a source returns once its context is cancelled (all
sources select on it); nothing is assumed about when a source is ready or lost, when a
peer connects or leaves, or when requests are made. `RecordingLifecycle`: the ticker
ticks and the worker's steps end; an upload of a clip that is tried again and again gets
through, and so does the statement that marks a clip whose file is gone (strong fairness of
their success), without which no retry promises anything; no
fairness for recorders, retention or requests. `LiveTranscode`: goroutines go on, armed
timers fire (a wait ends after twenty seconds, the grace period after eight), and ffmpeg
exits when told to, at the latest when it is killed; none for sources, first frames or
viewers who leave. `Viewers`, `Republish`: a handler, a client's DESCRIBE and a pump go
on; nobody has to leave. `Playback`: `Ensure` goes on and `awaitReady` answers at the latest
after its time is over; ffmpeg owes nothing. `TranscodeRecorder`: the recorder's goroutine goes
on and the backstop fires; FFmpeg owes nothing. `FaceJobs`: the worker goes on and a crashed
server is started again. `GBDialogue`: the timers of `sendInvite` and `receiveMedia` fire;
the network owes nothing. `HomeAssistant`: the resync comes back, requests
are carried through, goroutines that `stop()` waits for end and what goroutines have to
publish they publish; a publish may fail, a bounded number of times. Where all repetitions are bounded or a
condition is stable, `<>[]` over all instances says the same as one leads-to per instance
and costs TLC less.

For each property a mutant in `PROJECT.json` names a plausible bug of the mapped code
that violates it in that run; the mutated definitions stand before the originals and are
marked `mutant`.

## 4. What the code does not do (violation runs)

| run | property | what happens |
|---|---|---|
| `camera_race` | `NoOrphan` | `startCamera` publishes a runtime in the map, releases `m.mu`, then starts it. Stopped in between, it starts all the same and nothing can stop it any more. |
| `push_muxer` | `LiveHasMuxer` | The muxer goroutine of an earlier RTMP stream ends with `setMuxer(nil)` and clears its successor's muxer: live, but no HLS. |
| `push_late_reader` | `ConsumersStop` | `AddReader` on a closed stream returns a reader that is never closed; `stop()` does not cancel the context of a pushed stream, so the consumer and the request that waits for it stay for ever. The same gap holds a viewer (`Viewers`) and an RTSP publication (`Republish`), and those models except it (`late`). |
| `retention_stat` | `OnlyBackedUpDeleted` | Any `os.Stat` error counts as a missing file; the clip is marked uploaded and retention limited to uploaded clips deletes the only copy. |

Some properties hold only with exceptions, which the modules name in history variables
and in the comment of the property. What the code does inside them:

- Camera manager. `stop()` closes the stream it sees. A publisher that attaches after it
  has looked, or whose open stream another connection takes out of view, goes on, and the
  request that waits for its consumers waits as long as it publishes (`unseen`): this, and
  a consumer of a closed stream (`push_late_reader`), are all that holds up a request
  (`ReturnsUnlessHeldUp`).
- Recording. Audio before the first keyframe goes to the first file with its own time
  anchor (`FilesSound` excepts that file; the repository's README.md:289 admits it). An
  audio-only recorder that ends right after a rotation leaves a completed row with an
  empty file. A row whose completion fails (recorder.go:502-504 logs it) stays as it was
  inserted although its file is whole: no worker looks at it, and nothing tries again.
  If `MarkUploaded` fails, the local file is removed all the same and the row says neither
  that it is uploaded nor where: `ListedClipPlayable` is checked, and proved, without that
  fault (`"mark"`). Segments of a transcoding recorder whose names collide
  replace one another, and `.transcode` is never cleaned (`spared`).
- Archive. `settings.go:53` ignores the error of reading the stored settings, and two first
  saves may overlap: either can replace the salt that settings.go:65-67 says must not
  change (`spoiled`).
- Ingest. A publish that is refused is tried again at every frame. An audio configuration
  that comes after the first frame gets no track. RTMP's 32-bit milliseconds wrap after
  49 days, and units are then one turn apart. GB28181: a packet that arrives after the
  end of its frame splits it (`crossed`); `tryReady` does not wait for a VPS, though the
  comment at media.go:15 lists it.
- Live. A viewer who returns after the grace timer has cancelled the transcoder, and
  before its run has ended, is handed the output that is about to close. A publication of
  a stream that closed before its pump attached stays in the map for ever and is handed to
  every later client; publications outlive the server that made them.
- Playback. A session evicted before it has its cancel function leaves its ffmpeg running
  (`early`); a `stop()` under way may remove the directory of the next session of the key
  (`sharedDir`).
- Faces. `process` does not remove what an earlier attempt stored, so that a retry stores
  faces twice (`troubled`; gallery.go:28 calls retries safe). A closing update that fails
  leaves the job running until the next start (`stuck`). Overlapping operations on
  identities leave tracks with deleted persons or wrong counts (`raced`); ignoring the last
  face of a person deletes the person under the track, and deleting a recording recounts
  nobody (`drift`); a track confirmed after a pass has read it is moved although
  cluster.go:21 says that anchors never move (`late`).
- Events. Nobody waits for the detectors of the stream before; an overlap leaves the first
  event open, or closes the gate under the second (`overlapped`).
- Accounts. `isLastAdmin` and the write are two statements, and revocation follows in a
  third step: overlapping requests can leave no administrator, or a token with a role the
  account no longer has (`met`). users.go:94 and 134 discard the error of `isLastAdmin`:
  a request that cannot list the accounts demotes or deletes the last administrator, which
  the repository's README.md:29 says cannot be done (`unlisted`).
- Alerts. The throttle is used up before delivery. Two senders may build an MQTT client
  each, and one that timed out may connect when nobody owns it (`leaked`). Overlapping
  saves lose VAPID keys that notifications.go:73-74 carries forward (`crossedWrites`), and
  so does one save whose read of the stored settings fails: notifications.go:52 ignores the
  error and carries forward the empty key of the defaults (`unread`).
- Home Assistant. A resync that lists cameras before one is deleted may publish it again
  after its removal, for ever, and an RTMP connection that nobody waited for may say that
  a deleted camera is online (`unsure`). The resync publishes the configurations of disabled
  cameras too, which `RemoveCamera` has just cleared: `HASettles` asks of a disabled camera
  only that it is shown offline and still.
- GB28181 calls. `sendInvite` goes on retransmitting after a provisional answer, though
  play.go:132-133 says it stops; a call cancelled or timed out before its answer is read
  gets neither CANCEL nor BYE, and a replaced server's BYEs go nowhere (`deaf`). SSRC and
  sender of media are not looked at, so that what an earlier call's device still sends to
  a port is taken for the call that has the port now (`foreign`): at the earliest after a
  round in which every other port was handed out or passed over, or with a new server,
  which begins at the first port (`ForeignOnlyAfterRound`).

## 5. Proofs

Every theorem holds for all values of the constants its module's assumptions admit. The
assumptions say that bounds and capacities are numbers, positive where the code's are,
that the two kinds of source are the two there are, that sets of names do not hold the
values used for "none", and that the seeded account is a user; nothing is assumed about
how many goroutines, cameras, clips or requests there are. A proof module states one
inductive invariant per component; the parts of a composite share no variable, so each
keeps its own while the others rest.

`CoreStreamProofs`: `TypeCorrect`, `NeverPanics`, `Accounting`, `DeliveredInOrder` and
`HubImplementsFeed`. The invariant adds to the types what the locks give (a write in
progress excludes the write lock; the readers still to be pushed to are registered, and a
registered reader's channel is open) and, for the order, how received, buffered and
offered units relate. `HubImplementsFeed` shows that each step maps to a step of
`LossyFeed` or to a stutter.

`CameraManagerProofs`: `TypeCorrect`, `StoppedStaysGone`, `OneSource` and
`SettlesWhenGone`. For a pull camera (`PullInv`), and for as long as no two requests
raced: at most one request has a runtime in hand (`OneActs`); it stops the one in the map
or took it out of the map, and starts the one it put there (`HandAndMap`); a runtime with
goroutines is in the map or in that hand, and there is none while the next one is
inserted and started (`LiveInHand`); one that was stopped has none (`StoppedIsZero`), and
what consumers read is closed or served by their supervisor (`ServedOrClosed`). The
properties are not inductive by themselves, since what makes a second source impossible
is where the one request is. For an RTMP camera (`PushInv`) no supervisor runs
(`NoSupervisors`), runtimes to come have no stream (`NotMadeYet`), and where the runtime
got its stream and its state from, a connection is still there to take them away again
(`StreamHasPublisher`, `RunningHasPublisher`). `StoppedStaysGone`
and `OneSource` are about pull cameras and say so (`SourceType = "pull"`): `stop()` does
not cancel the context of a pushed stream (section 4).

`RecordingLifecycleProofs`, with any faults except where a theorem says so. The inductive
invariant `Custody` says who may touch what: rows exist only for clips a recorder started
(`RowsFollowRecorder`), workers hold only clips that are over (`HeldAreOver`), the upload
worker's step says what is already true of the clip it holds (`UploadCustody`,
`UnlinkAfterMark`), what retention remembers of a row was true and stays so
(`SnapshotsTrue`), deleters remove files before rows (`DeletersUnlinkFirst`). None of the
checked properties is inductive without these: each depends on what a worker did some
steps before. From it follow `KeysNameObjects`, `LocalRemovedMeansArchived` and
`ListedClipsPlay` (assuming `"mark" \notin Faults`), `OpenClipsUntouched`, and
`OnlyBackedUpDeletedHolds` (assuming `"stat" \notin Faults`; the run `retention_stat`
shows that the assumption is needed).

`OutputsProofs`: `OutputsTypeCorrect`, `TranscoderAgrees` and `SharedOutputsAgree`.
The reference count is that of the viewers because a viewer has its transcoder from the
pick on and a run of it from the acquisition on (`ViewersKnow`), a run that is not over
and its transcoder know each other (`RunsKnown`), and a visit makes at most one of each
(`VisitsCounted`). A playback session is made by one request and is in the map until it
is stopped (`MadeByOne`, `InMapAsMade`), one that is being stopped is outside and shares
its key with none that has its directory to itself (`StoppedOutside`), and the order of
last accesses is total on the map (`Ordered`), so that at capacity there is exactly one
session to evict: this is why the order is kept as a relation. A publication that was
made is inserted by the one client who made it (`PubsMade`, `PubsAnswered`), and a pump's
publication is the one in its server's map (`PubsInMap`).

`WorkersProofs`: `SegmentsAreFiled`, `EachAnalysedOnce`, `EventsAreSound`,
`AnchorsAreKept` and the types of the four parts (`WorkersTypeCorrect`). For a segment that
nothing has spared, its file is in the work directory or in the tree under its name
(`FileKept`), and files have the name their segment was given (`FilesNamed`): renaming
another segment can then not take it away unnoticed. The line a recorder is handling has
its file moved and then its row (`LineInHand`). A face job is paid for (`AttemptsPaid`:
one more claim than `maxAttempts` for each trouble that left it running, which bounds
`attempts`) and its worker holds a job that says it runs, or whose recording is gone
(`WorkerHasJob`). A recording that no attempt failed over has no faces until its job is
claimed and all of them in tracks once it is done (`FacesOutside`); in between, the rows
are exactly the faces the worker has passed, and those it has grouped are in tracks
(`FacesAtHand`, `WorkInRange`). For events the invariant tells, for each step of a
detector that is alone, which of its own activity, the current event, the gate and the
row are already set (`InHand`); the order in which `onStart`, `create`, `onEnd` and
`finalize` write them is what the property is about. For identities (`FaceInv`) a program
holds statements about tracks and persons there can be, and either it is a pass that has
read (`SeenOK`), has labelled (`LabelOK`) and will write, or it only writes (`PassGoes`);
what a pass has yet to write moves tracks it found free, and a free track that is
anchored by now was confirmed late (`PassFits`). That the statements of a pass are such
goes through what it computes: a label is adopted from a neighbour (`AdoptFits`), a round
keeps the labels among those there are (`RelabelledFits`, by induction over the round),
and a label stands for a person of the pass or a new one within bounds (`TargetFits`).

`ServicesProofs`: `AdminsAndTokens` (the run's `AccountsSound`), `AccountsTypeCorrect`,
`ServicesTypeCorrect`, `CallsAreSound` and `AlertsAreSound`. For accounts, any number of
them and of requests under way at once, the invariant `AccountsInv` keeps what a request
relies on between reading a row and acting on it, for as long as no other request has met
it and none went on because it could not list the accounts (`unlisted`): the row is still the one it read (`ReadIsCurrent`), the other administrator it counted
is still there (`AnotherAdmin`), and requests that can disturb one another are noted as
having met (`MeetingsNoted`). For a call,
a datagram is about a call that was made, and a rejected call is over (`MailFits`); a
call that no `Play` has in hand is over, was hung up or is noted (`CallsAccounted`); while
a `Play` holds its port no later call gets it (`PortsHeld`); and since a call of the same
server its port was handed out again, or the cursor has come over all ports in between
(`PortsInTurn`: `ServersInTurn`, `CursorMoved`, `Rounds`), which is why foreign media needs
a round.
`CallsAreSound` is about `GBSpec` and needs none of the bounds of `MCServices`. For
alerts, what the throttle let through is `MinInterval` apart (`AlertsApart`), a channel an
alert wants was tried or is left to the one sender that delivers it (`AlertsInHand`), a
client that is connected is the shared one, in a sender's hands or noted as lost
(`ClientsInHand`), and unless writes crossed or a read of the settings failed, the request under
way has seen the key that is there and browsers know no other (`KeysAgree`). Of
`HomeAssistant` the types are proved; that the broker's picture is right in the end is
liveness.

`MediaProofs`, about streams, recordings and archives of any length: `RowsAreCompleted`,
`FilesAreSound`, `PreRollIsWhole`, `PullIsSound`, `IngestIsSound`, `UnitsAreSound`,
`MuxIsSound`, `ArchiveIsReadable` and the types of them all, `FootageTypeCorrect`. For the rows the
invariant is about the shape of its state at each point inside a handler (`Fits`): all
rows but the last file's are not open, and that one is open exactly while the file is;
each helper (flush, open, write, finalize) keeps or moves this, and since every way out of
`Run` passes the deferred finalize, no file is open after it and every row is completed
or, where that failed, `"incomplete"`. What the files hold is
`FilesInv`, about files, GOPs waiting for motion and the GOP under way together (`Good`):
each rises, holds only frames in a row from a keyframe on, and comes before the next
(`GoodFiles`, `GoodGops`, `GoodPending`); what is held since the oldest GOP that waits, or
since the open file, is every frame that came (`UpToDate`); every frame of a time that is
to be recorded is in a file or on its way into the open one (`NoneLost`); and a keyframe
that is not is either still buffered or older than a whole pre-roll before one that is
(`BufferReaches`), which is why pruning may forget it. A flush, a stash, the opening of a
file with its pre-roll, a failure of each and the end are lemmas of their own, told in
terms of the sets that sequences hold, since concatenating and flattening keep them
(`Joined`, `Flattened` of `DataFacts`). For a pulled track (`PullInv`): the rest of the unit under way is
coming (`RestIsComing`), what the decoder holds came and is the beginning of one unit
(`FragmentsCame`), the time is known exactly since a keyframe's first packet
(`LockedByKey`), and as long as nothing of the unit under way was lost and the time was
known, the decoder holds all of it that came (`FragmentsKept`); this last one is why a
keyframe in several packets is not dropped. Only the unit under way can become whole, with
its last packet, and then exactly if the decoder holds the rest. For ingest
(`IngestInv`): one publish was taken if the connection is published (`PublishedOnce`),
configurations only get newer (`ConfigsGrow`), times do not go back (`TimesGrow`). For
GB28181 media (`FramesInv`): the assembler holds packets of one frame, the one of its
timestamp, each once; every unit is made of rows of one frame, and the clock shows the
time of the last frame that was emitted, although both timestamps wrap (`SignedIs`); and
unless a packet came after one of a later frame (`crossed`), a unit is all that came of
its frame (`AllOfFrames`) and the assembler has everything that came of the newest frame,
if that frame is not over (`OnlyEarlier`). The sessions are those of `GBMedia`, up to
three frames; widths, steps and limits are any that its assumption allows. Sorting by sequence numbers that wrap puts a frame in the order it was
sent because its packets are less than half a turn apart. For FLV
a track's base is set by its first unit and stays (`FlvInv`). For fragments (`FragInv`)
what the fragments and what waits hold of a track, one after the other, is in a row and is
every unit that was due (`TrackInARow`, `TrackComplete`); a fragment counts from the first
unit of its track (`TrackCounts`); and with video a keyframe waits for the fragment after
the last one, so that each fragment's durations add up to the start of the next
(`GroupsPlay`; `LastsUntil` is the sum). For the archive, as long as saves did not
overlap, the one request under way keeps the salt that is stored (`OneSaves`); and an open
reader decrypts with the mask of the place it reads from (`ReaderPlaced`), since adding
whole blocks to the counter digit by digit, with carry, is adding to its value, modulo
one turn of the counter (`AdditionRuns`, `CountsOn`), also for a counter that wraps.

Only model-checked:

- Liveness (`CallsEnd`, `EveryClipHandled`, `SettlesUnlessRaced`, `ReturnsUnlessHeldUp`,
  `OutputsSettle`, `WorkersSettle`, `ServicesSettle`): fairness and `ENABLED` are out of
  the prover's reach.
- `IdentityConsistent` of `FaceIdentity`: what a whole program of statements leaves
  behind when no other met it, for every operation.

The library's theorems of induction take an operator and cannot be used here. Where a
proof needs what a recursive function or a fold of the community modules computes for
every input (`FlattenSeq`, the rounds of a pass), `DataFacts` gets it from well-founded
relations: a set of numbers that is not empty has a least member (`LeastNumber`), so a
set with 0 and with the successors of its members has every number (`CountingUp`).

## 6. Not modelled

Protocol and media libraries, formats (fMP4, HLS, FLV, RTP payloads), the encoders'
arguments, the frontend and the inference service; counters and statistics; the text of
SIP, SDP and templates; catalog and device queries of GB28181 and the expiry of a
device's online mark; talk back, ONVIF requests and PTZ, which are sequential calls
without state of their own; settings other than those that change control flow above; the
order of shutdown. Durations are abstracted: a timeout or backoff may fire whenever it is
pending, so nothing is said about how long something takes. In `RecordingLifecycle` each
clip has its own path; directories and disk space are left out, and how many clips a size
limit deletes is a free choice. Deleting a camera deletes its recordings' rows and all
that hangs on them by foreign keys (database/migrations.go:36 and 67): here rows are
deleted one at a time, and the files such a cascade leaves behind are not followed.
`Playback` has no shutdown: `closeAll` (rechls.go:227 and 251) stops every session at the
end of the process. In `HomeAssistant` an RTMP connection that `stop()` did not wait for
publishes each kind of message once more per stop (`Orphans`). In `Recorder` the reader's drops are not visible: its
units are those it received. In `FaceJobs` the grouping of boxes into tracks is its
result; in `FaceIdentity` a track has one face, its best one.

## 7. Plan

Done: every component of section 1 that has control of its own, and the theorems of
section 5. Next, in order of importance:

1. Proofs of what is left under "only model-checked" in section 5.
2. The manager's `Stop` at shutdown against requests that are still served.
3. Larger instances of `FaceIdentity` (three tracks, two operators), which now take longer
   than a run should.
