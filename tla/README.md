# Tilefinch: a formal model of its concurrent core

Tilefinch is a web browser for the PSP: one browser thread that does almost
everything, a handful of worker threads above and below it in a strict
priority order, a firmware network stack that must be loaded, associated,
retained over sleep and taken apart in order, and a Memory Stick whose rename
does not replace. This directory holds TLA+ modules of the parts whose
correctness depends on orders and interleavings, the TLC instances that check
them, and the theorems about them that TLAPS proves.

Paths below are relative to the repository root.

## 1. Inventory

### The components and their state

| Component | State it keeps | Operations | What makes it correct |
|---|---|---|---|
| Network supervisor (`src/psp_network_supervisor.c`) | `PspNetworkSupervisor`: state, believed stack, target, child phases, attempts, retained leases, admission | one pure transition per event | its own violation check is always clean; no teardown without a release; the gate follows the machine |
| Lifecycle driver (`src/psp_app/psp_app_network.c`, `src/psp_network.c`, `src/psp_network_shutdown.inc`, `src/psp_network_workers.inc`) | machine, requester table, rejoin, shutdown and drain operations, `PspNetwork` ladder | request, pump, blocking connect and shutdown, suspend, resume | belief agrees with the firmware; nobody transfers over a stack that is being unwound; failing links come back; blocking calls return |
| Multiplayer (`src/psp_multiplayer*.{c,inc}`) | one session, one worker, the flag that says it holds the network | open, cancel, take, pump, shutdown | the worker is stopped before the stack is, its close is delivered once |
| Background transport (`src/fetch/background_transport.inc`) | request slots (state, chunk, flags, curl handle, buffer), admission gate, two buffer pools | enqueue, take, take chunk, cancel, quiesce; the worker's turn | a slot is owned by one thread at a time, is never leaked, and hands out every byte once |
| Fetch scheduler, request authority (`src/fetch/*.inc`) | requests of each scheduler, their bytes and lanes, the page's shared limit and hold | enqueue, pump, take, cancel, destroy, hold | the ledger is exact; a lane belongs to one active request; every request ends; a held page is quiet |
| Navigation (`src/navigation.c`, `src/navigation/`, `src/browser_engine.c`) | incumbent and candidate documents, one load, session history and its cursor | begin, pump, commit, fail, cancel, redirect to a site adapter | one load does one thing to the history, or nothing; entry and page belong together |
| Media session (`src/psp_media_state.c`, `src/psp_media_session.c`, `src/psp_media_{open,seek,retry,buffering}.c`) | machine with opening, priming, seeking and quiescing phases; service token; the physical job, its retries and renditions | one pure transition per event; one bounded unit of open or seek per frame | machine and job agree; a late completion changes nothing; opens and seeks end |
| Software decoder hand-offs (`src/media_backend_psp_swdec.c`, `src/swdec/`) | job ring, picture surfaces, conversion claim, PCM ring, audio fence, reset gate | publish, collect, offer, withdraw, borrow, raise, park, reset | exclusive ownership without locks across threads and two CPUs; a seek stops them all |
| Secure updater (`src/update_*.c`) | two state copies, two slots, trial state, anti-rollback floor | install, start trial, confirm, retry, discard, boot decision | power loss anywhere leaves a bootable slot and a complete state |
| Session and site storage (`src/session*.c`, `src/platform.c`) | logs, indexes, `.tmp` and `.bak` files | append, compact, replace, recover | one complete copy survives every crash |
| Offline library (`src/offline_library.c`, `src/offline_download.c`) | index, item files, partial downloads | save, resume, delete, recover | as above |
| Tabs (`src/browser_tabs.c`, `src/psp_tabs.c`) | bounded set of tab snapshots, one of them on the card, the transition that waits for a load | open, switch, close, settle, hibernate, rehydrate | the active tab's snapshot is the engine's history; a failed load undoes the request |
| Frame pumps (`src/frame_pumps.c`) | admitted, ran and yield counters of a frame | admit, mark ran | one Memory Stick operation per frame, and no pump starves |
| Budget ledger (`src/budget.c`) | charged bytes by category, concurrent pool | allocate, grow, free | what is charged is what is live |
| Voice job (`src/voice_job_lifecycle.c`, `src/psp_voice_input.c`) | one job, cancel and timeout flags | start, pump, cancel | memory outlives the job, also after a timeout |
| Clock worker (`src/psp_clock_worker*`) | desired and applied clock | request, wait, shutdown | the last request wins; handles are released once |
| DOM handle table (`src/js_dom_handles.inc`) | slots with generations and leases | acquire, resolve, release | a stale handle never names a new node |
| Layout, style, rendering, fonts, images, Reader, providers, policies, UI | large data, one thread | sequential passes | better served by the repository's fidelity corpus than by a state machine |

`PROJECT.json` lists all of them with their sources, what is modelled of each,
and the reason where nothing is.

### How they interact

The browser thread (`psp_loop_frame`) runs input, presentation and then one
service unit of the network lifecycle and of multiplayer. It calls the
transport directly: enqueue, take and cancel are lock-free operations on slot
words, and the worker answers only through those words. The lifecycle moves
the transport's admission gate, counts its leases and asks both workers to
quiesce; workers never call back into the browser. Suspend, resume, exit, voice
input and navigation enter blocking loops (`psp_shutdown_network_logged`,
`psp_network_lifecycle_drive_demand_recovery`, `psp_connect_network_prepared`)
that pump the lifecycle but not the frame. While it composes a video picture
(`psp_present_video_surface`) the browser thread raises itself above the
transport worker and calls the media source, which calls the transport again.

The media session is pumped once per frame, reports to its reducer with the
token of the command it answers, and drives the decoder; the decode worker, the
Media Engine and the audio thread work below and above the browser thread and
answer through atomic words only. A tab request selects a tab and begins a
load; the frame loop settles tab and load in the frame in which the load ends.
Site storage and the updater use the Memory Stick synchronously, so the only
other actor they have is the loss of power.

### Hard behaviours

`PROJECT.json` has them under `hazards`, each at the line where it bites. In
short: targets that change in the middle of a stop; a drain deadline racing the
last lease; beliefs (stack, gate, leases, rejoin operation) that outlive what
they describe; unlocked slot words whose protocol leans on thread priorities
that are inverted in two places; blocking loops that keep the frame loop, and
so the only code that joins a session, from running; power loss between file
operations; completions that arrive after their command was superseded;
surfaces and sound blocks that a second core or the output hardware still uses
when a seek frees them; history cursors that move before their load is known to
succeed; a pump that reads one hop several times while the worker finishes it.

## 2. The modules

| Module | What it is |
|---|---|
| `NetworkReducer` | the pure reducer as operators: a decision `[next, commands]` per event |
| `NetworkSupervisor` | the reducer under an arbitrary driver, its properties |
| `NetworkCustody` | abstract: whose hands the stack is in, and what may follow what |
| `NetworkLifecycle` | the real driver over ladder, unwind, rejoin, leases and multiplayer, with the browser thread's blocking calls |
| `NetworkProofs` | the theorems about `NetworkSupervisor` and `NetworkLifecycle` |
| `TransportSlot` | one transport slot, every atomic step of worker and browser |
| `TransportLease` | abstract: what `NetworkLifecycle` relies on about a slot |
| `TransportSlotProofs` | the theorems about `TransportSlot` |
| `UpdateState` | the updater's record and the pure transitions of `update_state.c` |
| `UpdateJournal` | the record in two files, one file operation per action, and the card behind them |
| `JournalRegister` | abstract: an atomic register that power loss may set back |
| `UpdateTrial` | launcher, browser, update session and installer over that journal |
| `UpdateProofs` | the theorems about `UpdateJournal` and `UpdateTrial` |
| `MediaReducer` | the pure media reducer as operators |
| `MediaSession` | the session that drives it, one bounded unit per action |
| `MediaSessionProofs` | the theorems about `MediaSession` and `MediaReducer` |
| `SiteLog` | one site's log on the card, one file operation per action |
| `SiteMemory` | abstract: what a site is promised of its storage |
| `SiteLogProofs` | the theorems about `SiteLog` |
| `DecoderPipeline` | decode worker, Media Engine, audio thread and browser, one hand-off per action |
| `DecoderPipelineProofs` | the theorems about `DecoderPipeline` |
| `TabNavigation` | the engine's load, the session history and the tabs around them |
| `TabbedHistory` | abstract: what tabbed browsing promises |
| `TabNavigationProofs` | the theorems about `TabNavigation` |
| `FetchScheduler` | a page's schedulers over the transport, the pump one step at a time |
| `FetchSchedulerProofs` | the theorems about `FetchScheduler` |
| `MC*` | instances for TLC |

`NetworkLifecycle` EXTENDS `NetworkReducer` and calls the very operators the
theorems are about. Its slots move as `TransportLease` lets them (`Advance` and
the calls `Enqueue`, `TakeResult`, `CancelRequest`), and `TransportSlot` is
checked to implement that module, so the three levels fit together.

An operator that is introduced by a comment starting with *Mutation* is not
part of the model: it is the definition next to it as a plausible bug would
have it, kept to show that the property named in `PROJECT.json` would notice.

### NetworkReducer and NetworkSupervisor

The state record is `PspNetworkSupervisor` field by field; `On<Event>` is the
case of `psp_network_supervisor_transition` for that event; `Enter...`,
`FinishStopping`, `BeginLeaveOrFinish` are the helpers of the same names.
Unknown pairs are `Ignore`. `NetworkSupervisor` applies any event
(`<Event>Event` of `SupervisorNext`), with any snapshot the native layer can report, at any time; a superset of what the
driver does, so its invariants hold for every frontend. `released` is a history
variable: an empty lease table was reported since the current stop was entered.

### NetworkLifecycle

State: `lifecycle` (the `PspNetworkLifecycle` struct: machine, requests,
rejoin, shutdown phase, quiesce flag), `net` (`PspNetwork.status`, services and
modules), `slots`, `gate`, `session`, and `browser`, which is where the browser
thread is and where its blocking call returns to. One action is one call or one
unit of a pump, with everything that call changes. Compound handlers are built
from operators on a record of the whole world (`World`, `Then`, `Become`), so
that a firmware result inside a handler is a choice of the handler's outcome and
never a separate action.

Abstracted: profile discovery and diagnostics; all timers (a timeout may
happen whenever it is armed); module adoption from another owner and
`connect_started`; preconnect and captive-portal probes; the preconnect and
WebSocket slots count as leases and follow a subset of a request slot's moves;
the wire protocol of multiplayer, and a page that closes a session which has no
thread yet. A join that fails within its millisecond is the state `Done` with
`cancel_pending`. All requests are enqueued on the browser thread. `Activities`
names what the environment does besides navigating and fetching.

### TransportSlot

One slot, at the granularity of the code's atomic accesses: the worker's turn
is a sequence of stages in the order of `fetch_background_worker_main`, with a
stage of its own for each window inside a service (look and claim of a queued
slot, load and store of a publication, the two stores of a chunk), and each
browser call is split the same way. Only one thread runs: `WorkerRuns` and
`BrowserRuns` are the priorities of `include/tilefinch/psp_threads.h`. A
browser that is inside a transport call runs it to the end unless the worker
outranks it; the worker yields where it waits, and during a demoted set-up
call. With `Presenting`, the browser may raise itself and come back from a
hardware wait in the middle of any service of the worker.

Abstracted: a redirect hop or TLS retry is a transfer that has not ended; the
pool is the choice `NoBuffer`; header fields, deadlines' values and event wakes
are left out (a waiting worker may always wake); a cancel is by the owner, or
by quiesce, which cancels whatever is not free. libcurl is external: while a
transfer runs it may deliver a unit, end, or fail.

### UpdateState, UpdateJournal, UpdateTrial

A release is its sequence number, and one package exists per sequence; the
digests that travel with the numbers are left out. `disk` is what the program
reads back, `card` what power loss would leave: the storage driver writes back
when it likes (`DriverWritesBack`), and a device sync either does that or is
refused (`Syncs`). A store is `BeginStore`, `RemoveStale`, `RenameNew` and the
sync, with `PowerLoss` between any two. `UpdateTrial` adds who stores: the
launcher (`Decide`, `Recover`, `VerifyAgain`, `HandOff`), the browser's health
confirmation and floor, the session's offer and the installer's retire and
promote. `proven`, `approved` and `tried` are ghosts: images that ran
healthily, older releases the user picked, unattended starts of the trial.

Abstracted: the temporary file of a store, which nobody reads; the download,
verification and staging of a package, which come before `Retire` and touch
neither slot.

### MediaReducer and MediaSession

`MediaReducer` is `psp_media_state.c` in the style of `NetworkReducer`. The
chart's child phases are one field, since at most one is set; what no
transition reads (the kind of a failure, the seek generation, the ended flag)
is left out. `MediaSession` is the driver: what the session owns, the physical
job, the retry ladder (`MaxAttempts`, the code's cap of two, and the renditions
a page offers), and the token. A frame runs one unit of `OpenPump` or
`SeekPump`; everything else a frame can notice is `Frame`, and what user, page
and process ask for is `Request`. `moved` records which it was, for fairness.

Left out: preview and scrub, playlists, shutdown, the panel for a quarantined
DMA channel, a codec that sticks after a cancelled creation. What a page wants
after a continuation is `WantsPlaying` or a choice, and so is whether a provider
stream is played directly.

### SiteLog

A change of an item is a number, and a log is the sequence of changes it
records; a rewrite begins with one number that stands for its items. `files`
and `card` are as in `UpdateJournal`, under the three names of
`tilefinch_platform_replace_file`. Every file operation of load (with its
recovery), append, compaction and clear is an action that may fail where the
code looks at its result. Assumptions about the card: operations reach it in
order, except that the bytes of a rewrite may lag as long as its backup exists
(`LosePower`); standard I/O buffering is part of that; opening or renaming a
file that is there succeeds during a load, and so does removing one; a rename
does not replace; the remains of a torn record never parse as one.

Left out: storage tiers and moves between them, quotas, OPFS, session-only
sites. `ClearsUnloaded` is FALSE in the run; see section 4.

### DecoderPipeline

Four actors over shared words. The job ring is a sequence of jobs; a surface
has the state, reader count, claim and retirement of `SwdecVideoSlot`; `claim`
holds the two words of the conversion handshake, whose look, announcement and
re-check by the Media Engine are three steps, as are the offer, withdrawal and
join of the worker. The audio thread's turn, from the return of one output call
to the start of the next, is one step, because no thread of
lower priority runs inside it. A reset is the sequence of `swdec_reset`: raise the
fence, wait for `Quiet`, free the ring, replace the decoder, lower the fence.
`old` marks what belongs to the stream that a seek leaves.

Left out: the preview's read of a surface (borrow and release in one call),
surfaces the engine cannot reach, quarantined claims, refused frame shapes, a
channel that cannot be reserved, `swdec_release_video_slot`, destruction, the
64-bit values published to the audio thread (`swdec_publish.h`). `queued` says
that some units wait; the bound of 48 packets is the ring's. A drain publishes
its flush job also while the engine is down, as the code does.

### TabNavigation

A load is one record: how it was begun (`record`, `replace`, `moved` with the
previous cursor) and how far it is. Every action is a frame or a request of the
user or page. `Pump` is `browser_engine_pump_navigation` and the pumps below
it; the frontend's settlement of tab and load (`Settle`, `SettleCancelled`,
`Undo`) is part of the frame in which the load ends. An address stands for its
redirect chain, so a redirect is an event only where it changes the loader.
`astray` is a ghost that is set by causes, never by comparing: the load was
begun for an address other than the entry's, a commit was settled as cancelled,
or a tab's history was refused.

`TabbedHistory` states the promise without loads: each visible step visits,
replaces, reloads, traverses, opens, switches or closes. Its last three actions
are what the browser allows itself beyond that (`LosePage`, `Misfile`,
`LimitedTab`), each named, so that everything else is excluded. The mapping
shows a user's view: a request whose load has not ended is not yet made, and a
moved cursor is where it was.

Left out: moves within a document, the browser's own pages, captive portals,
titles, scroll positions and form state, settings that reload, session save and
restore, thumbnails. Both retries inside a load (client hints, a body of zero
length) restart the same fetch once each and are part of `fetch`; progress
within `fetch` and between parse and commit is left to the watchdog, so this
module claims no liveness. `Retry(u)` offers any address other than the current
entry's, since the recovery sheet keeps that of whichever load failed.

### FetchScheduler

`item` is `ScheduledFetch`, one per slot of each scheduler; `view` the
scheduler's own counters; `domain` the limit and the hold its page's schedulers
share; `lane` the transport's slots as the scheduler sees them between two
calls. The browser thread's calls are atomic, except the pump: the worker
outranks it, so `pump` says where in `fetch_scheduler_pump_bounded` it is
(`Visit`, `Headers`, `Chunk`, `End`, `Next hop`), and the worker may move
between any two of these. Only the worker: a consumer called by a pump stores
what it is given and calls nothing of the scheduler.

A lane that is `Other` is used by media, navigation or an update, or withheld
from the page while media has priority. Bodies are counted in units, one per
chunk. What is kept of a finished request's reservation lies between the body
and the reservation (`Kept`), since buffers grow by doubling. `late` is the
deadline of the first hop, which all hops share. `LanesAreLeases` maps a lane to
the `TransportLease` that `TransportSlot` implements and `NetworkLifecycle`
relies on.

Left out: the desktop's easy backend with staging and TLS retry, capture and
replay, the policies on addresses, headers and cookies (any of them may refuse
where the code asks it), and a cookie header that can never be built for want
of memory, which would keep a request waiting past its deadline.

## 3. What the runs check

| Run | States | Bounds | Shows |
|---|---|---|---|
| `supervisor` | 10 494 | 1 profile, 2 leases | reducer invariants and the refinement of `NetworkCustody` |
| `lifecycle` | 437 514 | 1 profile, 2 slots, 2 leases, every activity | the driver's safety |
| `liveness` | 21 165 | 1 slot, voice, sleep, exit | blocking calls return; a demand outlives a stop; a failing link recovers |
| `transport` | 38 485 | 3 units of body, chunks of 2, ordinary priorities | slot safety, liveness, and the refinement of `TransportLease` |
| `transport_present` | 324 184 | the same, with a browser that promotes itself | a free slot is idle |
| `update_trial` | 2 840 961 | 2 releases and Developer, 5 generations, slot A delivered with release 1 or 2 | the updater's promises and the refinement of `JournalRegister` |
| `media_session` | 36 371 | 2 retries, 1 further rendition | machine and job in step; opens and seeks end |
| `site_log` | 502 830 | 4 changes | a complete copy exists; the refinement of `SiteMemory` |
| `decoder` | 159 882 | 2 surfaces, 2 jobs, 3 sound blocks, half a muxed stream at a time | exclusive use of surfaces and blocks; a seek ends |
| `tab_navigation` | 717 596 | 2 addresses, 3 tabs, 3 and 2 history entries, 4 in all | snapshots keep up; the refinement of `TabbedHistory` |
| `fetch_scheduler` | 204 128 | a scheduler of 2 slots and one of 1, 2 requests for the page, 1 lane, pools of 3 units, bodies of up to 2, 1 redirect | the shared ledger; lanes and requests agree; delivery; a held page is quiet; requests end; the refinement of `TransportLease` |

Why the bounds are enough.

* Network. A snapshot is read for whether a lease count is zero, and a retained
  count only for being non-zero, so two leases cover empty, non-empty and
  changing counts. Profiles are compared for equality only. Two slots let one
  retire while another does not. Three units with chunks of two give a full
  chunk, a tail, and a partial take of each.
* Updater. Two signed releases give an upgrade and a downgrade, the Developer
  channel a candidate above both. Five generations (`MaxGeneration`) are an
  install, a start, a confirmation and one more of these.
* Media. `MaxAttempts` is the code's own cap
  (`PSP_MEDIA_TRANSPORT_REFRESH_MAXIMUM_ATTEMPTS`); one rendition shows the
  ladder both with and without another to try.
* Site. `MaxChanges` of four are a record before a compaction, one that it
  folds, one after it, and one after a power loss; files, recovery and swap do
  not look at how many records there are.
* Decoder. Two surfaces show one shown while the next is decoded; the ring's
  real depth is two at most. Three PCM blocks with a margin of one have a block
  in the hardware, one waiting and one being decoded. The fence's generation
  wraps after two. One draw at a time is what the frame loop has (`Readers`). A
  third surface multiplies the states by more than five and adds a second
  surface in the same state. The halves of a muxed stream share `Quiet`, the
  clock that makes a picture late and the engine's failure.
* Tabs. The device has 5 tabs, 8 and 4 entries. Three tabs are an active one, a
  sleeping one and a bystander; one entry more in the engine than in a tab
  makes the window slide; `FewEntries` bounds all histories together.
  Symmetry over addresses is sound: they are compared for equality only and
  the run checks no liveness.
* Fetches. A page of two slots and a frame of one share a limit of two, so the
  limit refuses what a scheduler's own slots would not. They compete for one
  lane: while it serves, retires or is lent to another, the second request
  waits, passes or ends. One redirect is both a hop that is followed and one
  beyond the limit. A pool of three units holds one body of two and not two.
  The run has liveness and uses no symmetry.

The run `liveness` restricts `Activities`, the environment, and not the code:
what it leaves out (warm-up, multiplayer, media, offline items) only raises or
clears a demand or holds a lease, and is in `lifecycle`.
`CHECK_DEADLOCK FALSE` is set where the system may stop: a program that has
exited (`Halted`), and a playback that reported a failure.

Properties worth a comment:

* `TeardownHasRelease`, `WedgeNeedsRelease`: a timeout is never permission.
  `TransferOwnsStack` is the driver's counterpart, with real leases instead of
  reported ones.
* `BeliefIsTrue`: what the machine believes about the stack is true, the gate is
  open over a full stack only, and the ladder's status tells which services are
  up.
* `ForegroundLadderIsOwned`: the blocking connect never pumps a ladder the
  supervisor has taken away from it.
* `QuiesceCoversAll`: once quiesce has been asked for, every live consumer has
  been told, also those admitted between two pumps.
* `CancelsItsOwn`, `EveryByteOnce`, `LeaseEnds`: the slot protocol's purpose.
* `KnownGoodLaunches` speaks of the disk and of the card at once, so it holds at
  the next boot too, wherever power is lost. `OneUnattendedTrial` has one
  exception, a card that refused to flush the record of the first start.
* `FloorKept` compares the card before and after a step: a card that saves late
  may skip what was on record in between, so its floor may fall from a release
  to one above an older release the user picked, and to no other.
* `OpeningInStep`: the reducer counts the phases of an open and so does the
  job; both have as many left, through retries, renditions and reopening.
  `CheckpointHolds` is the check the driver samples at run time, in every state.
* `CompleteCopyExists`: at whatever step a call stops, what the next start would
  recover is the newest change. `ImplementsSiteMemory` adds power loss: changes
  are lost from the newest backwards, never from the middle.
* `EngineWritesItsSlot`, `BlocksOutliveOutput`: a second core and the output
  hardware only touch memory that is theirs at that moment.
* `TabOwnsHistory`: leaving a tab and coming back finds the same place.
* `FinishedIsDelivered`: two counters on two threads, the worker's of a finished
  hop and the consumer's, agree whenever a pump may compare them.

Typing is part of the inductive invariants that section 5 proves, so no run
spends itself on it. `TransportSlot.BufferOfItsPool` is proved as well and is
not part of the runs.

### Fairness

`NetworkLifecycle`: the browser thread keeps running inside a blocking call and
every firmware wait in it is bounded by a timeout of the code (weak fairness);
the frame loop pumps the supervisor and the session once per frame whatever
else the frame does, and the frame loop is left and re-entered (strong
fairness); a worker that was told to stop stops, because each of its waits is
bounded (weak fairness). The user, the page and the link owe nothing: no
property assumes a healthy link or a cancel.

`TransportSlot`: each thread blocks often enough for the other (strong fairness
of each thread's steps); a transfer performed again and again ends, as its
deadline does; a queued request meets a free buffer; a client that keeps a
request drains and takes it, as the fetch pump does every frame.

`MediaSession`: a frame pumps an open or a seek that is due, and the deadlines
of `psp_media_open_watch` and of the seek end a unit that never ends its phase
(weak fairness of either pump, written over the mark it leaves). A user who
keeps asking for something else may postpone the end for ever, so the liveness
properties except behaviours with infinitely many requests.

`DecoderPipeline`: worker, Media Engine and audio thread run (weak fairness;
strong for the engine's sound, which shares the engine with conversion
batches); a draw ends within its frame, since the presenters wait for the
graphics engine (`psp_app_runtime.c`); every frame polls a pending seek once
between draws, through `advance` (strong fairness of `Proceed` and `Restart`).
No deadline is assumed to pass: a seek ends because the queue empties or the
failed engine is restarted. With two overlapping draws that alternate for ever
it would not; the frame loop has one at a time.

`FetchScheduler`: the browser pumps each scheduler again and again (strong
fairness, since a pump excludes the others), a pump runs to its end, the worker
starts, ends and retires what it has, at the latest at the hop's own deadline,
and time passes (weak fairness). Nobody owes a free lane: a request that never
gets one ends at its deadline.

## 4. Where code and documents disagree

One run expects a violation; `PROJECT.json` quotes the sentences under
`findings`. `worker_owns_stack`: neither worker may be omitted from teardown,
but the lease count leaves multiplayer out, so a stop without requests in
flight skips the drain.

### Met while modelling

These were found with the models above or while writing them. Those with a name
in brackets were seen as a counterexample of that property.

Network and transport:

* `rejoin_active` survives an interrupted rejoin, and a
  resumed link inherits the old operation with its old start time
  (`psp_app_network.c:303`, against PSP_NETWORK_SUPERVISOR.md:171-172). The
  full restart that follows repairs it.
* a suspend in the middle of the unwind is retargeted by
  `machine.stack`, still full, and ends in Offline with a start failure instead
  of SuspendedOff (`psp_network_supervisor.c:238`).
* a ladder that had built nothing stays active in Off
  (`psp_network_supervisor.c:194`).
* [`NoOrphan`, `AbortsWhatWasCancelled`, `BufferOfItsPool` with
  `Presenting = TRUE`] the slot protocol leans on the worker outranking the
  browser. While it presents a picture the browser outranks the worker, and a
  cancel between the worker's load and store leaves a finished slot without an
  owner (`background_transport.inc:1372`), the tail is published over a chunk
  the browser is draining (1387), a stale cancel flag aborts the next request
  (1751), and a stale streaming flag picks the wrong pool (1762).
* No driver dispatches `Retry`; the else branch of `RejoinFailed` and the
  healthy-probe branch of the connect path (`psp_app_network.c:695-703`) are
  unreachable.

Updater:

* [`KnownGoodLaunches` with `Openings = {"Trial", "Settled"}`,
  `InitialImages = {1, 2}`, `LauncherSequence = 1`] an update session opened
  while a trial is in progress keeps the record it loaded
  (`psp_update_session.c:310-316`). Once the trial is confirmed, the slot it
  calls inactive is the running one; an install retires and overwrites it
  (`update_installer.c:461-473`), and the store of its record is then refused
  as not newer (`update_journal.c:116-118`). The journal names as active a slot
  whose image nobody tried, against SECURE_UPDATES.md:919. The run opens
  sessions only when no trial is in progress (`Openings = {"Settled"}`).
* `previous` is called a known-good slot (SECURE_UPDATES.md:767), but the
  recovery button picks it without asking what has been installed there since
  (`update_state.c:150`). `BootsProvenOrOnTrial` excepts that boot.

Media:

* `psp_media_resume` re-arms the open for a visible player only
  (`psp_media_session.c:1504-1510`) but dispatches RESUME for every one, and
  Suspended with a plan enters Opening (`psp_media_state.c:714-741`). A hidden
  retained player is then Opening with nobody to pump it (3316), the state that
  the comment at 1576-1582 calls a defect.
* A page's retry (`psp_media_session.c:2046-2054`) is dispatched in whatever
  state the machine is in; while it quiesces it is ignored, and the page goes on
  showing that it resolves.
* A failed panel may be raised over a machine that is Playing (4116, 4204);
  BACKEND_QUARANTINED is possible with Opening as the quiesce target; an OPEN on
  FAILED under a fresh generation is ignored; a buffering episode is not closed
  when playback is interrupted.

Site storage:

* A failure of `fopen` or `rename` in `stick_load` that passes makes the site
  load as empty with `file_bytes` 0, and its next write truncates the unread log
  (`stick_create`, `w+b`), against the comment at
  `session_site_storage.c:793-795`.
* A backup whose removal fails (634, 792) and a torn append later make the next
  load prefer the backup, and every later write is lost, against
  STORAGE.md:527-531.
* Records beyond a damaged one may come back after it is overwritten by one of
  equal length.
* [`ImplementsSiteMemory` with `ClearsUnloaded = TRUE`] a clear of a site that
  is not loaded removes the log before a leftover rewrite (988); power lost
  between the two leaves the rewrite, perhaps partial, to be loaded.

Decoder:

* `swdec_reset_perform` clears `quarantined` although the comment at
  `psp_media_present_session.c:406-409` says the reset consults it; not
  reachable on the software presenter's path.
* A drain hands out a flush job while the engine is down, against the comment at
  `media_backend_psp_swdec.c:2209-2216`; harmless, since recovery waits for the
  ring.

Fetching:

* `scheduled_background_finish_hop` asks whether the hop is complete, not
  whether its headers were delivered (`scheduler.inc:1857`). When the worker
  publishes the headers and ends a hop without a body (a redirect's is
  discarded) between `deliver_headers` (2085) and `finish_hop` (2102), the 3xx is
  taken as the final answer: the hop is not advanced and the checks on its
  headers are skipped, against SECURITY_MODEL.md:73-76. In `FetchScheduler` it is
  a request with `ok` and the reply `"Redirect"`.
* `scheduled_background_deliver_chunk` hands on a ready chunk whatever is left
  of the pump's quota, whose unsigned counters then wrap
  (`response_stream.inc:558`), against fetch.h:530-534.
* A pump's cursor moves one slot a pump (`scheduler.inc:2252`); since it stops
  only at its limit of completions, no slot is passed over for a whole round.

Navigation and tabs:

* Circle during the pump that commits (`psp_script_main.c:5101-5108`): the
  engine shows and records the page, the frontend settles a cancelled load and
  undoes the tab request, although `psp_tabs.c:152` calls the page commit
  authoritative. `SettleCancelled`, excepted by `astray`.
* A refused history copy (`psp_tabs.c:148-164`) resets the tab to one entry, but
  the engine keeps the previous tab's history, which the next capture writes
  over the tab. `LimitedTab`.
* Cancellations that do not pass `psp_tabs_finish` (`psp_script_main.c:915`,
  `psp_app_activation.c:36`, the settings that reload) leave the transition
  pending: tab requests are refused until some load succeeds, and that load is
  taken for the tab's.
* The armed replacement is consumed when a load begins (`load_state.inc:978`),
  so a redirect to a site adapter (`browser_engine.c:3129-3147`) or the search
  fallback (2992-3010) commits under the old entry, against the comment at
  2987-2991. `Misfile`.
* A retry of an interrupted or failed load runs without recording
  (`psp_app_actions.c:890`), so a new page, or the target of a Back, is shown
  under the entry of the page before it. `Misfile`.
* After a low-memory retirement a failed Back leaves the cursor at its target.
  `LosePage`.

## 5. What is proved

### The network supervisor

`NetworkProofs` proves of the supervisor, for every set of profiles and every
lease bound (assumptions `ProfilesAssumption` and `MaxLeasesAssumption` of
`NetworkReducer`):

| Theorem | Statement |
|---|---|
| `Inductive` | `SupervisorSpec => []SupervisorInv` |
| `TypeCorrect` | `SupervisorSpec => []SupervisorTypeOK` |
| `Consistent` | `SupervisorSpec => []MachineIsConsistent` |
| `TeardownIsReleased` | `SupervisorSpec => []TeardownHasRelease` |
| `WedgeIsKept` | `SupervisorSpec => WedgeNeedsRelease` |
| `Refinement` | `SupervisorSpec => ImplementsCustody` |

The argument. None of the four invariants is inductive alone: that the gate
follows the machine needs the admission rule of `NoViolations`, a teardown's
release needs the child phases, and all of them need types. Their conjunction
`SupervisorInv` is, and no further strengthening is needed, which is worth
knowing: the violation check that the code carries for its tests is exactly an
inductive invariant once the gate and the release record are added. The proof states the
effect of each `Enter...` helper field by field, then one *arrival* lemma per
destination state (a decision with these fields satisfies the invariant and is
a step of the custody protocol), then one lemma per event, and `DispatchStep`
turns a decision into a step. `WedgeIsKept` and `Refinement` are the same
lemmas' second and third conclusions, so each event is analysed once.

### The network frontend

`NetworkProofs` again, for any set of slots within the lease bound, every
profile and every choice of activities (`SlotsAssumption`, `ProfileAssumption`,
`MaxLeasesAssumption`):

| Theorem | Statement |
|---|---|
| `InvariantHolds` | `Spec => []IInv` |
| `TypesHold` | `Spec => []TypeOK` |
| `BeliefsAreTrue` | `Spec => []BeliefIsTrue` |
| `TransfersOwnStack` | `Spec => []TransferOwnsStack` |
| `ForegroundLadderOwned` | `Spec => []ForegroundLadderIsOwned` |
| `QuiesceCovered` | `Spec => []QuiesceCoversAll` |

`IInv` is `Coherent(World)` and `Placed(World, browser)`. `Coherent` says what
each state of the machine knows of the rest of the frontend: which services are
up and what the ladder reads (`StackFits`), that a lease lives only over a
serving stack that is not being unwound (`LeasesFit`), which rungs the unwind has
still to take down (`UnwindFits`), and that a requested quiesce covers every
operation and belongs to a stop or a wedge (`QuiesceFits`). It is stated of a
world and a machine separately, because inside a handler the one moves before
the other. `Placed` is needed because the code relies on where its browser
thread is: a retained stack, a suspend's request and a stop on its way to
retention exist only while the device falls asleep, sleeps or wakes, and a stop
that inherits a wedge's quiesce is begun only where a blocking stop pumps it to
its end. Without that an admission could reopen under a quiesce that is still on
record. `Awake`, `Settles` and `Wakes` are the three strengths of that fact, and
say which places a world may be brought to.

The proof first lists the shapes a machine can have in each state (`Starts`,
`Rests`, `Serves`, `Rejoins`, `Retains`, `Stops`), then what each event of the
reducer makes of a shape, then that each operator on worlds (`Request`, each
stage of the pumped stop, ladder, rejoin, session pump, blocking calls and their
returns) keeps `Coherent`; an action is a chain of these, with one lemma each.
TLC checked the same `IInv` on the instance of run `lifecycle` before.

### The updater

`UpdateProofs` proves of the journal alone, for every set of releases, every
generation bound and every behaviour of the card (`UpdateAssumption`,
`SyncAssumption`):

| Theorem | Statement |
|---|---|
| `JournalInvariant` | `JournalSpec => []JournalInv` |
| `JournalImplementsRegister` | `JournalSpec => ImplementsRegister` |

and of the installation over it, when an update session is opened only while no
trial awaits its confirmation (`Openings \subseteq {"Settled"}`; section 4 says
what the code does otherwise):

| Theorem | Statement |
|---|---|
| `IInvHolds` | `Spec => []IInv` |
| `TypesHold` | `Spec => []TypeOK` |
| `HealthySlotLaunches` | `Spec => []KnownGoodLaunches` |
| `OneStartUnattended` | `Spec => []OneUnattendedTrial` |
| `HandsOffProvenOrTrial` | `Spec => BootsProvenOrOnTrial` |
| `FloorGoesDownByChoice` | `Spec => FloorKept` |
| `InstallationImplementsRegister` | `Spec => ImplementsRegister` |

`JournalInv` is typing and one fact: while a store replaces a copy, that copy is
not the one the program reads, and what it will write is newer. From it,
removing the stale copy leaves the read value (`RemoveKeepsLoad`), and the
rename makes the new one the read value (`RenameIsRead`); so each file operation
is a stutter or a write of the register.

That a healthy slot launches says nothing of what is about to be read, so `IInv`
judges each record where it is: on the disk, on the card, in a store that has
not replaced a copy yet (`Incoming`), in the launcher's or the browser's memory
(`Launcher`, `Browser`) and in an update session (`Updating`). Wherever it is,
its active slot holds a proven image and its floor is `Above` that of the disk,
by order or by the user's choice; the installer works in the slot that is not
active, because the session's record has the same base as the one on the disk.
That last part is what an opening during a trial breaks. `Starts` carries
`OneUnattendedTrial`: after a flushed start no record on disk, on the card, in
memory or on its way says that the trial is pending.

### The transport slot

`TransportSlotProofs`, for every size of body and chunk:

| Theorem | Statement |
|---|---|
| `OwnerInvHolds` | `Spec => []OwnerInv` |
| `FreeSlotsAreIdle` | `Spec => []FreeIsIdle` |
| `ScheduleInvHolds` | `Spec => []ScheduleInv` if `Presenting = FALSE` |
| `CancelEndsItsOwnRequest` | `Spec => []CancelsItsOwn` if `Presenting = FALSE` |
| `BytesAreHandedOutOnce` | `Spec => []EveryByteOnce` if `Presenting = FALSE` |
| `BuffersOfTheirPool` | `Spec => []BufferOfItsPool` if `Presenting = FALSE` |
| `SlotMovesAsALease` | the safety half of `ImplementsLease`, if `Presenting = FALSE` |

`OwnerInv` needs no schedule: each state of the slot names the thread that may
touch it, and a curl handle goes with a running slot that is not being
published. Everything else needs the worker to outrank the browser, as section 4
shows, so `ScheduleInv` first says which pairs of stages can occur at all
(`Scheduled`), then that what a thread read a step ago is still true when it
acts on it (`Flags`, `Locals`), and that the bytes of a body are in the buffer,
published, or with the owner (`Contents`, `Whole`). `BuffersOfTheirPool` needs one
fact more, `PoolInv`: the streaming flag the worker chose a pool by has not
changed when it claims the slot.

### The fetch scheduler

`FetchSchedulerProofs`, for any views, slots, lanes, pool, sizes and redirects
that the module's assumptions allow:

| Theorem | Statement |
|---|---|
| `IInvHolds` | `Spec => []IInv` |
| `LanesOwned` | `Spec => []LanesAreOwned` |
| `FinishedDelivered` | `Spec => []FinishedIsDelivered` |
| `HeldQuiet` | `Spec => []HeldIsQuiet` |
| `LedgerExact` | `Spec => []LedgerIsExact` |
| `TypesHold` | `Spec => []TypeOK`, with its limits |
| `LanesMoveAsLeases` | the safety half of `LanesAreLeases`, if there is a lane |

The heart of `IInv` is `Ties`: a request that has a lane and a lane that has a
client know each other, agree on whether the headers were given out, and account
for every byte of the hop between them. A step makes a tie, moves it along or
cuts it at both ends at once, and there is one lemma for each of the three; an
action is then a use of one of them. `Turns` says which request a pump between
two steps is at, `Quiet` what a hold leaves, with the one exception the code
has: a pump that is about to begin a next hop.

### The decoder

`DecoderPipelineProofs`, for any number of surfaces, blocks, draws, generations
and any margin, and the ring's one or two jobs (`PipelineAssumption`):

| Theorem | Statement |
|---|---|
| `IInvHolds` | `Spec => []IInv` |
| `EngineWrites` | `Spec => []EngineWritesItsSlot` |
| `SurfaceOwned` | `Spec => []SurfaceHasOneOwner` |
| `BlocksOutlive` | `Spec => []BlocksOutliveOutput` |
| `NothingOld` | `Spec => []NothingOfOldStream` |

`IInv` has four parts. `PictureInv` is the ring with at most one running job,
the handshake over the claim (where the engine's look, announcement and re-check
stand against the worker's offer and withdrawal) and who writes or shows each
surface. `SoundInv` is the fence, which once down has parked the output under
the present generation, and the room that the margin keeps between decoding
and output. `AllNew` is what a seek has replaced, and `Still` that its last
steps run only while worker, engine and output rest. Jobs are collected by an
injective map on positions, so that what remains of the ring keeps its order.

### The site log

`SiteLogProofs`, for any number of changes, when a site is cleared only after it
was loaded (`ClearsUnloaded = FALSE`; section 4):

| Theorem | Statement |
|---|---|
| `IInvHolds` | `Spec => []IInv` |
| `CopyExists` | `Spec => []CompleteCopyExists` |
| `RemembersChanges` | `Spec => ImplementsSiteMemory` |

At any step the three names hold one of four pictures: no log, the log in place
with what there is of a rewrite, the log moved aside, and the rewrite in its
place beside the old log; all but the first name a last change. `DiskInv` says that disk and card each are one, the
card's no newer; `CallInv` which picture the call in progress has reached. Each
file operation, failed or not, turns a picture into a picture of the same
change, and only an append makes a newer one; power loss takes the card's. So
recovery, which picks from any picture its last change, loses the newest changes
and no others.

### The media session

`MediaSessionProofs`, for any number of retries the driver may charge and of
renditions a page may offer (`SessionAssumption`):

| Theorem | Statement |
|---|---|
| `SessionIsFit` | `Spec => []IInv` |
| `SessionTypes` | `Spec => []TypeOK` |
| `OpeningStaysInStep` | `Spec => []OpeningInStep` |
| `CheckpointAlwaysHolds` | `Spec => []CheckpointHolds` |

Neither property is inductive. `OpeningInStep` counts the phases still to go,
which says nothing of which phase the job is really in, and the job's next unit
depends on that; `CheckpointHolds` excuses a machine that still quiesces, so
nothing in it says what is left when the stop has ended. `IInv` is `Fit`, between
the driver's calls: the machine has one of four shapes and the session owns and
does what fits it. It *rests*: nothing owned, no job, and the plan kept exactly
where a retry may want it. It *opens*: a job, once begun, is at the phase that
stands beside the chart's. `Alike`, `OfPage` and `OfSplit` are those pairs for the
three orders in which sources open, and `InStep` adds that machine and session
agree on what the resolver learned about the streams. It *plays*: all of the
pipeline, a seek as the only job, and in every state but Dormant a visible
player. It *stops*: no job, and a stop that keeps a whole pipeline over a frame
belongs to a session that failed, so nothing rolls or seeks on it until the
pipeline is destroyed. To this `IInv` adds that a suspended system has a
suspended machine.

The proof states what each event of the reducer makes of each shape
(`GoesOn` to a playing machine, `BeginsStop` to a stopping one, and so on), then
that each operation of the driver takes a fit session to a fit one, and chains
those per action; `FitIsInStep` turns the pairs into the counts and
`FitHoldsCheckpoint` goes through the consistency check of the chart shape by
shape. TLC checked `IInv` on the instance of run `media_session` before.

### Tabs and history

`TabNavigationProofs`, for any addresses, any number of tabs and any limits of
the two histories with the tab's within the engine's (`LimitsAssumption`):

| Theorem | Statement |
|---|---|
| `IInvHolds` | `Spec => []IInv` |
| `TabOwns` | `Spec => []TabOwnsHistory` |
| `TypesHold` | `Spec => []TypeOK` |
| `WholeHolds` | `Spec => []Whole` |
| `FiledPageStands` | `Spec => []FiledPage` |
| `TabsImplement` | `Spec => ImplementsTabbedHistory` |

`TabOwnsHistory` speaks of the moments between loads and is kept by none of the
steps that end one. `IInv` says what holds during a load. It is stated of the
*owner*, the tab a failure goes back to, and of the history that a failure
restores: the owner's snapshot is that history (`Kept`) and the page shown is
the one under its cursor (`Filed`), wherever the moved cursor or the selected
tab are at that moment. A commit needs the counterpart for what is on its way:
a load that adds no entry, takes none over and is not out of place is for the
entry under the moved cursor (`JobStands`). `TabsFit` says that at most one tab
sleeps and that the card then has a history, so waking one never reads a file
that is not there.

`FiledPage` is `Filed` as the user sees it: at every moment, not only between
loads, a page under the wrong entry came there by `Misfile` or `LimitedTab`.

The refinement needs more, which `Whole` adds: a load is begun in one way and
its cursor moves by one (`LoadStands`); while a tab request waits, the tab that
is left keeps a window of what was shown, the tab made for it has one entry,
and the tab that closes has its neighbour for a target (`LeavingStands`). Every
action then is of one of four kinds. Most change nothing that is seen, or lose
the page (`RestIsStutter`). A commit in place is a visit, a replacement, a
reload, a traversal or a page without an entry, by how the load was begun
(`LandsAsLoad`). A commit of a tab request switches, opens or closes, or ends in
`LimitedTab` (`SwitchMade`, `OpenMade`, `CloseMade`, `LimitMade`). And a tab that
is not active closes at once (`CloseTabCloses`). `SeenIs` describes the mapped
tabs element by element, so that each of these compares two sequences. TLC
checked the parts of `Whole` on the instance of run `tab_navigation` before.

### What stays model-checked

Of the properties the runs check, all safety is proved. All liveness and the
fairness halves of the refinements stay with TLC (`DemandOutlivesStop`,
`BlockingCallsReturn`, `RecoveryNeedsNoUser`, `LeaseEnds`, `OpenSettles`,
`SeekSettles`, `SeekEnds`, `RequestsEnd`, and that `ImplementsLease` and
`LanesAreLeases` end): fairness and ENABLED are outside the prover. Two hypotheses, `Openings` and `ClearsUnloaded`,
and `Presenting = FALSE` exclude what section 4 shows to fail; the theorems say
that nothing else does.

## 6. Plan

Modules: `PublishedValue` (64-bit values to a reader that outranks the writer),
`DomHandles`, `FramePumps`, `VoiceJob`, `ClockWorker`; the pipeline inside a
load, with its liveness.

## 7. Not modelled, and why

Parsing, layout, style, rendering, fonts, images, Reader, provider adapters
and content policy are sequential computations over large data. The UI and
diagnostics have no property of their own. Cryptography and vendored libraries
are taken as given; libcurl, the Memory Stick driver and the firmware appear as
their possible answers. A failure of the worker to restore its own priority
(`background_transport.inc:2718`) is not an action: the firmware documents none
for a live thread. What the modelled components leave out is listed with each
module in section 2.
