# A TLA+ development of the H27 video wall

The repository is the software of a nine-channel video wall on a HiSilicon
board: a player that decodes nine RTSP streams and shows them in layouts the
operator chooses, and the small programs around it. This directory holds TLA+
models of its parts, the TLC runs that check them, and proofs for TLAPS.

    tlc -workers 2 -config OneAtATime.cfg MCDisplaySwitch.tla
    tlapm DisplaySwitch_proofs.tla

`PROJECT.json` lists the runs, the mutants (one plausible bug per property, an
operator of the module it belongs to, marked `Mutant`), the source lines every
definition stands for, the hazards of the code and the findings.

## 1. Inventory

### The player (`h27vdec`, `live/mediaClinet`)

One process, its threads started by `main()` of `sample_vdec.cpp`:

| part | state it keeps | operations |
|---|---|---|
| start-up, `sample_vdec.cpp`, `sample_comm_vdec.c` | what the MPP holds for the process, the group started last, per reader a control word | `SAMPLE_H264_VDEC_VPSS_VO()` step by step with its END labels, the console (`CmdCtrl()`), start and stop of the readers |
| layout switcher, `do_switch.c` | `previous_mode_all`, `previous_tow_mode`, `current_vdeio_display_mode`, `who_in_pos9`, `cmd_confirm`, `witch_mode_4`, `msg->pos[]`, `msg->bck_not_show[]` | two signal handlers (`KeyValueSlot` for the remote, `signal_key_handler` for the panel), `response_command()`, `set_cmd()`, `do_switch_all()` |
| window bindings, `sample_comm_sys.c`, `sample_comm_vo.c` | which VPSS group feeds which VO channel, which VO channels are enabled (in the MPP driver) | bind, unbind, start and stop the windows of a layout |
| window titles, `osd/` | OSD regions and a table of 48 logos | create (destroys on failure), destroy |
| ring buffer, `fifo_buffer.c` | per channel 24883200 bytes, `windex`, `rindex`, `windexEndPos` | `readDataToBuff()` by the RTSP client, `SAMPLE_COMM_VDEC_SendStream()` by the decoder thread, clear by the client when `bck_not_show` is 1 |
| RTSP client, `testRTSPClient.cpp` | per stream a client, a session, its sinks and handlers; `rtspClientCount` | `openURL()`, the answers to DESCRIBE, SETUP and PLAY, BYE, the end-of-stream timer, `shutdownStream()` |
| LED threads, end of `do_switch.c` | `led_ctl`, a condition variable, the lamps, open files | run the LED test; show `/led_ctl.txt` on the lamps |

The parts share the structure `MESSAGE` and one process mutex. A key raises a
signal, its handler calls the switcher, the switcher calls the MPP and the OSD
and sets the mute flags; the RTSP thread reads a channel's mute flag before
each frame and either clears that channel's ring buffer or writes the frame
into it; nine decoder threads read the ring buffers without knowing of layouts.
The RTSP thread ends the process when its last stream ends; the console ends
the readers and gives the pipeline back.

What is hard here: the two handlers interleave, on two threads, one on top of
the other, or on top of a thread that holds the mutex; each takes the mutex in
several short sections and reads and writes the globals between them; the
layouts are written in five separate places (bindings to make, bindings to undo,
titles to draw, titles to clear, channels to mute) which must agree; the writer
of the ring buffer checks nothing at all and depends on the reader to wrap it;
the reader looks for the end of a frame and sends it outside the mutex; a
handler of the RTSP client may be called from within the call that sends its
command, and free the client its caller works on; every step of the start-up may
fail half-way through the channels; the two LED threads write the same lamps.

What makes it correct: the wall shows a layout and never a mixture of two;
exactly the channels of that layout are fed; titles, cursor and confirm key say
what is there; a key press ends; a frame that goes into the ring buffer comes
out once, whole and in order; a stream is opened, plays and ends once, and
nothing of it is left behind; what the start-up took is given back, in an order
in which nobody uses it any more.

### The other programs

| part | state | operations | correct when |
|---|---|---|---|
| key driver, `infrared/In_Interrupt` (kernel module) | one timer, one saved pin and key value, the process to signal | interrupt, debounce timer, read | no edge is reported twice, keys that do not overlap all are, of the others the last one |
| display-unit monitor, `service` | place in the cycle of questions, values and count of the answers, `/led_ctl.txt` | ask one question every 300 ms, receive or time out, judge after ten answers | the word is "no" if and only if the unit has a fault |
| LED test program, `infrared/Out_Value` | GPIO files | write | pure I/O |
| health screen, `uidemo20201208` | a socket and gauges | poll, draw | pure display |

The monitor and the player meet in the file `/led_ctl.txt`, the key driver and
the player in a signal and a read. `service-20200111bck` is an older copy of
`service`. live555 (`live/*` but `mediaClinet`), the HiSilicon sample and
library files and `osd/hh_hz16lib.c` are third-party: of the 207745 lines of the
repository these, `qrc_main.cpp` and the headers are by far the most, and a
model of them would not be one of this system.

The hazards of the code, each at its line, are the list `hazards` of
`PROJECT.json`; each names the properties that would show it going wrong.

## 2. The modules

| module | what it is | source |
|---|---|---|
| `WallLayout` | the layouts, as pure operators on sets: bindings made and undone, windows enabled, channels muted, titles drawn and cleared | `do_switch_all()`, the mute code of `response_command()`, the MPP and OSD calls |
| `VideoWall` | the abstract wall: one action, which shows the picture of a mode, whole | - |
| `DisplaySwitch` | the switcher: handlers, sections, globals, cursor, titles; refines `VideoWall` | `do_switch.c` 35-1296 |
| `MCDisplaySwitch`, `MCHandlerRace` | `DisplaySwitch` with one key at a time, and with a bounded number of key presses; their keys and devices | - |
| `FrameQueue` | the abstract buffer: a queue of whole frames | - |
| `RingBuffer` | one channel's ring buffer, its writer, its reader, the switcher's two flags; refines `FrameQueue` | `fifo_buffer.c`, `afterGettingFrame()`, `SAMPLE_COMM_VDEC_SendStream()` |
| `StreamPool` | the abstract client: streams opened one after the other, each for once, and a process that ends with the last one | - |
| `RtspClient` | the client on the event loop of live555; refines `StreamPool` | `testRTSPClient.cpp`; live555 as far as it calls back |
| `Player`, `MCPlayer` | start-up, console, readers and unwinding, beside a `StreamPool` and the layout switches of the keys; a layout of each family | `sample_vdec.cpp`, `sample_comm_vdec.c`, `do_switch_all()` |
| `KeyDriver` | pin, interrupt, timer, signal, handler | `Int_Gpio_Drv.c`, `signal_key_handler()`, `main()` |
| `BoardMonitor`, `MCMonitor` | the monitor and the unit it asks; its cycle and faults | `service/` |
| `LedPanel`, `MCHealth` | the two LED threads, EXTENDS `BoardMonitor`: the word goes from the unit to the lamp | `do_switch.c` 1299-1402 |
| `<module>_proofs` | the theorems about a module, section 4 | - |
| `DisplayCursor_proofs`, `RingLap_proofs` | what the operator sees, after `DisplaySwitch_proofs`; the geometry of the ring, before `RingBuffer_proofs` | - |

### DisplaySwitch

Every section under the mutex is one action, every access to a global outside
it one more. A handler's way is `Press` (signal, key lookup, first `switch` of
`set_cmd()`), then for the move keys `Lock`, `Adjust`, `Check` (unlocked),
`Lock`, `Move`; for the test key `Lock`, `Test`, `Lock`, `Signal`; and back in
`response_command()` `Confirm` (writes `cmd_confirm`, unlocked), `Accept`
(reads it again, unlocked) and, if the key executes, `Lock`, `Switch`, `Mute`.
`Switch` and `Mute` are one section of the mutex and two actions, since
`cmd_confirm` is read again between them while the other handler may write it.

The driver signals the process, not a thread. A member of `Handlers` is one run
of a handler, of the remote or the panel (`Device`), so that two keys of one
device can be under way on two threads. Where a run was taken is `under`: on one
of `Threads`, those that take the same mutex in their loops (readers, RTSP client, LED
pattern; here they `Take` and `Release` it, no more), on a run of the other device
if that has not itself interrupted one, or, `None`, on a thread that never holds
the mutex. What is interrupted stands still until the handler returns, inside its
section or not. With `Nested = FALSE` only the last is allowed.

`Garbage` is what the uninitialised `move_complete_cmd` may hold. The word
behind `bck_not_show[8]` is entry 9 of `mute`: the loop that resets the flags
writes ten of them. Titles are kept as regions with a window, the channel they
name and whether they are in the selection colour; creating one on a window
that has one destroys it, as `HI_Create_Osd_Reg()` does.

### RingBuffer

A byte is the frame it belongs to and whether it is the first of it. The
writer is `Arrive`, `Look` (the unlocked test of the mute flag), and `Write` or
`Clear` under the mutex; the reader is `Wait`, `Addr` (take the pointer),
`Scan` and `Send` (unlocked) and `Update`. `SwitchLayout` is what
the switcher does to this channel: it clears and sets the mute flag and, on
channel 0 (`IsFirst`), overwrites `windexEndPos`. A frame may run past the end,
even be larger than the buffer (the RTSP client receives into 30000000 bytes). On
the last channel (`IsLast`) it then lands in `pos`, `bck_not_show` and
`windexEndPos`: the flag and the end of the lap become any of `Damage` or -1, and the
index, taken back by one buffer only, may stay outside. `spill` remembers that a
write or a read has left the buffer. `Lag` bounds how many frames
the reader may be behind, the assumption the code makes about the decoder.

### RtspClient

The client is single-threaded: an action is what one call of the event loop
does, down to its return. A command is answered later by a call of its handler,
or at once if it cannot be sent, so `openURL()` may end the client it has just
made and a failing SETUP goes on to the next subsession within the same call
(`nextRequest` chooses how far). The connection is `down`, `pending` or `up`;
`Sent` says in which states a command awaits its handler, from what
`sendRequest()` of live555 does. `Connected`, `ConnectFails`, `ConnectionLost`,
`SendAgain` (redirects and passwords), `Refused`, `Described`, `SetUp`, `Played`,
`Bye` and `TimerFires` are what the loop may deliver. `LaxServer` allows a server
that accepts a SETUP and names no transport: live555 then asks for PLAY
without a sink, and the two properties that speak of sinks say so.

### Player

`mpc` is the main thread at a step of the start-up or at an END label. A step
does its work for the channels in order and either succeeds or stops at some
channel and jumps where the code jumps. `VpssGrp` is kept because the unwinding
counts down from it. `Switch` is a layout switch of a key, at any moment the
process lives: here it unbinds the pairs of `layout`, the mode before, and binds
those of one of `Layouts`, in one step, since it is one section of the mutex
(`DisplaySwitch` has the rest of it). `Bind` takes from the MPP that a window
has one source and a group must exist; a pair stays bound until it is unbound,
also when its group is destroyed. The readers are here only from start to end
(`RingBuffer` has their work): the wait for data, the three control words, and
the pointer they free at their end. The client is an instance of `StreamPool`,
which `RtspClient` implements: it makes data available, and ends the process.

### KeyDriver

`down` is the physical state of the keys; a press makes an edge only if it
bounces, since the interrupt is requested for rising edges alone. `irq_pd`,
`armed` and `key_val` are the module's; `pending` the one signal that can wait; the
handlers are the threads that may take it. `player` is how far `main()` is with
`FASYNC`, `F_SETSIG` and `msg`: a key before it is ready may kill it, as in
the code. `lastEdge`, `releases` and `hurried` are kept for the properties.

### BoardMonitor and LedPanel

A turn of the sender (`Tick`) is 300 ms, with what becomes of its question: the
answer, nothing, a spoilt chunk, or two of them. The receiver takes a chunk
(`Receive`) or notes a second of silence (`Timeout`), which falls after the
third or fourth turn without a chunk. The values are kept as the set of those
above their limit (`over`) with the comparison done on the byte as
`analysis_net_message()` converts it. `fault` is what is wrong with the unit,
`calm` counts turns since it changed or an answer was spoilt.

`LedPanel` adds the tester (a condition variable waited for without a
predicate), the lighter with its unlocked look at `led_ctl`, and `files`, the
streams it opens on `/led_ctl.txt` and never closes. The word is that of the file
opened, since `sed -i` puts a new file in its place. `NextPhase` assumes that a pass
of the lighter takes less than the second a phase lasts.

## 3. Runs

| run | question and result |
|---|---|
| `OneAtATime` | remote and panel, every key in any order, each key when the last handler has returned (1.95 million states, no bound on their number): the wall is always the whole picture of a mode (`ImplementsVideoWall`), shown channels are never muted, hidden ones are, the cursor stays on the layout, every window has a title, only the cursor's is highlighted |
| `Remote` | the whole remote, back key and dead ends included: whenever no handler runs, titles name the channels shown (once a nine-screen mode was chosen, and unless `witch_mode_4` names other four screens than those shown), and the confirm key does what the highlight says, except on the windows where an arrow leads nowhere |
| `HandlerRace` | two runs of the remote's handler and one of the panel's, and a thread that takes the mutex in its loop; a signal is taken on that thread, on a handler of the other device or elsewhere; three presses: the bindings stay those of one mode, bound windows are enabled, and each handler returns unless one was taken inside a section of its own thread |
| `Ring` | nine frames of two sizes through a buffer of 24 bytes, several laps: no byte is written outside, every send is a whole frame, what the reader measures is exactly the frames it has not had (`DataInOrder`), frames come out in order and do come out |
| `RingOverrun` | no bound on the lag, layout switches, a frame larger than the buffer, damage to flag and lap end: the indices stay in the buffer until a frame is written past its end, whatever is lost; after that they may leave it, but are never negative |
| `Streams` | three cameras that refuse, redirect, hang up and end in any order: the count that decides on `exit()` is right, a closed client is silent, PLAY goes to what was set up, a stream that waits for nothing can still end, no stream stays half open, and the whole is a pool of streams |
| `Player` | every step may fail, keys switch layouts at any moment, the operator pauses and leaves, streams come and go: bindings join what exists, readers are gone before their decoders, all is given back but the last decoder and windows of the layout on screen (two leaks the property names; nothing of an earlier layout is left), a failed start-up returns |
| `Monitor` | the cycle of the code, a unit that is sound, silent or has one of four faults, answers lost, spoilt or split: two cycles after the last disturbance the word says "no" exactly for a fault the monitor can tell |
| `Health` | monitor and lamps together, a test at any moment: the test shows its pattern, the panel at rest shows one colour, the word "no" reaches the lamp |
| `Keys` | keys that bounce and overlap, two handler threads, a player still starting: no edge makes two commands, slow keys all arrive, the last one wins |

Two runs show where the code departs from what is said of it (`findings` quotes
the lines):

* `RaceMutes`: two handlers at once can leave a shown channel muted: `cmd_confirm` of
  the second is read by the first between its switch and its mute flags;
* `ExitKey`: the key 'e' of the console joins readers that wait for data and
  look at nothing else; with a silent camera, or a muted channel, the player
  never exits.

More is known from the models and the code that no run repeats:

* with both handlers the wall may go dark: an arrow that moves the cursor of the
  layout just left takes it off the next one, from there the camera layout
  selects mode 113, and if that reaches `cmd_confirm` between the check and the
  switch of the other handler, 113 is what is shown (four key presses;
  `ModeKeysShowPictures` says that it takes the arrows);
* a handler taken on a reader (or on the RTSP client, the LED pattern or the other
  handler) inside its section waits for a mutex its own thread holds, for ever, and
  soon every thread with it (`SelfDeadlock`);
* left on window 0 of the nine screens, and some other moves that go nowhere,
  return an uninitialised command (`Garbage`), although the comment at
  `do_switch.c:1099` asks for a mode: what was left on the stack by an earlier move
  is then what the confirm key switches to;
* the back key restores a mode but not `witch_mode_4`, so that the arrows on the
  four screens draw titles of others (`FourKnown`);
* END7 unbinds each group from the window of its own number: after mode 141 it
  leaves (4,0) to (7,3), after 191 it leaves (1,9), and after the first layout (0,9);
* a mode key between the start of the groups and their binding to windows fills
  a window, and the start-up fails at it (`VpssBindVo`);
* the panel's rotation keys title the two lower camera windows the wrong way
  round (the arrows were corrected, these were not);
* the player starts with `who_in_pos9 = 9`, so that selecting the large window
  before the first nine-screen mode selects channel 9, which does not exist;
* the all-screens keys call `HH_OSD_Init(cmd, ...)` with a mode number, index
  190 and more in a table of 48;
* clearing a muted channel while its reader is between measuring and
  accounting leaves the read index in front of the write index;
* a switch writes -1 into `windexEndPos[0]`, one mute flag too many;
* `set_light_thread()` leaks a descriptor every three seconds, about a thousand
  passes, after which the lamps stand still for good;
* the last pattern of the LED test is what the panel shows for "ok", so that the
  lamps say "ok" until the next pass after a test;
* the alarm for the temperature cannot fire: a byte makes at most 90 degrees;
* the edge of a key within the 10 ms of another replaces it;
* a reader frees a pointer into the ring buffer at its end (`aborted`).

### Bounds

The keys are unbounded in `OneAtATime` and `Remote`: the state space is
finite. `HandlerRace` has `MaxPresses = 3`: three handlers inside at once. Its keys are
one for each way through the handler: an arrow, the confirm key, the all-screens key,
a camera layout, the test key. One thread stands for all that take the mutex, since
they do nothing else here. `Garbage = {0, 57, 105, 191}` is a value that
`response_command()` ignores, one that it stores but never executes, and an accepted mode
of one and of nine screens (the modes an earlier move can leave are 100 to 109 and
190 to 198); `HandlerRace` has `{0, 105, 191}`.

The ring's sizes are scaled: buffer 24, threshold 10, least amount 3 and frames
of 2 and 3 bytes stand for 24883200, 20000000, 1000 and a frame. What matters is
kept: a lap takes several frames, a frame may end just below, at or beyond the
threshold, and the space behind the threshold holds the frames the writer adds
before the reader wraps it. With `Lag = 3` the space needed behind the threshold
is (2 * Lag - 1) times the largest frame, and 24 is the smallest buffer that
passes: for the code, with 4883200 bytes there, this is the condition on how far
the decoder may fall behind. The frames behind must also be shorter than the
threshold, or the write index meets the read index a lap later and the reader
sees an empty buffer (with a threshold of 9, `DataInOrder` finds it). Nine
frames (`MaxFrames`) are two laps and more. `RingOverrun` has a buffer of 6 and
frames up to 9, and gives one channel the damage of both: the -1 of a switch,
which only channel 0 knows, and the overrun into `MESSAGE`, which only channel 8
does; the two values of `Damage` are one that is a mute flag and one that is an
end of lap and no flag.

`Streams` has three streams and sessions of up to two subsessions: one stream
ends while another is set up and a third not yet opened, and a refused
subsession has one before and one after it. `LaxServer` is FALSE. `Player` has
three channels, so that a step can fail at the first, a middle and the last, and
a layout of one window, one with every channel in the window below its own and
one with the large window; `ExitKey` needs two. `Monitor` has the cycle and the
window of the code, and the faults are one of each kind; `Settle = 24`, two
cycles, is the least that passes: with 23 TLC finds a counterexample. `Health`
has a shorter cycle with the same gaps, `Window = 3`, `Settle = 0` (its
properties do not ask for the truth of the word) and `MaxFiles = 4`, so that the
descriptors run out. `Keys` has three keys (a first, an overlapping one and a
bystander), two handlers and five edges.

### Fairness

`HandlerRace` assumes that a handler that can step does step (`WF` of `Step`)
that one which keeps finding the mutex free gets it (`SF` of `Lock`), and that a
thread ends its section (`WF` of `Release`): the threads are scheduled and the
sections are finite. No thread need ever take the mutex. `Ring` assumes `WF` of the
reader only: it is a loop with `usleep()`; nothing is assumed of the network.
`Streams` assumes `WF` of `openall()`'s loop and of the end of a `connect()`,
and `SF` of an answer that is not one more redirect: the client has no timeout,
so a camera that never answers does leave its stream half open. `Player` and
`ExitKey` assume `WF` of the main thread's steps and of each reader, and nothing
of operator and cameras. `Health` assumes `WF` of the two LED threads, nothing of
keys and unit. `Keys` assumes `WF` of the timer, of `main()` and of the handlers.

Deadlock checking is off where the system may stop: `HandlerRace` and `RaceMutes`
(the presses are bounded, and a handler taken inside a section of its own thread
never returns, which `HandlerReturns` states), the ring's and `Keys` (frames and
edges are bounded), `Streams`, `Player` and `ExitKey` (the process exits).

## 4. Proofs

The assumptions are those named `...Assumption` in the modules that declare
the constants; TLC evaluates them on every run. Every theorem rests on an inductive
invariant, which TLC checked on the constants of a run before it was proved.
Every invariant and every refinement of a passing run is stated by a theorem;
where it needs a hypothesis, the hypothesis is named here.

### The switcher, any handlers and keys (`DisplaySwitch_proofs`)

For every set of handlers, devices, keys and threads, any garbage, nested or not:

* `TypeCorrect`, `Spec => []TypeOK`: inductive as it stands, with one lemma for
  each operator that builds a component of the state.
* `BindingsCorrect`, `Spec => []BindingsMatchMode`: inductive, from two facts:
  what `UnboundFrom` lists is what `BoundIn` lists (`UnbindsWhatItBound`, the
  fact about two tables that the code keeps apart), and only `Switch` changes
  bindings or mode (`OnlySwitchRebuilds`). From it `OneToOne` (no channel in two
  windows, no window with two channels) and `PictureCorrect` (the windows show
  the picture of `previous_mode_all`; `BindListIsPicture` is the lemma that the
  bind list of a mode is its picture).
* `EnabledCorrect`, `Spec => []BoundWindowsEnabled`: not inductive; the
  strengthening is that the enabled windows are those of the family of the mode
  on screen, `vo = StartedBy(prev \div 10)`, with `BindingsMatchMode`.
* `NeverStuck`, `Spec => []SomeoneGoesOn`: a handler that holds the mutex is inside
  a section (`MutexHeld`), and an interrupted handler or thread is so by one active
  handler, stacked two deep at most (`Stacked`). The one on top of the holder runs;
  if it waits, it does so for its own thread, the deadlock the property names; if
  nothing is on top, the holder, handler or thread, can go on. `OwnThreadsGoOn`: if
  signals are taken only on threads that never hold the mutex (`~Nested`), that deadlock
  cannot happen. These are the safety half of `HandlerReturns`, which the run checks
  whole.
* `ModeKeysShowPictures`, `Spec => ImplementsVideoWall` for keys that do not move
  the cursor: whatever the handlers write to `cmd_confirm` is then an accepted mode
  (`ModesOnly`), so that re-reading it does no harm to the picture. The arrows
  must be excluded, see mode 113 above.

With a single handler:

* `ShownNeverMuted`, `Spec => []ShownNotMuted`: the strengthening
  `MutesMatchMode` says which flags are set in which mode, and
  `AcceptedOnTheWay` that `cmd_confirm` is an accepted mode from `Accept` to
  `Mute` and is the mode on screen in between. This last is what a second handler
  destroys, as `RaceMutes` shows.
* `Implementation`, `Spec => ImplementsVideoWall`: `Switch` is a step of the
  abstract wall, every other action a stutter (`StepShows`).

### What the operator sees (`DisplayCursor_proofs`)

With a single handler whose panel keys are those the driver delivers (eight keys
and their releases: `KeyTypeCorrect` of `KeyDriver`), and whose uninitialised local is
any number, an accepted mode included, but none of the modes that `set_cmd()` never
works out: 143 to 149, 199, 200 to 205 (`PlainKeys`; this rests on what an
earlier call leaves on the stack, which C does not promise):
`CursorCorrect`, `HighlightCorrect`, `TitlesCorrect`
and `HiddenAreMuted`. None of the four properties is inductive. `IInv` adds which
modes can be reached at all (`WallOfMode`, `Selected`), that a move key has
become a case of the layout on screen (`MoveKeys`: the same raw code is a
different case with nine and with four windows), that titles are on
windows of the layout and that nothing is highlighted before `witch_mode_4` is
set (`TitlesOnWall`). `NineMoves` and `FourMoves` say of the two tables of moves
that they stay on the layout, and redraw if they move. Without the assumption on the
panel's keys the theorems are false: code 63 would run the cursor of the nine
screens on the four.

On the same assumptions:

* `ConfirmCorrect`, `Spec => []ConfirmActsOnHighlight`, for all keys, the back
  key and the rotations among them. `Selection` follows what the
  highlight says of `cmd_confirm` through the handler: in its local, on its way
  to `cmd_confirm`, and there; a key that executes holds a mode no highlight
  speaks of, but is bound to redraw the wall without one. The exception of the
  property, a window where an arrow leads nowhere and whose `cmd_confirm` is garbage,
  is carried along: the next move that leads somewhere ends it.
* `TitlesMatch`, `Spec => []TitlesMatchBindings`, for keys other than the panel's
  rotations (`NoRotationKeys`; `RemoteNeverRotates`: the whole remote, its back key
  included, is such a device). `Names` says that titles are those of the mode on
  screen, that `who_in_pos9` is the channel in the large window, and that a redraw keeps
  this as long as `witch_mode_4` is the camera layout on screen. The back
  key breaks that last condition, as it restores the mode and not `witch_mode_4`, and so
  may the garbage; the property excepts it (`FourKnown`) until the next
  camera layout. The rotations draw the wrong two titles in mode 142.

`BindingsCorrect`, `PictureCorrect`, `ShownNeverMuted` and `Implementation` above need
nothing of the garbage.

### The ring (`RingLap_proofs`, `RingBuffer_proofs`)

For all buffers, frames of any size (also larger than the buffer), lags, layout
switches and damage: `RingTypeCorrect`, `Spec => []TypeOK`. Until a frame is written
past the end the indices stay inside the buffer, and afterwards they are still
natural numbers. `IInv` says that cells
hold received frames only, that a frame about to be written exists, and that, as
long as nothing was written past the end, a
length the reader measured cannot carry its index beyond two laps.

For a channel that stays on screen (`MaxSwitches = 0`) and a decoder that keeps
up: `RingStaysInBuffer`, `RingSendsWhole`, `RingDataInOrder`, and `RingIsQueue`,
`Spec => ImplementsFrameQueue`. Nothing in the code bounds how far the decoder
falls behind, or the size of a frame; `LagFits(s)` is the condition under which
it is safe: frames have at most `s` bytes, and `Lag` frames are less than the
threshold, fit into the space behind it, and `2 * Lag - 1` frames fit there but
for one byte. The run's constants meet it with `s = 3` and not one cell to
spare. In the code `(2 * Lag - 1) * s` may be 4883201 at most: with frames of
100000 bytes, 24 frames. It must hold of every channel: a neighbour that
overruns its buffer writes into this one.

The invariant `RingInv` speaks of the cells between the read and the write
index only: each belongs to a whole frame with the next one behind it (`Laid`), the
first is the next to be sent (`FirstAt`), and between measuring, sending and
accounting the reader's numbers are those of the first frame, although the
writer goes on (`Measured`, kept by `AppendKeepsMeasure`). The space used is a
sum over the frames behind, which induction over data would need; instead
every cell bounds the distance to the write index by the frames still ahead
of it (`FrameNear`), which each step keeps without a sum. `Room` is what follows for
the free space, before and after the writer has wrapped.

### The other components

For any number of streams and subsessions (`RtspClient_proofs`):

* `RtspTypeCorrect`, `CountCorrect`, `ClosedSilent`, and, for servers that name
  a transport, `PlayCorrect` and `IdleReceives`. The strengthening says that
  the streams before `opening` and only they were opened (`OpensInOrder`), that
  SETUP is for one of the subsessions, that a stream in a session has a sink
  unless the server is lax, and that a stream which plays, or has sent PLAY, is
  in a session (`Talk`). The types need the count: it is the cardinality of the clients in
  use, hence never below 0.
* `PoolImplementation`, `Spec => ImplementsStreamPool`: a run of a handler opens,
  plays or ends one stream, or is a stutter; that the process ends exactly with the
  last stream is the count again.

For any number of channels (`Player_proofs`): `PlayerTypeCorrect`,
`FeedsCorrect`, `ReadersCorrect`, `GivenBack`. The invariant lists label by
label what is held (`Held`), what is not or no longer (`Free`), that the windows
shown are those of the layout or, until the start-up has set it, the groups' own
(`ShowsLayout`, kept by any switch), and that no reader
runs outside the console and `StopSendStream()`, which has joined those below
`next` (`Joined`).

For any number of keys and handlers (`KeyDriver_proofs`): `KeyTypeCorrect`,
`EdgesCountOnce`, `SlowKeysCount`, `LastEdgeWins`. An edge is owed once wherever
it stands (the armed timer, the pending signal, a handler about to read), and
commands and owed edges together never exceed the edges (`Conserved`); as long
as nothing was hurried, at most one edge is owed and the commands are the
releases but the one on its way (`Steady`). The timer only ever looks at the
last edge, and unless its key is down again its release is what `key_val` holds
and was read last or is about to be (`LastKept`), so that the driver never comes
to rest on an older one (`RestsOnLastEdge`): the safety half of
`LastReleaseActs`.

For every cycle, window, set of faults and number of descriptors
(`LedPanel_proofs`): `MonitorTypeCorrect`, `PanelTypeCorrect`, `TestCorrect`,
`RestCorrect`. The
invariant says that `led_ctl` is set exactly while a test runs, that no pass of
the lighter is under way after its first phase (`Owned`), and what a pass has done
half-way if no test began since (`HalfWay`).

For the cycle and the window of the code, any fault of any sensor and a
`Settle` of at least 24 turns (`CodeCycle`): `WordCorrect`,
`MonitorSpec => []WordTellsTruth`. `WordInv` tells three situations apart: the
unit is dead and silence adds up to a timeout (`Dying`), a spoilt answer is
on the line (`Garbled`), or the unit answers (`Answering`). In the last, the
window began before the last disturbance (`SpoiltWindow`), is being filled with what
the unit says since (`WholeWindow`), or such a window has been judged
(`TrueWord`). How many questions fall
into the last `c` turns of the cycle is `AskedIn`; two rounds ask twenty, two
windows, which is where 24 turns come from. `PanelLeavesMonitor`, the panel
is a monitor with threads that only read, carries this over to the lamps
(`PanelWordCorrect`).

### Only model-checked

The liveness properties (`HandlerReturns`, `FramesGetOut`, `StreamsSettle`,
`FailedStartUpReturns`, `LampFollows`, `LastReleaseActs`): fairness and ENABLED
are beyond the prover. The two runs that expect a violation state no theorem.

## 5. What is not modelled

In the modelled parts:

* player: the log file; geometry, fonts and bitmaps; the header
  path that writes SPS and PPS once for channel 0; the zero byte of a
  four-byte start code, and what lies behind the last frame of a lap (the
  first frame of what is sent is judged whole); that a frame of several NAL units
  (SPS, PPS, slices) is sent as one (`sample_comm_vdec.c:382-405`): a start code of
  the model is the first of a whole frame; the eight bytes the last frame of a scan may
  be counted too long (419); what an overrun of one channel does to the frames of
  the next;
* switcher: `response_command()` reads `cmd_confirm` several times in the check
  (1107-1109) and in the mute code (1134-1166); `Accept` and `Mute` read it once each,
  so that a write of another handler in between is missing there (it is there between
  the check, the switch and the mute code, which is enough for `RaceMutes`); keys before
  the start-up is done, which meet a `msg` that is still NULL (`KeyDriver` has that) or
  windows that are not there yet (`Player` has that); the region that
  `HH_OSD_Init(cmd, ...)` creates and attaches to no window of the wall;
* RTSP client: the internals of live555 but for what it calls back, with each
  response matched to its request; the end of a source other than by BYE (an RTP
  source over UDP has none); the 64 bytes a URL is copied into; the unused
  `RecvLinklist.c` and `RecvThread.c`;
* key driver: loading and unloading the module, `write` and `ioctl`;
* LED threads: a signal taken on the LED thread cuts its `sleep(1)` short
  (`do_switch.c:1344`), and a phase may then be shorter than a pass of the lamps, which
  `NextPhase` takes to be impossible;
* monitor: an answer in more than two chunks, a read of no bytes or an error,
  and the check of the header, which joins with `&&` what it would have to join
  with `||` (`msg_handle.c:173`): a chunk is an answer or, spoilt, none;
  `net_msg()`, which receives datagrams and drops them, the send times nobody
  reads, `linkqueue.c`, which is never created; the fields the verdict does not
  read.

Left out for good: the LED test program (writes to GPIO files), the health
screen (a display whose partner is compiled out), the sample and library code of
HiSilicon and live555, generated files. These are
most of the repository's lines, so the share of them the map covers is small;
what is left of the repository's own code that keeps state is listed above.

## 6. Plan

Done, in order of importance: `WallLayout`, `DisplaySwitch` with `VideoWall`,
`RingBuffer` with `FrameQueue`, `RtspClient` with `StreamPool`, `Player`,
`BoardMonitor` with `LedPanel`, `KeyDriver`, and the theorems above. Next:

1. Composition of the switcher with the rings of two channels: from the mute flag to
   the frames shown.
2. Proofs: the ring of a channel that is muted and shown again while its
   reader waits, where the clear does no harm; what the safety halves of
   `FramesGetOut` and `StreamsSettle` are.
