# A verification project for *Linux Programming with Raspberry Pi*

The repository holds the programs of a book: some two hundred small C and C++
programs for the Raspberry Pi and its Sense HAT, from single system calls to an
observation server that serves measurements and pictures over HTTP while a
joystick, a keyboard and a Qt window work on the same process, and kernel
modules that drive an LED from a timer and an interrupt. This project models the
programs in which several parties act at once, because those are the ones whose
behaviour a test run shows least of. Paths below are relative to `src/`.

## 1. Inventory

| Component | State it keeps | Operations | Interacts through | What is hard | What makes it correct |
|---|---|---|---|---|---|
| Threaded web server, `Chapter6/webserver.c` | listening socket, `csock` of main, the thread's copy and two streams | accept, create, join; read line, branch, skip headers, `sendOk`, `sendError`, `sendData`, close | `csock` by address; sockets | stalled and departed clients, SIGPIPE, the argument's lifetime, end of file | one connection at a time, none lost, each answered by kind and completely |
| Observation servers, connections, `RPi/rpi6.c`, `rpi7.c`, `WithPi/withPi.cpp` | `is_run`, `csock`, descriptors, `strtok`'s static position, streams per thread | web loop, `clnt_connection` without join, query parsing, capture, answers | `csock` by address, `strtok`, the descriptor table | race on `csock`, shared tokenizer, number reuse, NULL streams and strings, slow clients, exit while threads run | a client is sent what it asked for, only a malformed query is dropped, descriptors come back |
| Sensor programs, measurements and shutdown, `RPi/rpi4.c` to `rpi7.c`, `withPi.cpp` | `pressure_fd`, `temperature_fd`, the sensors' registers, two mutexes | three writes, `getPressure`, `getTemperature`; main's loop and END; joystick; 'q'; the window's `monitor` | sensor registers, `is_run` | unlocked multi-step protocol, polling without timeout, clean-up under running threads, a GUI thread that polls | fresh readings, sensors off at the end, shutdown and polling end |
| LED drivers, `Chapter12/module/*.c`, `Chapter12/catch_signal.c` | `msg`, `timer`, `task`, `led_mutex`, `ledflag`, the LED | `timer_func`, `isr_func`, `gpio_write`, `gpio_read` | trylock; `msg` shared by callers; SIGIO | self-arming timer against deletion, unlocked write, stale task | 0 stops, 1 blinks, each program served |
| Camera capture, `RPi/bmpCapture.c`, `Chapter7/Camera`, `Chapter9/draw_camera*.c`, `Chapter10/v4l2qt`, `Chapter13/NeonProgramming` | `fd`, `fbfd`, `fbp`, `buffers` (globals) | open, map, initialise, select, read, release | called by connection threads | two callers of one set of globals, early returns, an interrupted select, the timeout | one capture gives back what it took, it ends, memory is used while it lives |
| Conversion of frames, `processImage` of the same files (but `draw_camera_shader.c`, where it is switched off) | `location`, `count`, loop counters | per pair of pixels, per texel, per NEON block | the screen's memory, the file's buffer | line ends, screens narrower, wider, lower and higher than the frame, the size of each buffer, widths of NEON lanes | each pixel at its place, nothing outside |
| Programs on DRM, GBM and EGL, `Chapter9`, `RPi/rpi9.c` | `currBo`, `currFB`, `prevBo`, `prevFB` | swap, lock, add, set, remove, release, restore | the display scans out all the time | order of five calls per frame, unchecked failures, the end | what is shown is never drawn into, the console comes back |
| Multiplexing echo servers, `Chapter6/select_server.c`, `epoll_server.c` | `client_fd`, `client_index`, `readfd`; `nfds`, `events` | accept, echo and close | sockets | array limit, gap in the list; stale entries, edges | every live client listened to, no dead one; counts right |
| Threads round a semaphore, `Chapter5/thread.c`, `posix_sem.c` | a named semaphore, `cnt` | post, wait, unlink, killed | the semaphore outlives a run | leftovers of a killed run, unlocked `cnt`, P and V exchanged | runs end, the counter follows the semaphore |
| Other IPC, `Chapter5`; everything else: files (Ch. 4), sockets one client at a time (6), audio and drawing (7), OpenCV (8), OpenGL without a display (9), Qt (10), Caffe (11), system calls (12), GStreamer and shell (13), tool chain (2) | - | library calls in sequence | - | creation order in `shm.c`; otherwise nothing concurrent | not modelled |

`PROJECT.json` lists every component with its sources and status, and under
`hazards` each of these difficulties at its line.

## 2. Modules

| Module | Models | Proofs |
|---|---|---|
| `HttpService` | what `webserver.c` promises: an abstract service that answers connections in order, one at a time | |
| `WebServer` | `webserver.c` in full; `MCWebServer` is its instance | `WebServer_proofs` |
| `ObservationServer` | the connections of `rpi6.c`, `rpi7.c` and `withPi.cpp`; `MCObservationServer` | `ObservationServer_proofs` |
| `SensorBus` | the sensors' registers (hardware, external), as operators on records | |
| `SensorReading` | the measurements and the shutdown of `rpi4.c` to `rpi7.c` and `withPi.cpp`, over `SensorBus`; `MCSensorReading` | `SensorReading_proofs` |
| `LedDriver` | the five LED drivers with the programs that use them; `MCLedDriver` | `LedDriver_proofs` |
| `EchoService` | what `select_server.c` and `epoll_server.c` both promise: an abstract service that echoes one message to each client and closes it | |
| `SelectServer` | `select_server.c` with its clients; `MCSelectServer` | `SelectServer_proofs` |
| `FrameCapture` | `bmpCapture.c` and the programs built like it | |
| `YuvImage` | their `processImage`, scalar and NEON | `YuvImage_proofs` |
| `DisplayProgram` | the exchange of buffers of 15 programs on DRM and GBM | |
| `CameraDisplay` | composes the three: `draw_camera.c` and `draw_camera_shader.c` are a camera and a display program in one thread; `MCCameraDisplay` | `CameraDisplay_proofs` |
| `EpollServer` | `epoll_server.c` with its clients | `Processes_proofs` |
| `NamedSemaphore` | `thread.c` and `posix_sem.c` | `Processes_proofs` |
| `MCProcesses` | the instances of these two, one behaviour being about one of them | `Processes_proofs` |

`map` in `PROJECT.json` gives the lines of every definition. Definitions marked
*Mutant* are deliberate errors, one for each property; no specification uses
them.

### WebServer
`mpc` and `wpc` are the control points of `main` and of the one
`clnt_connection` thread; `csock` is main's variable and `sock` the thread's
copy, taken through the pointer in `ReadArg`. A client's connection goes from
`idle` through `queued` (completed by the kernel, in `backlog`) and `service`
(accepted) to `closed`. The request is two lines, the request line and the empty
line: the header lines between them change nothing. A client may stop sending or
hang up at any point: `ReadLine` then finds anything in the uninitialised line,
`SkipHeaders` never ends, and any answer step may kill the process by SIGPIPE
(stdio decides when it really writes, so every output step may). `sendData` is
one `SendHead` and one `SendBlock` per `read`. The number of full blocks in a
file is `Blocks`; what the bytes are is left out, and with it what `fputs` makes
of a block that is not terminated.

### ObservationServer
`th[t]` is the thread started for the t-th accept with its locals; `fdt` is the
part of the descriptor table above what main opened, and a descriptor number is
the lowest free one. A browser sends its request at once or, a slow one, first
the request line and then the headers, whenever it likes or never; `sent` and
`got` say how much of it has come and how much the threads have read, so that
`ReadLine` and `ReadHeaders` block, and a header can be read by the thread that
was given the number afterwards. The header loop has no end at end of file.

`strtok` is the static position of libc's tokenizer: whose text it is in, which
text (the request line or a piece of the query) and how many tokens are left.
Each call of `strtok` is one action, because every other thread may call in
between. A request's path says what file it names, whether there is a `?`, into
how many texts `?` divides it and, for each option, into how many texts `=`
divides that. `QueryFile` to `OptionValue` follow it with every exit of the code:
`/?`, `/index.html?` and `/?led=On` go to END without an answer (`strtok` skips a
leading delimiter, so the last has one text only), an option that is nothing but
`=`, or that has no value, is a `strcpy` from NULL, which ends the process. All
options are collected before any is looked at. A
thread that goes on in another's text takes what is there: its path (`LineOf`
says whose), a further option, or nothing.

History variables: `took` (which accept's `csock` a thread copied), `asked`
(whose request line it read), `from` (whose path it took, and so whose file it
sends), `mixed` (threads that another thread's `strtok` disturbed), `answers`
(the threads that wrote an answer to each client). *NoCrossTalk* puts them
together: what is written to a client comes from the thread that read its line
and is for its path, unless that thread is in `mixed`; then it may be what
another client asked for, and the run has such behaviours. *ParsedAlone* says
that a thread nobody disturbed goes for what was asked, and that only the
request itself, one that is `Dropped` or `Crashes`, keeps it from answering.
Both leave out the connections that two threads share, which is what
*EveryConnectionGetsAThread* shows to happen.

What ends the process (a NULL stream, a NULL string, SIGPIPE, `exit` in the
capture) is `Dies`. The measurements are one step, before which
a thread may stay for ever (nothing is fair here; what holds it up is
`SensorReading`'s subject); the capture is one step that may fail
(`FrameCapture` has its steps). `scene` is the server (`rpi6.c` has no camera
and answers every path with the page) together with who connects, who is slow and
who may hang up. `MainEnds` may happen at any time, which covers
both 'q' and the end of `main`. Bounds in the model: an uninitialised line names a
page or what some caller asks for; another thread's text gives at most one option
per call, of one or two texts; a request has no more than the 32 options that
`optStr` has room for.

### SensorReading
`program` says which of the five programs runs: whether there is a web thread,
whether a thread measures one sensor over and over (`rpi5.c`, under a trylock
that nobody else takes and that therefore always succeeds), whether main
measures at a key (`rpi4.c`), whether there is a window (`withPi.cpp`, whose
`monitor` is a sixth party that polls and reads but starts nothing).
`sendData`'s nine accesses per sensor become five steps: power down, power up,
start, poll, read out, first for the pressure sensor, then for the temperature
sensor. Each register write is its own action. A sensor record knows who asked
for the measurement in its output registers, so a reading is `own`, `stale` or
`garbage` (read on a closed descriptor). A failed write is ignored, as in the
code, and a poll on a closed descriptor never ends (-1 is not 0). `mainPc` walks
through END; the order there (off, close, off, close) is kept. `rearmed` and
`mixed` are history.

### LedDriver
`driver` is the module that is loaded: `gpio_module.c` and
`gpiofunction_module.c` only set the LED, `gpioirq_module.c` adds the switch,
`gpiotimer_module.c` the timer and the mutex, `gpiosignal_module.c` the signal.
`timer` is the pending flag, `cb` and `isr` the control points of the two
handlers (on different cores), `pc` that of each program inside `gpio_write`.
`led_mutex` is only ever tried. `msg`, `timer` and `task` are the module's
globals. The kernel functions are modelled by what they do: `del_timer_sync`
waits for a running callback, `timer_setup` and `add_timer` on a pending timer
corrupt the timer list or hit a `BUG_ON`, `pid_task` gives NULL for a dead
program. `gpio_read` appends to `msg`: what that changes for the next command
is that something stands behind it (`tail`), which all drivers but
`gpiosignal_module.c` then take for no "0". `blinks`, `overlap` and `cut` are
history. A crash of the kernel is an
end.

### SelectServer
`pc` says whether `main` is about to call `select`, is in `accept`, or is at the
client `start_index` of the `for` loop. `client_fd` and `client_index` are the
program's list, which closing a client does not compact; `readfd` is the
`fd_set`, which is not cleared between rounds, so that a `select` over a closed
descriptor fails and leaves it as it was asked. `q` stands for what the loop's
condition tests in `mesg`. `fdt` is the kernel's table, `said` and `hung` what
the clients did, `gap` the history of the one event the list does not survive.
`Service` is the refinement mapping to `EchoService`: a client is seen as queued,
with an open connection (it has a descriptor), or served (its message was echoed
and it has none).

### FrameCapture
`prog` is the program: how many frames it takes, whether it is a function of a
server, whether it maps the screen, whether it saves. `cpc[t]` is a caller's
place in `captureImage` or in `main`; `fd`, `fbfd`, `fbp` and `buffers` are the
file's globals, which two connection threads share. `files`, `maps` and `heap`
are what the kernel and `malloc` have given out, by number; a number given back
is given again, so that a stale global may come to name something alive. Every
`return EXIT_FAILURE` is `ReturnEarly`, every `exit` an `Exit`. `Select` has the
three ways of the code: a frame, a timeout after two seconds (which exits), and
an interruption, which falls through to `readFrame`.

### YuvImage
One conversion of one frame: `line`, `j`, `location` and `count` are the loops'
variables, `out` and `file` say which pixel of the frame was written to each
place. `ConvertPair`, `SkipRest` and `NextLine` are the branches of the nested
loops, `ConvertTexel` the single loop of `draw_camera.c`'s texture, `ConvertBlock` a
NEON step. At the start of a line the step skips the rest of the screen's line and so
leaves the line's first block out (`LeftOut`); on a screen of 16 bits it advances by
half a block, so that its last one takes source pixels from beyond the line.

`Room` is the size of the buffer written to: the mapping of the screen has `yres`
lines of `xres` pixels, while every loop goes over the HEIGHT lines of the frame, so a
screen that is lower than the frame is overrun; the memory of the texture has
WIDTH*HEIGHT*`bits_per_pixel`/8 bytes and three are written per pixel, so it is
overrun at 16 bits; the Qt image has its three bytes per pixel. An overrun is the end
of a behaviour. `Fits` names the screens on which none may happen.

`Pixel` says where a pixel belongs, whatever the code does: on a screen at its line
and column, in a packed image behind the lines before it. On a screen narrower than
the frame `v4l2qt.cpp` cuts each line off at `xres` pixels and puts the next right
behind it, while the `QImage` has lines of WIDTH: that picture is sheared, and
*ImageIsRight* claims it only for screens that are no narrower.

`Scalar` and `Vector` are the arithmetic of one pixel in both ways, `Filter` that of a
pair in `v4l2_framebuffer_filter.c`: blue and green are the first pixel's, red is a
mask, 255 where `c3` is above 64. The comment there (l. 223) speaks of the value of red;
`c3` is the blue of the second pixel, and the model follows the code. TLC compares
the colours over a grid of values, a theorem `Scalar` and `Vector` over all of them.

### DisplayProgram
`show` is the program; `bo` the surface's buffers, `fbs` the frame buffers with
the buffer of each, `crtc` what the display scans out. Each call of the exchange
is an action, and so is its failure where nobody looks at it; where `eglSwapBuffers`
fails the program exits or uses the buffer that is not there (`Swap`). The kernel removes
what a killed program had. In `draw_opengl2_animation.c` and `rpi9.c` `prevBo`
and `prevFB` start with any value, as locals do.

### CameraDisplay
`running` says whether a behaviour is about a camera program, a display program,
one that is both, or a conversion. In the last but one the steps of the two
parts alternate as the code calls them: EGL and the shaders after `initDevice`,
the exchange while a frame is at hand, the frame done when the exchange is
(`FrameShown`, a step of both; that the frame is also converted in between is not part
of it, a conversion is a behaviour of its own), the display taken down after the image memory
and before the descriptors. An exit in either part ends both.

### EpollServer
`events` holds descriptor numbers, as the array does, `JUNK` where nothing was
written yet. `EpollWait` writes the entries of ready descriptors from 0 on and
leaves the rest; `Here` is the loop's `i`, which goes up to `nfds` and not to
what `epoll_wait` returned. `fd` gives each open client its number, the lowest
free one. `edge` holds the clients whose edge has not been reported: it is set
by data or end of file and taken by `EpollWait`. An entry of an earlier round
serves whoever has the number now. `skipped` is history: clients whose entry
stood behind a count that had fallen.

### NamedSemaphore
`job[r]` is the program of a run, `named` the semaphore that has the name and
`value` the value of each that was made: an unlinked one lives on in the runs
that have it open. `cnt++` and `cnt--` are a load and a store each. `Kill` ends
a run at any point and leaves the semaphore as it is. `found`, `crowded` and
`raced` are history.

## 3. Runs

| Run | Bounds | Shows |
|---|---|---|
| `webserver` | 3 browsers: a file of two full blocks and a bit, a missing file, another method; backlog 2 | the handover, one connection in service, complete pages, the refinement, and that polite clients are served |
| `webserver_serial` (violation) | the same, backlog 10 | a silent client blocks the others |
| `observation` | four scenes: `rpi7.c` with a query of two options and a picture whose client may hang up; `rpi6.c` with `/index.html?` and a picture, slow, both impatient; `withPi.cpp` with `/index.html?` and an option without a value; `rpi7.c` with POST (impatient), picture and bad method; 4 descriptors | no cross-talk although numbers are reused, parsing and descriptor return |
| `observation_handoff` (violation) | page and picture, patient | the race on `csock` |
| `sensor_reading` | 2 threads (1 next to the window), 2 sensors, 5 programs | stale readings only when disturbed, sensors off unless rearmed, shutdown and polling end |
| `sensor_cleanup` (violation) | the same | 'q' skips the clean-up |
| `led_driver` | 3 programs: two write 1, one writes 0; 5 drivers | the timer, the interrupt handler and the writers together |
| `led_signal` (violation) | the same | a signal to no process |
| `select_server` | 4 clients, one says "q", a list of two | the counter, reads that do not block, the list, the end by "q" and the echo, as long as the list has no gap |
| `select_server_list` (violation) | the same, a list of three | closing a client that is not the last loses another |
| `camera_display` | 2 threads with 2 captures each, 4 descriptors, 2 frames for 100, 4 surface buffers, a frame of 4 x 2 on screens of 2, 4 and 6 by 1, 2 and 3, of 16 and 32 bits, blocks of 2 | captures give back, end, and ruin the process only for a cause; the buffer shown is kept; the picture is right where it fits |
| `processes` | 4 clients (one says "q", one leaves without a message), 4 entries; 2 runs, 2 rounds, values 1 and 2 | `nfds` is right, an edge is lost only behind a count that fell, messages come back; the counter follows the semaphore, runs end |

**Why the bounds are enough.** Two browsers already give main something to
overwrite `csock` with; the third has to wait for a place in the backlog of
two. Two blocks are the least at which *first*, *next* and
*last* read differ. In `ObservationServer` a connection takes two descriptors,
so four of them serve two connections and the third meets an exhausted or a
reused table. Two threads can disturb each other in `strtok` at every call; one scene
has the longest parsing (two options), two the queries that leave it early or
crash, alone and disturbed, the last the kinds that need no path, with which a
number is free again while other threads still run.
Two threads can disturb each other at a sensor; the theorems below say the same
for any number. Next to the window one thread is enough to power the sensor
down while it is polled. Two writers of 1 are the least that ruin the timer, one writer
of 0 races both. Four clients for a list of two make it overflow, empty and
fill again, and give a client that says "q" others before and behind it. In
`EpollServer` an entry is skipped with three open clients that have written, and
the array of four is overrun with four; a stale entry meets a number given again
with two. Two captures of each of two threads give a second capture of one
while the other is still in its first, and two frames a loop that goes round;
of GBM's buffers two are ever taken, of the four that Mesa has. The frame of
4 x 2 has a line that is not the first, and a line of two blocks; the three
widths of a screen are narrower than it, as wide and wider, the three heights lower, as
high and higher. A second run is what meets the
leftovers of the first or shares its semaphore. Bounds
in the models themselves: each client connects once (and
so as many accepts as clients) and sends one request or message (in one piece, but for the
slow ones of `ObservationServer`), each connection thread calls `sendData` once,
each program writes and reads once. `Many` and `Loops` stand for 100 frames,
`Rounds` for 10 rounds.

All runs set `CHECK_DEADLOCK FALSE`: the systems may really stop, when the
process or the kernel has died, when all clients are done and the server waits,
when all programs are over, or when a thread waits for ever for a line.

**What the violations mean.** They check a sentence the code says about itself:
`webserver.c:47` (ten clients at once), `rpi7.c:406` (a thread per request),
`rpi7.c:197` and `:212` (quit, and clean up), `gpiosignal_module.c:93` (signal
*that* process), `select_server.c:80` (examine *all* the clients). Each finding in `PROJECT.json` quotes the line.

**Fairness.** `WebServer`: weak fairness of main and of the thread, which the
kernel's scheduler gives; none for browsers, so *PoliteClientsServed* assumes
explicitly that they stay and finish their requests. `SensorReading`: weak
fairness of main, of each thread, of the window, and of each sensor's own conversion (a powered
sensor asked for a measurement makes it); none for the keyboard, the joystick,
the closing of the window or
the last `accept`. A thread on a closed device has no step to be fair about.
*MeasurementEnds* needs more than luck: another thread's power-down may cancel
the measurement being waited for, but that thread powers the sensor up and
starts it again. It holds for finitely many threads; a stream of new ones could
keep the sensor busy. `SelectServer`: weak fairness of the one process,
none for clients; *EchoedWithoutGap* holds although silent clients stay listed
and departed ones are polled for ever, because one round examines everybody.
`EpollServer`: the same. `CameraDisplay`: weak fairness of each thread that is
inside a capture; none for the camera, whose silence the timeout ends, nor for
the user. `NamedSemaphore`: weak fairness of both threads of a run; none for
starting or killing one. `ObservationServer` and `LedDriver` state no liveness
and no fairness.

## 4. Theorems

Checked by TLAPS for every value of the constants, from the named assumptions of
the modules only (`MethodAssumption`, `BlocksAssumption`,
`ListenBacklogAssumption`, `NoClientAssumption`; `NobodyAssumption`;
`SlotsAssumption`, `QuittersAssumption`; `RequestAssumption`,
`ClientsAssumption`, `ScenesAssumption`, `MaxFdAssumption`; `CommandAssumption`;
`EpollAssumption`; `SemaphoreAssumption`; `DisplayAssumption`,
`CaptureAssumption`, `ImageAssumption`). They are types of the constants, that
sets of parties are finite, in `DisplayAssumption` that a surface has two
buffers or more, which GBM guarantees and without which the second frame has
nothing to be drawn into, and in `ImageAssumption` that frames, screens and
blocks have even widths and a frame a whole number of blocks (the programs ask the
camera for 800 pixels, convert two at a time, and a NEON block has 16).
Every safety property that a passing run checks is stated by a theorem.

**`WebServer_proofs`**: *TypeCorrect*, *HandoffCorrect*, *OneInServiceCorrect*,
*PageCompleteCorrect*, *Refinement*. The invariant says, besides the four
properties: the backlog holds exactly the queued clients, each once; the kind of
the answer being produced matches the line that was read, and that line is the
client's method unless it hung up; a reply is written only by the step that owns
it; the parts counted so far fit the file. *Handoff* is what ties `sock` to
`csock`, and hence the answer to the head of the abstract queue: without it the
refinement's `Answer` could answer anybody. The refinement maps main's `csock`
in front of the backlog while a connection is in service, shows a client its
answer when the connection is closed, and needs that the answer is the owed one
or the client has left.

**`SensorReading_proofs`**: *TypeCorrect*, *FreshCorrect*, *SensorsOffCorrect*.
*UndisturbedMeasurementIsFresh* is not inductive: a thread that reads has to
know that the output registers are its own. *OwnMeasurement* says what an
undisturbed thread may rely on at each step: while it polls, the sensor is
busy with this thread's measurement (*UnderWay*) or has put it into the output
registers (*Available*); when it reads, the latter. *ShutdownInv* says that a
sensor that is on after main's power-down has been rearmed, that it is not open
any more after main's close, and that the process has exited only when main has
returned. `IInv`, the conjunction, is proved
inductive action by action; TLC checked the same conjunction first.

**`SelectServer_proofs`**: *TypeCorrect*, *CountCorrect*, *ReadCorrect*,
*ListCorrect*, *QuitCorrect*, *Refinement*. The properties need each other and three more
parts: *FdtInv*, a connection has at most one descriptor (else the echo to one
descriptor would take another's message away and *ReadNeverBlocks* would not be
kept); *ReadInv*, from a `select` that succeeded to the end of the `for` loop
everything in `readfd` is ready; *QuitInv*, an echo that leaves no gap was the
last of its loop. *CountsOpenClients* is what guarantees `accept` a free
descriptor among those the model has (*LowestFreeIsFree*, by counting), and
*LeastNatural*, from the library's minimum of a well-founded set, that there is
a lowest one. *Refinement* (`Spec => ImplementsService`) does not need the list to
be right, and so says what clients can count on after a gap too: a connection is
closed by its message coming back and in no other way, the server ends only
after a "q" it has echoed (*HeardInv*), and it leaves `client_fd` only with as
many connections open as there is room for. For the last the clients seen with an
open connection are counted by the descriptors (*SeenOpen*, a bijection) and these
by *CountsOpenClients*; *EchoedInv* keeps who was served from being connected.

**`ObservationServer_proofs`**: *TypeCorrect*, *NoCrossTalkCorrect*,
*ParsedAloneCorrect*, *DescriptorsCorrect*. All of it turns on who owns a
descriptor number, because closing one hands its number to the next connection.
*Ownership* says, as long as no two threads copied the same `csock`: each live
thread's numbers are open and lead to one client, the one whose request line it read;
before that nobody has read anything of this client's (`got` is 1); no two threads
have a number in common; and while the last accepted descriptor
has not been copied (*Fresh*) it is nobody else's. *Accounted* is the converse:
an open descriptor is a thread's, or fresh, or there is an accept nobody will
ever copy. That an overwritten `csock` cannot be compensated is counted: n
threads that copied n different accepts have copied all n (*AllTaken*). *StartInv*
orders a thread's start and its copy. *Answered* keeps what was written to a client
with what its thread had read; *Position* says where in which text `strtok` is while a
thread that no other disturbed relies on it, *Counting* bounds the two counters of
the options, and *Understood* says what such a thread has taken from its request so
far. From *Understood* follow both halves of *ParsedAlone* and the part of
*NoCrossTalk* that is about the path: the thread took the path of the client it read.

**`LedDriver_proofs`**: *TypeCorrect*, *OffCorrect*, *BlinkingCorrect*,
*RuinedCorrect*, *PressCorrect*, *AloneCorrect*. *TimerInv*: an armed or running
timer has an owner, a program whose "1" reached `add_timer` and that no "0"
undid; this makes *OffMeansOff* inductive although the timer arms itself.
*LockInv*: which of the two handlers has `led_mutex` at which of its steps, so
that only the unlocked `gpio_write` can come between the handler's look at the
LED and its change. *WriteInv*: two programs inside `gpio_write` know of each
other in `overlap`, and one that was never disturbed finds its own command in
`msg`, and has parsed it.

**`Processes_proofs`**: *EpollTypeCorrect*, *EpollCountCorrect*,
*EpollEdgeCorrect*, *EpollRefinement*, of `EpollSpec`. The properties are inductive with *FdInv*,
that a number is one open connection's; `accept` finds one by counting
(*LeastNatural*, the pigeon hole), and an old entry that is served belongs to
whoever has the number, which changes the count and the edges of that connection
only. *EpollRefinement* is that this server, too, implements `EchoService`, with
*GoneInv* (closed and echoed are the same clients) and a *HeardInv* that is weaker
than the one above: here `mesg` is tested before anything was read into it when the
first 500 ms bring no client. *SemTypeCorrect*, *SemCountCorrect*, of `SemSpec`, for any number of runs
of either program, each of which may be killed anywhere. *MadeInv* (no more
semaphores than runs that have begun) gives each run a number, *OpenInv* says
that two runs that have the same semaphore know it by `crowded`, *RoundInv*
bounds a round, and *TrackInv* follows the sum of `cnt` and the semaphore's value
through the two halves of `cnt++` and `cnt--`, from whatever value the run has
found. *ProcessesTypeCorrect*, *ProcessesCorrect* and *ProcessesRefinement* carry all of it over to the
specification that the run checks, where a behaviour is about one of the two and
leaves the other's variables as they began.

**`YuvImage_proofs`**: *ImageTypeCorrect*, *ImageCorrect*, *ColoursClose*.
*ImageIsRight* says next to nothing before the loop is over, so all of the argument is
in the invariant: the loops are a cursor. What lies before `location` is painted
with its `Pixel`, what lies at it or behind it is blank, and `location` is a
function of where the loop has come to: of `line` and `j` where rows are
converted (*RowInv*, which also says which lines of the file are done and that
`count` is the column), of `j` alone for the texture (*TexelInv*) and for the
NEON blocks (*BlockInv*). *ImageBuffers* fixes the extent of both buffers (`Room`), from
which nothing is written outside follows, where the frame `Fits`, once the cursor's
place is known. Each
step moves the cursor over the places it paints; at a line's end the blank
places of a screen wider than the frame are what `SkipRest` went over. Places
are products of a line and a width, which no solver here can divide:
*PlaceOf* and the lemmas beside it say what `\div` and `%` make of them, and the
steps cite only those. *ColoursClose* compares the arithmetic of a pixel for all
16 million triples, by rewriting each colour as one linear term and its quotient
by 256. The proof corrected the model's type invariant: a block of 16 pixels on
a screen of 16 bits reads further beyond its line than the small instance's
block of two showed.

**`CameraDisplay_proofs`**: *ImplementsDisplay*,
*TypeCorrect*, *DisplayTypeCorrect*, *CaptureTypeCorrect*, *ScannedOutCorrect*,
*ConsoleBackCorrect*, *BalancedCorrect*, *RuinCorrect*, *CaptureIsBounded*.
*StepsOfParts* shows that each step of the composition is a step or a stutter of
each part. That the whole implements the exchange follows (*ImplementsDisplay*), and
with it that an invariant of the exchange is one of the whole. The composition does not
convert the frames it shows: *ImageIsRight* is proved of `YuvImage` alone.
The display's part: *BufferInv*
and *FrameInv* say at each of the calls of an exchange which buffers are not
free and which frame buffers exist, of which buffer each; that never more
than two are in use is what `eglSwapBuffers` needs. *LightInv* lists what can
make the display dark. Two programs start with a `prevBo` and `prevFB` that
nobody has set; *ShowInv* says how long such a value may still be there. The
camera's part:
*SoleInv* and *WorkInv* say that, as long as calls did not overlap, there is one
caller inside and that the file's globals name what it has opened, mapped and
allocated; *BalanceInv*, that there is nothing else unless a call left early;
*RuinInv* is the property itself. *CaptureIsBounded* is the half of *CaptureEnds*
that needs no fairness: *StepsLeft*, at most 2 * Many + 6, falls with every step of
a caller inside that does not end the process, and nobody else's step, no frame
that comes and no failure of the display changes it.

**Only model-checked**: liveness (*PoliteClientsServed*, *ShutdownCompletes*,
*MeasurementEnds*, *EchoedWithoutGap*, *CaptureEnds*, *MessagesEchoed*,
*RunsEnd*), because it rests on fairness and so on ENABLED, which the prover does
not handle; and the violations, which are counterexamples and need no proof.

## 5. Not modelled, and why

Start-up failures of the servers (they exit before anything is shared); bytes of
files, lines and pictures; the conversion of register values; `cleanup_module` of
the LED modules (unreachable, the module holds a reference on itself); the length
of `msg` in the LED drivers and what happens when it is outgrown; the wall clock
(sleeps, and how long a timeout is); what OpenGL draws; BMP headers. `shm.c`,
the message queues, FIFOs and pipes of Chapter 5 are straight-line programs of
two processes: their behaviour is who starts first. The shaders, among them the one of
`draw_camera_shader.c` that turns YUV into RGB (its loop in C is switched off), are
what OpenGL draws. Terminals, drawing, audio,
vision, rendering and GUI examples call a library in sequence; makefiles are
generated and kernel headers vendored.

## 6. Plan

1. `Ipc` (`Chapter5`): `shm.c`'s creation order, the message queue's removal.
2. `Algorithms`: HTS221 and LPS25H decoding of `rpi4.c` and `rpi9.c` with their
   integer widths, against a reference; `list.c` over a directory tree.
3. The part of the other liveness properties that is not temporal, for any
   constants: a rank as *CaptureIsBounded* has it for captures, and that a step
   that lowers it is always possible where the property says so.
