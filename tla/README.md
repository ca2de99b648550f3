# SimpleMic in TLA+

SimpleMic is a microphone and a loudspeaker for MITAI, a network of audio
*modules* that are made, wired and deleted from another machine with Open Sound
Control (OSC) messages. This directory holds TLA+ models of its code, TLC
configurations that check them on small instances, and TLAPS proofs of some of
the results for every instance. Source paths below are relative to `src/MITAI/`.

Check a run with `tlc -config Timer.cfg TimerMC`, a proof with
`tlapm AudioPath_proofs.tla`.

## 1. The system

A *service* machine runs `src/main.cpp`: one `Server` and two `ModuleManager`s,
for `ADC` (the microphone) and `DAC` (the loudspeaker). A *coordinator* machine
runs an application with a `Coordinator` and a `ModuleList` from the same
source. The repository holds more modules than `main` starts: recordings, effects,
synthesizers, controls on a serial line. These threads exist in a process:

| thread | what it runs | it changes |
|---|---|---|
| main | `main`, the application's calls | managers that start; the coordinator's `tID`, `mListIDArray` |
| TCP server | `lo_server_wait`, `lo_server_recv`, handlers of control messages | modules, routes, tokens, the list of methods, timer callbacks |
| UDP server | `dispatch_method`, handlers of audio and discovery messages | stream buffers, volumes, recordings, entries of `ModuleList` |
| audio | PortAudio's callbacks | what a buffer plays; sends audio through the routes |
| timer | porttime, `Timer::setBeat` | counters of the timer callbacks; renders recordings, sends levels |
| serial | `Serial::threadFunction` | the ring of a parser; sends values through the routes, and calls handlers of its own process |

There is **not a single lock** in the program's own code. Every structure in the
last column is read or written by another thread as well; most hazards in
`PROJECT.json` come from that, the others from messages that overtake one
another, restarts, node ids that wrap around, positions in rings, calls that fail halfway, and
descriptors, methods and settings that outlive what they were made for.

### Components

| component | its state | operations | interacts with | hard | what makes it correct |
|---|---|---|---|---|---|
| `RoutingTable` | arrays of addresses and paths, `aNum` | `setRoute`, `deleteRoute`, `deleteAllRoute`, `isRouting` | owned by `Module`, read by audio threads | shifting while another thread iterates | a set of at most `MAX_ANUM` destinations; order kept; every address owned once |
| `Module` | a routing table for each outlet, token id, coordinator's address | `addRoute`, `deleteRoute`, `sendAudioTo`, `sendDataTo`, tokens | coordinator over TCP, other modules over UDP | a frame sent during a rewiring; indices of outlets | a frame reaches what stays connected |
| liblo TCP server | sockets, contexts, buffers, current address, `errno` | `lo_server_wait`, `lo_server_recv`, `recv_raw_stream`, add/delete socket | handlers, clients that die | pieces of messages, accept during receive | messages whole, in order, once, and from the sender told |
| liblo dispatch | the linked list of methods | `lo_server_add_method`, `lo_server_del_method`, `dispatch_method` | every component | cells freed during the walk; patterns | a message reaches its method |
| liblo queue of bundles | ordered queue, reference counts | `dispatch_data`, `queue_data`, `dispatch_queued`, `lo_bundle_*` | UDP server | order by time tag, poll timeouts, nested and shared bundles | due messages in order of time, each once |
| liblo messages | bytes of a packet | building, layout, validation, coercion, patterns, SLIP | dispatch, sending | sizes and boundaries | what is read is what was put in |
| liblo sockets and addresses | descriptors in servers and addresses, options, URLs | `lo_server_new*`, `lo_server_free`, threads, `lo_address_*`, `send_data` | every component | failures halfway, numbers used again | every descriptor closed once, by its owner; options as asked |
| `Coordinator` | `tID`, `mListIDArray`, token map | `createModule`, `deleteModule`, `addConnection`, `disconnect`, `setMtkn`, `deleteMtkn` | managers and modules over TCP | reports and calls crossing; restarts; ids that wrap | tokens, modules and routes agree |
| `ModuleManager` | list of modules, `local`, coordinator's IP | `module`, `setMInfo`, `requestML`, `sendModuleList` | coordinator, module list, other managers of the process | restarts; two threads announce; shared methods | one module for each id; announcements reach those who ask |
| `ModuleList` | `mList` | `requestML`, `setMList`, `setMListTCP`, `deleteMList` | managers, by broadcast and over TCP | lost datagrams, start-up order, two threads add | all managers found, indices right |
| `Timer` | four parallel vectors, counters | `setDataCallback`, `removeDataCallback`, `setBeat` | `DAC`, porttime | changed during a beat | everyone called on time |
| `StreamingBuffer`, `Volume` | ring, `rp`, `wp`, level, flag, gain | `pushMono`, `pop`, `setVol`, `muteON`, `muteOFF` | UDP and audio threads | two rates, under- and overruns, mutes | plays only what is there; volume comes back; resumes |
| `DAC`, `ADC` | methods, buffers, PortAudio stream | made, deleted, `stream`, `stream2`, `data1`, `data2` | all of the above | deletion while messages arrive; PortAudio failing | methods and object come and go together; streams stay with their module |
| `Recorder`, `AudioSource` | recording, positions | record, play, render, delete | UDP, timer and TCP threads | reallocation during rendering | nothing read outside the recording; every packet passed on |
| serial input | ring of bytes, terminal settings, thread | `prepareSerial`, `threadFunction`, `parseData`, `setData` | the device, serial and TCP threads | positions that pass each other, lost bytes | a value sent is the value that arrives |
| effects | delay line, coefficients, levels | `stream`, orders for duration, frequency, q | UDP and timer threads | positions in the delay line, coefficients changed meanwhile | the echo is what went in as long ago as ordered |

`PROJECT.json` lists all components with their status, and every hazard at its
line with the property that is about it.

## 2. The modules

Modules marked (abstract) state what a component promises; the detailed module
beside it is shown to implement it by a refinement mapping.

| module | models | a step is |
|---|---|---|
| `RouteSet` (abstract) | an outlet as a set of destinations | a connection or disconnection |
| `RoutingTable` | `Core/RoutingTable.cpp`, one thread | a whole function |
| `ModuleRoutes` | `Module::addRoute`, `deleteRoute` on the TCP thread against `sendAudioTo` on an audio thread | a statement that touches the arrays |
| `TcpInbox` (abstract) | a machine's TCP messages | a message sent, handled or dropped |
| `LoTcpServer` | the TCP side of `liblo_new/server.c` | a system call, or the code between two |
| `ModuleNet` | `Coordinator`, `ModuleManager::module`, a module's reports | a handler; two steps where another thread can come between |
| `ModuleDirectory` | `ModuleList`, a manager's start and its answers | a handler or the part of one before and after a shared access |
| `Timer` | `Core/Timer.cpp` with the beats of porttime | a statement |
| `StreamingBuffer` | `StreamingBuffer`, `Volume`, the handlers of `DAC` | a statement, or several on one thread's own variables |
| `MethodList` (abstract) | a server's methods as a list | adding one, deleting all of a path and type |
| `ServiceMethods` | the linked list under `dispatch_method`, the life of an `ADC` and a `DAC` | a cell visited, unlinked, freed |
| `TimedQueue` (abstract) | a queue of messages by time | a packet read, messages handled |
| `LoQueue` | `queue_data`, `dispatch_queued`, `lo_server_recv`, `lo_server_wait`; two senders | a packet sent, read, a message handled, a wait that ends |
| `LoBundle` | `liblo_new/bundle.c`, `dispatch_data` | a call |
| `LoMessage`, `LoPattern`, `LoMethods`, `LoCoerce` | messages, patterns, the choice of methods, coercion: operators | |
| `LoStream` | SLIP, and how messages are cut out of a TCP stream byte by byte: operators | |
| `LoSockets` | who opens, keeps and closes descriptors: `server.c`, `server_thread.c`, `address.c`, `send.c` | a call of the library or of one of its threads |
| `LoAddress` | addresses, URLs, options of sockets | a call |
| `SerialInput` | the terminal, `SerialParser`, `CMManager`, the walk over `mList` | a read, a value, a module visited |
| `SerialDevice` | the life of a `Serial`, the callbacks of `ObjectManager` and `Object` | a statement that another thread can see |
| `AudioSource` | `AudioSource`, `Recorder` | a sample, or the statements between two accesses |
| `Effects` | `Delay`, `Lowpass`, `AMSynth` with `SawAM` | a sample, a coefficient, an order |
| `AudioDevices` | what `ADC` and `DAC` do with PortAudio when its calls fail | a handler |
| `ModuleTokens` | `MToken`, orders as text, `mIDofOSCPath`, the end of a coordinator | a call or a handler |
| `ModuleManagers` | several managers of one process, their shared methods, outlets | a call or a message |
| `SerialSound` | a control on the serial line that drives an `AudioSource` or an effect | composition |

How they compose: `ModuleRoutes` implements `RoutingTable`, which implements
`RouteSet`. `LoTcpServer` implements `TcpInbox`; `ModuleNet` and
`ModuleDirectory` use that promise as their network: TCP messages come in
order, the oldest may vanish while another is behind it, and a handler may be told
the address of some other sender. `ServiceMethods` implements `MethodList`,
`LoQueue` implements `TimedQueue`.

`SerialSound` joins `SerialInput`, `AudioSource` and `Effects`: a value parsed on the
serial thread goes through `sendDataTo` to a handler of another module, called on that very thread when
the route is to "localhost", sent as a datagram otherwise. What else a
process of MITAI does is carried in the same run as scenarios of their own, which do
not touch the rest: its sockets (`LoSockets`, `LoAddress`), its streams (`AudioDevices`), the tokens of
a coordinator (`ModuleTokens`), its managers (`ModuleManagers`) and the life of a `Serial`
(`SerialDevice`). An initial state chooses one scenario.

State keeps the code's names (`slot`, `aNum`, `mListIDArray`, `dtmp`, `rp`,
`upc`/`opc`/`wpc`/`spc` for where a thread is). Variables that only remember the
past for a property are named so in each VARIABLES list. Invariants named
`...Inv` are conjunctions of named parts, each with its comment.

### What each abstraction leaves out

* **Memory** is sequentially consistent at the granularity of the steps above;
  the compiler does not merge or cache accesses across them. An access to freed
  memory, through a null pointer or outside a vector is undefined: the model
  records it (`broken`, `crash`, `crashed`, `fault`, `wrong`, `undefined`) and that process stops there; in
  `ModuleRoutes` it is a nondeterministic choice between a lost frame and the
  old contents. Memory that was never written is any value the code tells apart.
* `RoutingTable`: addresses are hosts; `Strstr` says which paths a pattern is part of.
* `LoTcpServer`: a message is two parts, length and body; bytes are in `LoStream`. No
  UNIX sockets, no bundles.
* `ModuleNet`: the list of managers is complete; modules have one inlet and one
  outlet; the application makes one call at a time. A restart empties memory and
  the inbox.
* `ModuleDirectory`: names, icons and paths are model values; datagrams get lost
  (at most `MaxLost`), delayed and reordered.
* `Timer`: `dataCallback` only. Audio callbacks, kept by the same code in other vectors, are registered by `AudioSource`
  alone (`AudioSource.cpp:243-251` and 285) and by the services that contain one (`AMSynth`, `Twinkle`); no Makefile builds
  these. What the timer makes them render is `Beat` of `AudioSource`.
* `StreamingBuffer`: `rp`, a float in the code, counts `Unit` parts of a
  sample; the smoothed rate stays or moves by one part at a step, between one
  part below and one part above a sample. Samples have no values.
* `ServiceMethods`: one method per (path, last component and types). A manager's `RequestML` methods
  are never deleted because `main` never ends (`ModuleManagers` has processes that do).
* `LoQueue`: time counts 0.01 s; fractions of a time tag, a handler that switches the queue, and
  messages of a TCP server in the queue are left out. Bytes are those of the packets, complete.
* `LoPattern`: patterns whose scan leaves the string (those that end in `[!`, or in a list with an empty last
  alternative) are left out.
* `LoCoerce`: numbers are counted in halves and have 3, 4, 5 and 7 bits for 24, 32, 53 and 64, in the same
  order; what C leaves undefined is what two builds make of it ("x87", "arm").
* `LoStream`: `Least` and `StreamMax` scale 64 and 32768; counts are below 256; what a SLIP read writes behind a full
  buffer does no harm.
* `LoSockets`: of 17 ports two are tried; names, hosts and interfaces as such are in `LoAddress`; no IPv6, no
  Windows; memory is there; two threads do not change the array of sockets at one time; once an answer goes to
  a socket of somebody else, nothing more is looked at.
* `LoAddress`: a text is a sequence of tokens, `sscanf` what it returns, `inet_pton` takes the texts in `IPv4`; a free port is 80;
  error numbers and the flag for SLIP are left out.
* `SerialInput`: the terminal gives whole lines; 10, 13 and 4 are what they are to it. `Ring` and
  `ReadMax` stand for 1024 and 255, a frame is 5 bytes long, not 17. What is made while the walk stands at a freed
  module is another module, though its memory may be the same: going on from what was freed is undefined either way.
* `SerialDevice`: what is read and written is not looked at; the walk over `mList` is one step.
* `AudioSource`: a position counts `Part` parts of a sample; negative rates, packets of another size than the buffers,
  volumes and samples' values are left out.
* `Effects`: `Size` places for 44100; gains and values are left out; what counts is which sample is heard again, with
  which coefficients, at which place.
* `AudioDevices`: PortAudio as its header promises; `Pa_CloseStream` does not fail.
* `ModuleTokens`, `ModuleManagers`: one call or message after the other; the threads are in `ModuleNet`, `ModuleDirectory`
  and `ServiceMethods`. `PointerSize`, the memory a name gets (`MToken.cpp:25`), depends on the build: 8 in the run, as on
  64-bit machines; on a 32-bit board it is 4, so that names of four letters are too long already. The theorem is for any.

The theorems are in `ModuleTables_proofs`, `LoTcpServer_proofs`, `ModuleNet_proofs`, `ServiceMethods_proofs`,
`LoQueue_proofs`, `AudioPath_proofs` and `SerialSound_proofs`, the lemmas about sockets in `LoSockets_proofs` (section 5).

## 3. The runs

| run | instance | shows |
|---|---|---|
| `routing_table` | 2 hosts, 3 paths, 4 slots; patterns that match two paths or one | compact, no duplicates, order kept, implements `RouteSet` |
| `module_routes` | 4 destinations sharing hosts and paths, 3 slots, 3 addresses (symmetric) | a frame reaches everything below the lowest slot released meanwhile; every live address is owned once; implements `RoutingTable` |
| `tcp_server` | 3 connections from 3 hosts, one with two messages | bytes stay with their connection, messages whole, once, in order; the oldest is served; the address told is the newest connection's; implements `TcpInbox`; every closed connection is removed unless a stale `errno` keeps it |
| `tcp_server_lost` | as `tcp_server` | violated: a message that was read is thrown away |
| `module_net` | 2 managers of one kind on 2 machines, 2 ids, 4 calls, 1 restart | tokens, modules and routes agree up to the messages under way; crashes only in the cases named; tokens come and doomed modules go |
| `module_net_wrap` | 1 id, 3 calls | violated: when ids wrap, the new module is deleted in place of the earlier one |
| `directory` | `main.cpp`'s two managers, one coordinator, 2 copies of which 1 may be lost | every manager is found whoever starts first; indices right unless two threads add at once; crashes only between registration and information |
| `timer` | 2 clients, intervals 2 and 3, beats of 2, 5 beats | nothing undefined unless the threads meet; everyone called as often as the interval fits |
| `streaming_buffer` | ring of 4, packets of 2, thirds of a sample, 2 sizes, 2 volumes | plays only what is there (one kind of underrun apart), volume kept, resumes |
| `service_methods` | an ADC made once, a DAC made twice, 9 cells | freed memory read only where the walk stood, or through forgotten methods; else every message delivered; implements `MethodList` |
| `bundle_queue` | 1 message and 3 bundles with up to 3 elements, 3 times, packets of another sender, 64 bytes, patterns of up to 3 parts on texts of up to 3 characters, streams of up to 64 bytes cut everywhere | memory, bytes, times, order and sources of bundles; implements `TimedQueue`; everything delivered; which methods a message reaches, what is coerced; how streams are cut |
| `serial_sound` | one scenario per initial state: 10 lines from a device, 9 recordings, 6 uses of effects, 8 of sockets, 9 of addresses, 5 of a coordinator, one of PortAudio, 3 of a `Serial`, one of two managers | see the properties below |

The properties of `serial_sound`:

* `LineInv`: the values parsed are those the device meant, unless a byte was lost or the terminal took one; the parser spins,
  and the walk over `mList` uses freed memory, only in the cases named; and `ValueFollows`: from one
  end to the other, the rate of the `AudioSource`, the duration, q or frequency of the effect is what the device sent last.
* `SoundInv`: what `render` may touch, what is undefined only in the cases named (`FaultExplained`), and that each packet is
  passed on once (`EachPacketOnce`).
* `EffectsInv`: the echo is as old as the duration ordered (in the cases the code gets right), a sample is filtered
  with coefficients of orders that were under way, the level goes down after a stop.
* `SocketsInv`: every descriptor is open exactly as long as somebody keeps it, apart from the leaks named; threads
  end before what they use is freed, unless they stopped themselves.
* `AddressInv`: what a URL says comes back, in the cases named; options are as asked for; memory nobody wrote is not read
  but through `sscanf`'s EOF.
* `DevicesInv`: PortAudio calls nobody who is gone; a module whose calls all succeed is heard unless another one's failure
  robbed it; pointers never set are used only in that case.
* `ObjectsInv`: tokens have the names and the manager they were made with; what is deleted by an ending coordinator; methods
  live as long as their owner, and are heard until another manager goes; the thread that reads is the one the `Serial` knows
  of, settings come back only where the code brings them back, and each undefined access has its reason.

Why the bounds are enough:

* `RoutingTable` and `ModuleRoutes`: with three used slots there can be one before
  and two behind a released one, the loop copies twice, the table fills up, and
  freed memory may or may not be what the next address gets.
* `LoTcpServer`: one connection is served, one waits behind it, one is not accepted
  yet; two messages on one let the second be buffered behind the first.
* `ModuleNet`: two managers with the same path on two machines are what a wrong
  address confuses; four calls make two modules, connect them, and disconnect or
  delete one. `NID` is 128 in the code; 2 and 1 make it wrap within the calls.
* `ModuleDirectory`: two copies in place of three let one come late, twice or never.
* `Timer`: of two clients one can go before or behind the other; the intervals
  leave every remainder of a beat of 2.
* `StreamingBuffer`: the ring holds two packets, the level is reached within one or
  in the next; reader and writer meet at every distance a ring of this size has.
* `ServiceMethods`: the second DAC's methods stand behind what the first left;
  the nine cells are exactly as many as are in use at most, so that freed memory
  always comes back in some order.
* `LoQueue`: three bundles nest twice and share one; times before, at and after the arrival, two of them the same; packets of
  64 bytes are cut inside and exactly behind an element. In `LoStream` the limit is eight times the smallest buffer,
  so that the buffer grows step by step, and every cut of streams of one or two messages is tried.
* `SerialInput`: lines go round the ring three times, fill a read exactly, and hold every special byte; of three modules
  the one in the middle comes and goes, also behind the others, beside every step of the walk.
* `AudioSource`: recordings of 0 to 4 samples against packets of 2 and a rate of up to one and of a quarter; three orders
  switch recording on, off and on, or play meanwhile.
* `Effects`: 8 places hold 4 packets; durations of nothing, of everything and in between.
* `LoSockets`: 4 descriptors make a number come back at once; two servers, one address, two peers.
* `LoAddress`: every form `sscanf` tells apart, and its beginnings.
* `AudioDevices`: four modules in four places, two failures: one hurts itself, one another. `ModuleTokens`: ids of one, two
  and three digits, names of 6 to 9 letters. `SerialDevice`: two devices, one of which may be missing; four calls close,
  open, open again and destroy. `ModuleManagers`: two managers, five calls make, describe, readdress and destroy one, or fill it and destroy it.

`CHECK_DEADLOCK FALSE` stands where a model stops because its bound is used up or
its process died: connections (`LoTcpServer*`), calls (`ModuleNet*`), datagrams and
starts (`ModuleDirectory`), beats (`Timer`), makings (`ServiceMethods`), packets (`LoQueue`), lines, orders and calls
(`SerialSound`). `RoutingTable`, `ModuleRoutes` and `StreamingBuffer` are checked for deadlock.

### Fairness

* Weak fairness of the server threads (`Server` in `LoTcpServer`, `Coordinate` and
  `Manage` in `ModuleNet`, `UDP`, `CoUDP`, `CoTCP` in `ModuleDirectory`, `ServerRuns` in `LoQueue`): liblo's `thread_func`
  loops until the program ends. Of `Main` in `ModuleDirectory`: `main` goes on. Of the clock (`TimePasses` in `LoQueue`).
* Weak fairness of a client's `Close`: `lo_address_free` follows every `lo_send`, and
  the kernel closes for a process that died. Sending is not fair.
* `StreamingBuffer`: the UDP thread finishes its handlers, PortAudio goes on
  calling (`WF`), and packets keep coming (`SF(PushStart)`: whatever else comes in
  between, a packet arrives again and again as long as the other end plays).
* No fairness for the application, restarts, losses or new connections; none in `SerialSound`, which has safety properties only.

## 4. What the runs taught

Two runs end in a violation of what the repository says of itself (`findings`):

* `lo_lowlevel.h:783` says that a message received will be dispatched. In
  `lo_server_recv_raw_stream` (`server.c:1211`) the loop over the sockets runs down to the
  listening socket after a message was cut out; when a connection is waiting there, the jump to
  `again` overwrites `data`. Later modules live with it: `TcpInbox!Drop`.
* `Coordinator.cpp:54` says that a module registered earlier under the same id
  is deleted. The call goes through `mListIDArray`, which by then names the new module's manager.

Other behaviours are stated as exceptions in properties.

**The built program**

* `AddressOfNewest` (in `ServedInTurn`), `disturbed` in `ModuleNet`: a handler may be told another sender's
  address; then a token names the wrong machine until the process restarts. `NodesInv`, `GetsToken` and
  `Goes` excuse modules and ids so disturbed, by a wrong sender, a restart, a lost report or an id that came round: what
  happens to them is not claimed to be right. `module_net_wrap` shows the last of these.
* `CrashExplained`: connecting a module whose token goes at that moment makes
  `std::map` produce a null pointer.
* `PlaysWhatIsThere`: stale samples are played in two ways. The writer comes
  round the ring while `pop` works with a distance it computed once; or the reader passes
  the writer by part of a sample exactly at the end of a packet, and the next
  `pop` takes the negative distance for nearly a whole ring.
* `VolumeKept`: a stop between the two assignments of `setVol` makes 0 the volume to return to,
  until the next one is set.
* `DefinedUnlessRaced` (in `TimerInv`): registering or removing a callback during a beat may use a
  counter that is not there.
* `OnlyForgottenStay` (in `MethodsInv`), `BrokenExplained`: `~DAC` deletes `/Audio bb` and `/Data ii`, which
  are not what it added. The two methods stay with a dangling pointer, and since the first
  that matches ends the dispatch, a DAC made again under that path is not reached by `/Data` or by stereo audio.
* `WildExplained` and `StreamsHeard` (in `DevicesInv`): a module that could not open its stream starts and stops it all the same, through
  a pointer that was never set, if another module keeps PortAudio initialized; an `ADC` that failed terminates
  once more than it initialized, and so closes another module's stream.
* `ManagersInv`: a manager whose icon file is missing announces a null blob; destroying one of several managers takes the requests
  (and with the same address the route orders) from the others; a second `setMInfo` leaves a method of the first address
  behind; of managers with one address, as in `main`, only the oldest gets its route orders; orders with the types `ss` read a third
  argument that is not there; sending floats ignores how many outlets there are.
* `TokensInv`: `inputInfo` also lists the outputs; a name that is not listed means manager 0, or none at all; names of as
  many letters as a pointer has bytes, 8 or 4, and longer ones are written behind their memory; an id given out again forgets its manager; a coordinator that ends leaves modules
  without tokens alive and walks on from a list node it has freed.
* `SocketsInv`: `Server::Server` leaks a descriptor for each port in use, and a second MITAI on a machine spins in it for ever.

**liblo**

* `HandledInv`: who sent a queued message is looked up when it is handled, and is then the sender of the packet read last. Queued
  messages are handled up to 10 ms early; a late one that is handled as it comes overtakes others that are due.
* `PacketInv`: a bundle that `recvfrom` cuts exactly behind an element is taken for a whole one; the end handler is not called
  for a bundle with an element that cannot be read; a packet with an escaped byte does not survive SLIP; a SLIP stream is
  recognised only if the first read brings four printable bytes, and behind the leading SLIP_END that `detect_slip`'s comment says it
  handles (`server.c:863`) nothing is dispatched; once more than 16384 bytes of a message are in the buffer the loop
  that makes room (`server.c:969`) never ends, though liblo sends up to 32768 (`send.c:435`).
* `DispatchExact`: in the list `{a,ab}` the second alternative is never tried; behind a list, the character after a comma is
  skipped; negative numbers become 0 as unsigned integers on ARM builds, an `int64` that becomes a float is rounded twice there.
* `SocketsInv`: an address keeps the number of a TCP socket lent to it after the server closed it; an answer that fails closes
  the server's socket or leaks one; a thread that stopped itself is freed or started again under its feet, one that could
  not be made is joined.
* `AddressInv`: `sscanf`'s EOF counts as success, and port or host are memory nobody wrote; the second group of an IPv6 address
  is taken for the port; names of services get lost in URLs; an unknown host becomes localhost; TCP_NODELAY on an open connection gets the
  opposite of what was asked (against `lo_lowlevel.h:466`); time to live and interface of one address stay on the socket all share.

**The modules that are not built**

* `SerialInv`: the terminal changes or swallows data bytes 13, 10 and 4; a line longer than 255 bytes, or a lost byte, puts the parser out of
  step, so that it goes round its ring for ever; the walk over `mList` uses modules that are deleted meanwhile.
* `PortInv`: `setDevice` starts the thread though the device is missing, which then reads -1 over and over; descriptors are never closed;
  only the settings of the last device, opened once, come back; the device may be heard between the two assignments of
  `setCallback`; `/Intensity` is a method before `Object` has its callback and after it is deleted.
* `SoundInv`: `/fData` takes the bits of a float for an integer; playing may start in the middle of a recording; the recording's memory
  changes during rendering; the method `/Audio` of the constructor stays, as `init` has `/AudioIn`.
* `EffectsInv`: `ps - 1` is compared as unsigned, so that a duration of 0 or of the whole buffer leaves the buffer; the echo
  is one sample late; a new q counts from the next frequency on, and q = 0 makes the output NaN for ever; the frequency 255
  reads `fTable[258]`, one that a control cannot send reads other memory; packets after a stop have fewer zeros than meant.

## 5. What is proved

TLAPS checks these for every value of the constants that satisfies the modules' assumptions. A module's theorems are in
`<module>_proofs`; those about the parts of `SerialSound`, which have no specification of their own, are in `SerialSound_proofs`,
which extends `LoSockets_proofs` for the sockets; those about `Timer`, `StreamingBuffer` and `RoutingTable` together are in `AudioPath_proofs`,
those about `ModuleRoutes` and `ModuleDirectory` in `ModuleTables_proofs`. Models that are proved about together share no name, so that one module can
extend them all: their specifications are called `BufferSpec`, `TableSpec` and `DirectorySpec`.

| theorem | says | argument |
|---|---|---|
| `AudioPath_proofs!RouteSafety` | `RouteInv`: typed, compact, no duplicates | inductive as it stands: `setRoute` refuses duplicates and full tables, both deletions shift |
| `AudioPath_proofs!RouteOrder` | `OrderKept` | from `RouteInv` (uniqueness lets one follow a route to its new slot), one lemma per operation |
| `AudioPath_proofs!RouteRefinement` | implements `RouteSet` | `routes` is the range of the used slots; no duplicates makes its cardinality `aNum` |
| `ModuleTables_proofs!TableAgrees`, `Prefix`, `Covers` | `TableInv`, `PrefixDelivered`, `FrameCovers` | see below |
| `ModuleTables_proofs!Refinement` | implements `RoutingTable` | see below |
| `LoTcpServer_proofs!Stream`, `Served` | `StreamInv`, `ServedInTurn` | see below |
| `LoTcpServer_proofs!Refinement` | implements `TcpInbox` | see below |
| `ModuleNet_proofs!Nodes`, `Crashes` | `NodesInv`, `CrashExplained` | see below |
| `ModuleTables_proofs!Directory` | `ListInv` | see below |
| `ServiceMethods_proofs!LinkedList`, `Explained`, `DispatchReaches` | `MethodsInv`, `BrokenExplained`, `Delivered` | see below |
| `ServiceMethods_proofs!ListRefinement` | implements `MethodList` | see below |
| `AudioPath_proofs!Invariant` | `TimerInv`: types, and `DefinedUnlessRaced` | see below |
| `AudioPath_proofs!CalledOnBeat` | `OnBeat` | see below |
| `LoQueue_proofs!Handling` | `HandledInv` | see below |
| `LoQueue_proofs!QueueRefinement` | implements `TimedQueue` | see below |
| `AudioPath_proofs!BufferAgrees` | `BufferInv`: types, `Audible` | see below |
| `AudioPath_proofs!NothingElsePlayed`, `VolumeAgrees` | `PlaysWhatIsThere`, `VolumeKept` | see below |
| `SerialSound_proofs!Devices` | `DevicesInv` | see below |
| `SerialSound_proofs!EffectsFollow` | `EffectsInv` | see below |
| `SerialSound_proofs!Objects` | `ObjectsInv`: `TokensInv`, `ManagersInv`, `PortInv` | see below |
| `SerialSound_proofs!Sounding` | `SoundInv`: types, `FaultExplained`, `EachPacketOnce` | see below |
| `SerialSound_proofs!Walks` | `WalkExplained`, the part of `LineInv` about the modules | see below |
| `SerialSound_proofs!Datagrams` | `SentAsWanted`, the part of `AddressInv` about the shared socket | see below |
| `SerialSound_proofs!Sockets` | `SocketsInv`: types, `SocketsKept`, `ClientSocket`, `ThreadsEnd` | see below |

**ModuleRoutes.** In the middle of a deletion the two arrays hold neither the old table nor the new one. The invariant
(`WriterInv`) says what they hold with respect to the table as it was before: everything below the released slot, then a
hole that moves up - at `wj` what stands in slots below it has come down by one place, what stands above has not - and that
every allocated address is owned by exactly one slot but the hole. `Frame` says that the audio thread is right about the
slots below `low`, the lowest slot released since the frame began: no statement touches a slot that is both below `low` and
below `aNum`. `TableAgrees`, `Prefix` and `Covers` follow. For the refinement an operation happens where its last
statement does; until then `RoutingTable` sees the table as it was.

**LoTcpServer.** The server polls all its sockets but reads only the first. So `BufferInv` says: of the first connection the messages
`1 .. CutNum` have been cut out, and its buffer begins with the part behind them; all other connections, in the array or in
the backlog, are `Fresh`, which is why it does no harm that contexts stay behind when the array's entries move. `addr`
is that of the last socket, whoever is served. What is dispatched is what was cut, less what was thrown away.

For the refinement, what the server owes of a connection are its messages after the first `DoneNum`, which are `CutNum` but
for the one it holds in `data`; the inbox is what is owed, connection for connection, in the order of the sockets and the
backlog (`Queue`). Connecting is `Send`, with all messages the client has; accepting moves a connection from the backlog to
the end of the array and leaves the queue as it is; dispatching is `Handle`, throwing away `Drop`, a client that closes before its last
message is complete `Die`, and removing its connection `Forget`. A message is thrown away only while another connection waits (`InboxInv`), which is when the promise allows it.
`Queued` is defined by recursion over the sockets; that such a queue splits at a connection is proved by induction over its
length, from the well-foundedness of the natural numbers (`WFMin`), as the library's induction theorems cannot be used.

**ModuleNet.** A node id has a life (`Life`): its order to create waits; the module exists and its report waits; it exists and has
its token; it is gone and one report or two wait; all is gone. At each of these points it is fixed which messages about the
id are on their way, at most one of each kind and `set` before `unset`. `Addressed` says that they go between the coordinator and the
one manager that was asked, `Orders` that connections are ordered only between modules with tokens, and that a module's route is wanted exactly if
the last order about it that waits adds it, or it is there and none waits (`Becomes`). All this is claimed of ids that
nothing disturbed - a restart, a wrong sender's address, an id that came round - and `disturbed` only grows. `CallInv`
adds the call that is between its test and its use; `Crashes` follows from it.

**ModuleDirectory.** An entry that a thread is about to push is not listed yet and has the index it will get, unless the other
thread is adding, too (`AddingInv`); then the list is `overlap` and nothing more is claimed. The walk of a request through the managers'
`requestML` stands where a method is (`WalkInv`), and `init` makes a manager's method, so that
only the one `main` is just starting may lack what `setMInfo` sets.

**ServiceMethods.** The heap is the list: `Linked(heap, first, L)` says of a sequence `L` of cells, which is no variable, that each
leads to the next and the last to none, and every step keeps the invariant `Good` for `L`, for `L` with a cell behind it
(`addMethod`) or without one (`Unlink`). The only other allocated cell is the one a deletion is about to free; its `next` leads
into the list, so that the deletion goes on there, and a walk of the UDP thread, too (`AdvanceKeeps`). `CellGood` says
whose method a cell can hold: of a module that is there, of one that is dying and has still to delete it (`StillTo`, from how much is
`Left` of its destructor), or a forgotten one. When a deletion ends, it has passed every cell of the list (`Stands`), so that
none with what it deletes is left. That `From`, which follows the cells by a recursive function, yields what the cells
of `L` hold (`FromIs`) is proved by induction over its depth, as are the function's existence and that no list is longer than the heap.
For `DispatchReaches` the invariant knows the place `p` in `L` where a walk goes on (`Ahead`): every method before it that the message found when
it came has been called (`Before`). A method taken out in front of it moves the place down, and from a cell that was taken out under the walk, but is not yet
freed, the walk still comes to the place behind it. A method that is added is none the message found (`NewGood`): its
constructor still had to add it, and adds each but once (`AddOnce`).
For the refinement a deletion takes effect when it begins: until it ends, `MethodList` sees the list without what is being deleted (`Promised`).
That taking out one cell changes nothing of that (`KeptWithout`), and that nothing remains once every cell was passed (`KeptShorter`), is
proved by induction over the length of the list.

**Timer.** Between operations the four vectors are parallel, but an operation takes five
statements in which they are not, and beats may go on. The invariant therefore speaks of the vectors *as
they will be when the operation under way has ended* (`Callbacks`, `Owners`, `Periods`, `Counters`): they
have one length, no owner twice, and each counter is balanced: calls times
interval plus counter is time. A counter is NULL only where the removal has freed it.
All this as long as the threads have not met (`raced`).

**StreamingBuffer.** `left`, the distance by which the reader is behind, is not what
the code computes: `Apart` says that they agree up to a multiple of the ring. `Counting`
says that `pop`'s own countdown `od` never exceeds `left` unless it began
misread; pushes only make `left` larger. `Excluded` says that the two threads are never both
between their mutes and flags: the writer starts only a buffer that does not play, the
reader stops only one that does. `Copying` follows the volume through the two assignments of `setVol`.
`RingInv` is their conjunction with the properties, and is inductive.

**LoQueue.** `ListGood`: the list is ordered by time, and by arrival among messages of one time, since `queue_data` puts a message behind
all that are not later. `DoneGood`: each answer is right (`WellAnswered`: not before its time unless the queue is off, the sender only wrong
if it was queued), and fits every later answer and what is still in the list (`Suits`). A message's place is the least number of one with a later
time, which exists by the well-foundedness of the natural numbers; `dispatch_queued` takes the messages before the first one later than the
first, which are those of the earliest time. Of a packet the proof uses no more than that the times of its messages are
numbers; `Receive` takes them in turn by a recursive function, whose existence (`TakenExists`) and whose values (`Enlarged`: only new messages
come, all old ones stay, the answers are in the order of arrival) are proved by induction on their number. Every step leaves list and answers alone, is
`Enlarged` or answers the first messages (`Gave`), and these are `TimedQueue`'s steps.
That times are numbers is a guard of `PollData` that never refuses: `TypeOK` of `HeapInv`, which TLC checks, says so of every packet on the wire.

**AudioDevices.** A handler is a course of PortAudio's calls, of which one may fail; each call has a lemma about what it takes, gives
back and leaves alone, and each handler is the chain of its calls. Between any two of them (`Sane`) the objects that have initialized PortAudio and not
terminated it are as many as PortAudio counts, until a handler terminates once too often what another one initialized; from
then on PortAudio counts fewer (`Tallied`). Of every object no handler is at work with it is settled
whether it holds PortAudio, and what its stream may be (`Settled`).

**Effects.** `DelayEven`: with an unchanged duration the places are written in turn, so that the age of what a place holds
is known from the position (`NewestAt`), as long as no duration was ordered that lets the position leave the buffer; a place
older than the last clearing holds nothing. `FilterGood`: a coefficient is what the last order wants or is still to be
calculated; what a packet has taken is as wanted unless an order came in between; a coefficient made of q = 0 implies
such an order. `SynthGood`: since the last value, as many zeros were sent as `sent0` has grown.

**Tokens, managers, Serial** (`Objects`). `TokGood`: an id that was given out but once stays with the manager it was given out for (`Where`):
its order, its module, its report and its token name that manager, whose names are a function of its announcement (`ListEntry`); when a
coordinator ends, every module and every order to make one has an order to delete it behind it (`Doomed`), or is one of those left. That the text of an id
names no other id is `Text`'s injectivity (`DigitsOf`). `MgrGood`: each method in the list is a manager's route, its order method at one of its
addresses, or a module's route (`Registered`); the managers' routes stand in the order in which the managers were made (`InOrder`), so that the first that matches
is the oldest's; whoever is not deaf has them all (`Answering`). Which method `Found` yields and what deleting leaves
(`Left`) are recursive functions, whose existence and values are proved by induction over the list. `PortGood`: the thread is alive only if the `Serial`
knows of it and has not yet joined it (`ThreadGood`), and a device has its own settings exactly while nobody has opened it (`SettingGood`).

**AudioSource** (`Sounding`). `InTurn`: the UDP thread handles a packet or renders it, never both, and
a handler meets a rendering timer only if `met` says so. `Recorded`: what memory and size the recording has at each step of the handler that frees or enlarges it.
`Placed`: the position that `render` reads at is inside the recording, as long as no handler met it and nothing was resumed. A packet is
being mixed, is under way, has been passed on once, or never will be (`PacketGood`); how often it was passed on is the cardinality
of its places in `passedOn` (`Times`). The values that orders carry are integers (`ValuesTyped`), which follows the bytes from the device
through the ring and the parser; the loops over a read are functions by recursion over its bytes (`Folded`), which exist and keep their type by
induction (`FoldExists`, `FoldTyped`).

**SerialInput** (`Walks`). The walk takes one value after the other to the modules of `mList`, which changes under it. `GivenGood` says of a module
that is there all the time (`Steady`) that it has the values of the walks that are over, and that of this walk exactly if its place is before
the walk's, or the walk has just been there (`Past`): places shift when a module is made or deleted, but never pass each other. As long as the walk's own
module is in the list, that is; once it is not, the next step is undefined, and nothing but that is claimed. `ListGood`: nobody stands in the list twice,
and while there were no orders it is what it was, so that what is undefined had an order before it. What a module was given (`GivenTo`) is a
function by recursion over all that was sent; that one more value is at most one more at its end (`GivenMore`) comes by induction.
The attempt found a mistake in the model: a module that was made again at once was taken for the one the walk stood at, and the
walk went on from it, past the others; with a module behind the one that comes and goes TLC finds it, too, and the run has one since.

**LoAddress** (`Datagrams`). `UdpGood`: the socket is set to what the newest of the datagrams wanted that wanted anything (`SetBy`), each
datagram went as those up to it had set the socket, and one datagram more changes nothing of the earlier ones (`SetMore`).

**LoSockets** (`Sockets`). A number that somebody keeps after its descriptor was closed is harmless until the kernel gives the same number
to another, so `SocketsInv` is far from inductive. `SocketsGood` says of the net, whatever failed: who keeps a number as its own (`mine`)
keeps that of an open descriptor (`NetOpen`); as long as no stranger's descriptor was touched, a server's first socket is kept in no other place
(`FirstsKept`), and what datagrams go out through is one of these (`ClientKept`). While no socket was lent to a server and no answer failed, every number that is
kept is open and kept in one place, the sources of messages but for the array they stand in (`CleanNet`), and then nothing is closed under anyone; and while neither a port was
in use nor an interface missing, nothing that is open is kept nowhere (`NoneLost`). Each function of liblo keeps these three,
apart from what the cause it records excuses (`Leads`), and an action is a chain of these functions. What is between two of them is said of
the net with one thing missing: a new descriptor that nobody keeps yet (`Untaken`), a server that is freed with its last `i` sockets closed (`Freed`), a
server without the socket that went (`Shed`), an address that is gone before its socket is (`Less`). The ports a server tries in vain (`Tried`) and
the sockets `lo_server_free` closes are functions by recursion, whose existence and values come by induction (`FoldExists`). Of the threads: one that is not off is
the one that its server, which lives, waits for (`Running`), as long as no handler stopped its own (`ThreadsGood`).

**The assumptions** are the named ASSUMEs of the modules; TLC evaluates them in every run. Sizes and counts are natural numbers, those that
are array lengths positive. Beyond that: there is a machine (`HostAssumption`), connections and objects are finitely many
(`FiniteAssumption`, `DevicesAssumption`); NULL is neither a manager nor a token (`NullAssumption`); a client that
connects sends at least one message, since `lo_send` is what connects (`ClientAssumption`); a manager's methods
are a sequence (`DirectoryAssumption`); no module is called `/ModuleManager`
(`ServiceAssumption`); of `fTable` only the last entry orders can name exceeds 255 (`TableAssumption`);
managers have different paths, and every name and a pointer have a length (`TokensAssumption`); the device a `Serial` starts with exists and nobody is
no device (`PortAssumption`); a coordinator's ids fit `NID` (`ScenarioAssumption`); devices send whole messages of bytes
(`SerialAssumption`); `Module` lists modules, none of them twice, and those that may be deleted are among them (`ModulesAssumption`); rates are integers, NULL and freed memory are no sizes (`SoundAssumption`);
descriptors are positive, at least one port is tried, and NIL is no server, no address and no kind of file (`SocketAssumption`).

**Only model-checked:** liveness (`Drained`, `GetsToken`, `Goes`, `Discovered`, `Resumes`, `Delivered` of `LoQueue`), which is out of
TLAPS' reach; the bytes of packets, the memory of bundles and the choice of methods in `LoQueue` (`PacketInv`, `HeapInv`,
`DispatchExact`); in `SerialSound` what the parser and the far end make of the line (`ParsedExact`, `SpinExplained` and `ValueFollows` of
`LineInv`), the texts of addresses and TCP_NODELAY (all of `AddressInv` but `SentAsWanted`): the URLs are read with `FoldLeft`, an operator of
the library that takes an operator, and `NodelayAsAsked` would need that NIL is no record, which no assumption that TLC evaluates says. The operators of
`LoMessage`, `LoPattern`, `LoCoerce` and `LoStream` are defined by recursion
over their data, and are compared with reference definitions over all inputs within the bounds.

## 6. Not modelled, and why

* porttime's sleeping, the protocols under the sockets, PortAudio but for what the code expects of it: libraries and I/O.
* `liblo/`: an earlier copy of `liblo_new/`, not built. `lib/`: binaries.
* `Server`'s destructor is never reached because `main` never ends.
* `/ModuleList/deleteMList` is registered as `sss` and sent as `sssb`, so that it is
  never dispatched; entries of a `ModuleList` never go. `disconnectAll` sends a message that nothing handles.
* `RoutesAgree` (in `NodesInv`) does not count a disconnect that the coordinator refuses because
  the far end's token is gone: the code promises nothing there.
* `XBeeController`, which nothing makes, and whose ring never wraps; `Twinkle`, a `SawAM` with another wave; `AudioMixer`, whose
  handlers cast the `StreamingBuffer` they get to an `AudioMixer`; gains, envelopes and samples' values.
* In liblo: printing, cloning and `lo_server_del_lo_method`, which nothing calls; allocations that fail; `select()`,
  Windows and IPv6 builds.

## 7. The plan

1. Proofs: the rest of `LineInv` and `AddressInv` of `SerialSound`; `HeapInv` of `LoQueue`, whose `RefsRight` counts references over folds and whose
   `Acyclic` follows the bundles' elements.
2. `SerialSound`'s independent scenarios as runs of their own, once the others can be joined.
3. The end of `Effects`' modules; `AudioMixer` as what its cast makes of it.
