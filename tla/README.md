# Verification of the Codey firmware

The repository is the firmware of Makeblock's Codey, an ESP32 board that runs
user scripts in MicroPython. The firmware's own logic is under
`micropython-esp32/ports/esp32/makeblock/src` (written `MB/` below) with
`ports/esp32/main.c`, `mpthreadport.c` and the frozen scripts of
`ports/esp32/modules`; the rest of the tree is MicroPython, ESP-IDF and their
libraries. This directory holds TLA+ models of the firmware's core, the TLC
runs that check them and TLAPS proofs about them.

What matters most to a user of the board is one sentence: *a script that is
uploaded arrives intact, runs, and is told what happens on the board*. The
frame parsers, the ring and the file transfer are about the first part of it,
the restart of the script about the second, the listeners of the sensors, the
event mechanism and the reads from neurons blocks about the third.

## Inventory

| Part | State it keeps | Operations | What makes it correct |
|---|---|---|---|
| File transfer, `MB/hardware/neurons/codey_neurons_ftp.c` | record of the open file (name, size, sums, 4096-byte write buffer, write index), one-place mailbox for the name of a received file | header, block, other commands; read of the mailbox | bytes reach the flash once and in order; the status of the last block tells the truth; the mailbox names a file that is whole |
| Host and link, `document/file_to_hex.py`, `MB/bt/codey_ble_sys_dev_func.c` | position in the file, frame in flight | send header, send block, retry | an acknowledged upload is stored; an upload ends |
| Script restart, `MB/codey_sys_operation.c`, `MB/hardware/neurons/codey_neurons_deal.c`, `main.c`, `mpthreadport.c`, `MB/sys/codey_dtr_req.c` | interrupt reason, restart flag, status of main.py, pending exception, mutex of the file system, two binary semaphores | request, suspend, interrupt, wait, reset, mount, run; DTR request and answer | the new script runs; nobody waits forever; nobody dies with the mutex; DTR is granted only when files are quiet |
| Receive ring, `MB/utils/codey_ringbuf.c` | `iput`, `iget`, bytes | put (BLE task), get (communication task) | FIFO; bytes are lost only when it is full |
| Frame parsers, `MB/sys/codey_comm_protocol.c`, `codey_ff_55_comm_protocol.c` | one automaton per channel and protocol | pump a byte | index in bounds; resynchronises; a good frame after garbage is found |
| Event mechanism, `MB/hardware/onboard/codey_event_mechanism.c`, `modules/codey_event_board.py`, `codey_main_loop.py` | table of events, occurred flags, a lock and a thread per callback | register, trigger, poll, run the callback | a trigger runs its callback, not more often than it should; the main loop survives |
| Sensor listeners, `MB/hardware/onboard/codey_button_board.c`, `codey_gyro_board.c`, `codey_event_mechanism.c` | static flags: reports of a press, side of a threshold, tilts held | sample every 10 ms | one press, one crossing, one tilt is one event, also in the next script |
| Neurons engine, `MB/hardware/neurons/neurons_engine_*.c` | ring of commands, read command, two semaphores, list of blocks | read, send, push, pop, answer; assign addresses | a read returns the answer to its own command; every call returns |
| Shared variables, messages, sensor report: `MB/hardware/onboard/codey_super_var.c`, `MB/sys/codey_message.c`, `codey_sensor_report.c` | tables | set, get, report | not modelled |
| Baud rate, `MB/sys/codey_baudrate_setting.c` | current rate | set (there is no confirmation and no fall back) | not modelled |
| Drivers, WiFi, FTP server (disabled: `CODEY_FTP_TASK_ENABLE 0`), OTA, product test | hardware | | not modelled |

How they interact. Bytes come from BLE callbacks and UART drivers into rings;
the communication task (`codey_neurons_deal`) pumps them through the parsers;
a complete frame calls a protocol handler, of which the file transfer, the DTR
request and the shared variables are three. Handlers run to completion in the
communication task. After each round over the channels the task reads the file
transfer's mailbox; `/flash/main.py` makes it set
`g_user_script_interrupt_reason` to 2 and then `g_esp_restart_flag`. The main
task polls that flag, takes `g_fatfs_sema`, suspends the script's threads,
puts a KeyboardInterrupt into `mp_pending_exception`, gives the mutex back and
waits until `s_main_py_exec_status` says that the script runs. `mp_task`
leaves the script on the interrupt, looks at the reason, deletes the threads
and starts over. None of these variables is protected by a lock.

The sensor task samples the board every 10 ms and calls the listeners, which
call `codey_eve_trigger_t`; so do the handlers of messages and the script
itself. The main loop of the script polls the flags and releases the locks the
callback threads wait for. A callback that reads from a block puts a command
into the engine's ring, and waits until the communication task has sent it and
the answer has come; the restart suspends and deletes such threads wherever
they are.

What is hard: the flags above are tested and set in different tasks in
separate steps; semaphores survive the timeout of the task that waited for
them; responses get lost and frames are sent again; a flash write can stop
short; power can go at any time; the interrupt is taken by whichever thread
looks first; a byte on a line is altered or lost; the GIL is given inside the
methods of a lock; a static flag of a listener outlives the script it was set
for; an answer comes when nobody waits for it any more. `PROJECT.json` lists each of these hazards with its line and the
properties that would catch it.

## Modules

| Module | Models | Extends |
|---|---|---|
| `CheckSum` | meaning of `calc_check_sum`: lane-wise parity | |
| `CheckSumLoop` | the loop of `calc_check_sum` as it is coded | `CheckSum` |
| `FileTransfer` | abstract specification: a transfer without buffer | |
| `NeuronsFtp` | `codey_neurons_ftp.c` | `CheckSum`; instantiates `FileTransfer` |
| `FtpSession` | host, lossy link and device together | `NeuronsFtp` |
| `BleRing` | write events of the BLE task, the receive ring, the rounds of the communication task | |
| `CommFrame` | the F3 and FF 55 parsers of a channel, the frames of the host and the line between them | |
| `ScriptRestart` | communication task, main task, `mp_task`, a thread | |
| `EventMechanism` | table of events, main loop, callback threads and their locks | |
| `BoardEvents` | the listeners of a button, of light and sound, and of the gyroscope | |
| `EngineRead` | reads and sends of the script's threads, ring of commands, communication task, restart | |
| `NeuronsFtpProofs` | theorems about the check sum, its loop, the file transfer and its refinement | `NeuronsFtp`, `CheckSumLoop` |
| `FtpSessionProofs` | theorems about the session | `FtpSession`, `NeuronsFtpProofs` |
| `BleRingProofs`, `CommFrameProofs`, `ScriptRestartProofs`, `EventMechanismProofs`, `BoardEventsProofs`, `EngineReadProofs` | theorems | the module they are about |
| `MC*` | constants for TLC | |

### CheckSum and CheckSumLoop

A byte is the set of its one bits, so that xor is symmetric difference; a word
is four lanes. `calc_check_sum(s)` is defined without recursion: bit *b* of
lane *l* is the parity of the bytes in lane *l* that have *b*. This is the
reference definition. `CheckSumLoop` has the locals of the C function (`idx`,
`oxr_check`), one action for a whole word, one for the short last word and one
for the end of the loop, and is checked and proved to return the reference.

### NeuronsFtp and FileTransfer

`file_info` is the static record of `codey_neurons_ftp_parse`. One command is
one action, because the communication task runs a handler from its first
instruction to its last, and the mailbox is read by the same task. The
outcomes of a command are separate actions: `HeadOk`/`HeadFail`, `BlockMore`,
`BlockFail`, `BlockLast`, `Refuse`. Contents of `flash_write_buf` and
`flash_write_buf_cnt` are one sequence; the bytes behind the count are not
read by the code. `Writes(total)` is the nondeterminism of the storage: all
bytes written, or (with `StorageFaults`) any smaller number, which covers the
mutex not being had in a second and the three fruitless tries of `f_write`.
`PowerCycle` drops the record and leaves a file that was not closed with the
size of its directory entry. FatFs itself, `malloc` and the mutex are external
and modelled by how this code uses them. `f_chdir` and the split of a full
name into directory and name are not modelled: a name is a model value.

`FileTransfer` is what the service promises without its buffer: the flash
holds a prefix of the accepted bytes, all of them when the last block is
answered, and the answer is the comparison with the announced sum. Its action
`LastWriteLost` states the one exception the code makes (see Findings).

### FtpSession

The host of `file_to_hex.py` sends a header and then blocks with ascending
offsets. The script itself prints frames; that the host waits for each status
and sends a frame again when none comes is taken from the protocol's
description and marked external. `link` is what is in flight. Frames are lost
when the ring is full (`codey_ble_sys_dev_func.c:392`) or a check sum is wrong,
responses when `codey_ble_dev_put_data` fails. That a frame arrives whole or
not at all, and that the loss of one costs no other, is what `CommFrame` shows
for one altered byte in a frame.

### BleRing

The ring has no lock. What keeps its two tasks apart is the configuration:
one core (`CONFIG_FREERTOS_UNICORE`) and a BLE task of higher priority than
the communication task, so a write event runs from its first byte to its last
without the other task (`writing` blocks the steps of `deal`), while a get is
three steps, between which any number of events may come. C leaves open
whether `r->iget++` reaches memory before `r->iget &= r->size` corrects it;
because `r->buf` is a pointer to bytes, which may alias the index, gcc keeps
both stores and puts the first before the read of the byte. The constant
`Torn` says which build is meant, and the theorems cover both. A byte is the
number of bytes taken in before it plus one, so "in order" is an equation
between the byte read and the count of bytes delivered. `accepted`,
`delivered` and `overrun` are history variables; no guard but the bound
`MaxBytes` reads them. The time limit of a round is a free choice after each
byte, and the UARTs only decide whether there is another round. At least one
byte is read per round, since the 50 ms start with it.

### CommFrame

One step is one byte: `FsmStep` is the switch of
`codey_comm_protocol_pump_char` with an operator per case, `FwStep` that of
the FF 55 parser, and `Pump` runs both in the order of the communication task,
the second only when the first has produced no answer. The byte values, the
buffer and the table of handlers are constants, so the overflow of the 8-bit
sums (`Add`), the 16-bit length in two bytes and the two indices the code does
not compare with their arrays (`OverrunsData`, `OverrunsTable`) are all there
in small. `fault` records that an index left its array; nothing is said of
what the program does afterwards. The host sends the bytes of
`codey_comm_build_frame` one by one, so that a fault can hit any of them.
`sent`, `hit`, `clean` and `insync` are history variables: the contents that
crossed the line unharmed, the altered bytes of the current frame, whether the
faults so far are of the kind the protocol survives, and whether the FF 55
parser was before a header when a request began. `answered` says that the last
byte made the FF 55 parser produce an answer: the table has the command and,
when it asks for the channel (`ChannelPairs`), the index of the request is
below `COMM_CHN_NUM`. The answers are built in memory from `malloc`, which is
taken to succeed.

### ScriptRestart

Each task has a program counter (`comm`, `hook`, `mp`, `thread`) and every
access to a shared variable is a step of its own, except where the code holds
the only writer. A script is the number of the upload that wrote it, so
"`running = flash`" says that what is executed is what is stored. The file
transfer appears as the effect of its commands on the mailbox and on main.py.
`MpOpens` opens main.py under the mutex, as `pyexec_file` does; the reads of
the parser, which follow without the mutex, are part of that step.
main.py ends at its last line or on an exception (`MpEnds`), and the event loop
dies on one too (`MpLoopDies`, the `except` of `codey_main_loop.py`). The
threads, which main.py (`ThreadStarts`) or the loop has started, run on;
`main.c` then tests the reason, and with reason 2 goes to `mp_thread_deinit`
without anybody having suspended them. `raced` records that a script was left
in this way with a thread running; it says nothing of the mutex, and no guard
reads it.
Time is abstracted, with three exceptions that are stated as guards because
the code relies on them with a margin of at least an order of magnitude: the
three seconds after a DTR answer are longer than the waiter needs to take it
(`HookSuspends`), the 720 ms of the RGB indication are longer than a 50 ms
round of the main task (`MpOpens`), and ten seconds for the mutex pass only if
its holder is gone (`MpMountTimeout`). Other users of the mutex (music player,
library list) behave like `thread`. The wifi FTP server, which sets the same
flags, is disabled in `codey_config.h`.

### EventMechanism

`codey_eve_trigger_t` runs in tasks of higher priority than the interpreter's,
so a trigger is one step. The threads of the interpreter switch where the GIL
is given: at jumps of the bytecode and inside `acquire` and `release` of a
lock (`modthread.c`), before and after the mutex itself. So `release` is two
steps (the flag `locked`, then the mutex), `acquire` two in the other order,
and a round of `codey_main_loop.py` has one step for each of its four
accesses. A topic stands for the type of an event and the text of its message.
`starts` counts the callbacks begun since the last trigger. A callback may run
for ever or raise at any point; what happens to the main loop when it uses the
`None` that a raise leaves in `event_sema_list` is modelled (`main = "dead"`).

### BoardEvents

One listener is chosen at the start of a behaviour: the three share only
`s_codey_eve_started` and the restart, so a behaviour of all three projects to
one of each. The clock is `millis()` modulo `Wrap`, and the time between two
samples is free up to `MaxGap`. `wait`, `down`, `armed` and `posture` are
history variables that say what a user sees (how long ago the last report was,
whether the level was on the other side of the threshold, which way the board
leans) without reading the listener's own flags; the properties compare the
two. `missed` and `stale` mark the static flags that are older than the
script. Left out: the filters of the raw values, shaking (every sample over
the limit is an event), screen up and down and free fall (not triggered
anywhere), two of the three buttons (copies).

### EngineRead

A thread's read is followed statement by statement where other tasks can see
it: `read_sema` is taken before the lock, the command is set after it, the
push increments the index, copies and then masks. The GIL is released around
the lock, the push and the unlock, and is kept while the thread waits for the
answer. The communication task takes commands out of the ring when
`s_recv_data_sem` wakes it. Answers come in any order, late or never. An
operation has a number, and the value a block returns is the number of the
command it answers, so "its own answer" is an equation. `race`, `early` and
`timeouts` are history variables for the three ways the code can mix answers
up. The list of blocks is fixed: the node a read looks up stays, and its
library has been found.

Two exits of a read leave its mutex taken (`ReadFails`): an exception of
`mp_obj_get_float` before the push, and, after the answer, an exception or the
`return` for a list of types that begins with `ALTERABLE_NUM_BYTE`. From then on
every read waits until a script starts (`LeftLocked`).

`update` is the status CODEY_MAIN_PY_UPDATE, from the file transfer's
`NEU_FTY_READY` (`UpdateBegins`) to the start of a script. Meanwhile the task
takes commands from the ring and drops them, flushes what blocks send and sends
no heart package; and since that branch never clears `uart1_more_data`, a loop
that is entered in this status, or that has not read all of UART1 when it
begins (`more`), goes on until the status changes. A read of one tick in the
loop (`uart_read_bytes`) lets the other tasks run.

A script is left in three ways: `Suspend` and `Restart`, when the main task
interrupts it; `RestartAlone`, when it or its loop ends by itself with reason 2
set, so that running threads are deleted; `RunsAgain`, when the reason becomes 2
between the two tests of `main.c` (lines 476 and 434), so that the script runs
again and `neurons_engine_read_control_deinit_t` gives the mutex of a thread
that is still in its read (`kept`). Left out are the `deinit` that scripts can
call on the engine and the direct use of `neurons_engine_port` outside reads
and sends.

## Runs

All runs are small enough to be exhaustive.

| Run | Result | Bounds and why they are enough |
|---|---|---|
| `checksum_loop` | `ReturnsCheckSum` holds | every buffer of up to 9 one-bit bytes: zero to two whole words with every short word behind them. Bits do not interact under xor, so one bit is enough |
| `ftp` | the five invariants and `ImplementsFileTransfer` hold | buffer of 6 bytes (not a multiple of 4, so that a flush leaves bytes), blocks of 0, 1, 3, 4 and 7 bytes (the last does not fit), sizes 0, 5 and 8, two files, one with a name too long for the mailbox, all storage faults, power cycles; at most 9 accepted bytes per transfer (`MaxBytes`) |
| `session` | `SuccessMeansStored`, `NotifiedMeansStored`, `UploadCompletes` hold | 11 bytes in blocks of 3 through a buffer of 6, up to 3 lost frames, no lost responses, storage works |
| `session_lossy` | `AckedBytesHeld`, `UploadEnds` hold | the same file, 2 lost frames, 2 lost responses, all storage faults |
| `session_ack` | `SuccessMeansStored` is violated | one lost response |
| `ble` | `InOrder`, `NoLostWakeup`, `RefusedWhenFull`, `EveryByteRead` hold | four slots instead of 256, events of one or two bytes (one is refused in part), nine bytes: both indices wrap twice; stores of the index apart |
| `frame` | `FrameTypeOK`, `OneFaultOneFrame`, `OverrunNeedsBadLength`, `RequestAnswered` hold | eight byte values, a buffer of three bytes, handlers for one of two protocols, three messages and two faults; of the FF 55 requests one asks for the channel with an index of one, one with an index behind them. The contents include the header byte, the FF 55 header, the identifier after the last, and a length that does not fit; two faults make a frame with two altered bytes and an undisturbed one behind a damaged one possible |
| `restart` | `RestartTypeOK`, `HolderAlive`, `DtrGrantedQuiet`, `RestartServed`, `HookWaitEnds`, `UploadedScriptRuns` hold | two requests to restart, uploads and errors together (`MaxRequests = 2`), and one DTR request, at any moment, also while `mp_task` boots. `Again = 2`, `GiveUp = 3` instead of 20 and 100: the interrupt is repeated and giving up is reached. `HolderAlive` and `UploadedScriptRuns` speak of behaviours with one request (`OneRequest`) in which no thread outlives its script (`~raced`) |
| `restart_stays` | `UploadedScriptStays` is violated | one upload |
| `event` | `EventTypeOK`, `OneToken`, `LoopDiesOfNone`, `AtMostOneRepeat`, `EventServed` hold | three numbers, two triggers from outside, one restart; a script with two events for one message, one with the launch event, one with an event too many (which disables every trigger). A repeat needs one trigger, an event forgotten at the end of a callback two |
| `board` | `BoardTypeOK`, `PressReports`, `LevelReports`, `TiltReports` hold | the clock wraps after 10 ticks, intervals 4 and 2, samples up to 3 apart; three numbers for events, thresholds 1 and 2 in levels 0 to 3 (both sides and equality); accelerations -3 to 3 with tilts from 1 to 2 (below, in and above the range, ties between the axes); two restarts: a flag can survive one and matter in the next |
| `engine` | `EngineTypeOK`, `OneReader`, `OwnAnswer`, `OperationReturns`, `RestartEnds` hold | `mp_task` and one more thread, one read command, the ring of two slots the code has, two operations, one update at any time, one end of a script (suspended, alone or run again). Under the conditions of `OwnAnswer` the only command in flight is that of the thread that holds the mutex, so a second command adds nothing. Two operations are enough for each way an answer reaches the wrong reader, for a read behind one that failed and for a push behind one that filled the ring; an index beyond the ring needs three, and is excluded by `race` |

Deadlock is not checked where the model must stop: in `ScriptRestart`,
`EventMechanism`, `CommFrame` and `EngineRead` the device idles until somebody
sends, triggers or calls something, and the number of these is bounded; in
`BleRing` the number of bytes is bounded; `CheckSumLoop` returns.

Fairness. FreeRTOS schedules every task that is ready (the tasks of higher
priority all block on delays or semaphores), so the tasks have weak fairness.
Taking the mutex of the file system has strong fairness: the main task polls
it every 100 ms and `mp_task` queues for it, among holders that give it back.
The communication task has strong fairness against the write events of the BLE
task, which preempt it but end, and leave the processor in between.
The GIL goes round among the threads of the interpreter, so the main loop and
each callback thread have weak fairness, except that a callback need not
return. In `EngineRead` the interrupt of the UART is fair too, but only while
the status is not CODEY_MAIN_PY_UPDATE: the engine then
sends a heart package every few hundred milliseconds and the block on line
answers it, so bytes keep coming and wake the communication task. During an
update no heart package is sent (`codey_neurons_deal.c:247`) and nothing need
come.
The host is never forced to send, a script is never forced to end, a block is
never forced to answer, and no fairness is put on which thread takes the
pending interrupt.

## Findings

Each is a run that is expected to fail, with the sentence of the repository it
contradicts in `PROJECT.json`.

1. `session_ack`: the offset of a block is skipped, so a block sent again after
   a lost response is appended twice. If the check sum happens to fit, or the
   size is met early, the host is told OK.
2. `restart_stays`: an upload that ends while `mp_task` boots is run and then
   interrupted by its own request, with reason 1 for good.

Other properties hold under a condition that is part of their statement or of
the run's bounds, and TLC finds them violated without it. The code has no
sentence that promises more, so they are not listed as findings; each
condition says where the code relies on something it does not check:

- `SuccessMeansStored` with storage faults: when the last flush fails, the
  status stays OK, no check sum is compared and the script is announced.
  `FileTransfer!LastWriteLost` keeps this in the abstract specification.
- `RestartServed` without its exception `Orphaned`: the mutex of the file
  system is lost with the thread that held it, and the main task tries it in
  vain. `HolderAlive` says when that cannot happen.
- `HolderAlive` and `UploadedScriptRuns` without `~raced`, with one upload
  only: the event loop dies of an exception when the reason is 2 already and a
  thread holds the mutex; `main.c:476` leaves the loop and `mp_thread_deinit`
  (`main.c:489`) deletes the thread. Without `OneRequest`:
  `sys_set_restart_flag(false)` after the wait also clears a request made
  during the wait, and `mp_thread_deinit` deletes a thread with the mutex.
- `DtrGrantedQuiet` with `MaxDtrs = 2`: the semaphores of a DTR request that
  timed out answer the next request at once.
- `InOrder` without `Sound`: a full ring is not seen as full by a write event
  that comes between the two stores of `iget` at the end of the ring; unread
  bytes are overwritten. It needs a host that has more than 255 bytes unread;
  the file transfer waits for each response and has not.
- `OneFaultOneFrame` without `clean`: two altered bytes of a frame can cancel
  in a sum; a header byte inside a damaged frame swallows what follows; the
  identifier 13 is looked up one entry behind the table, because the test is
  `>` (`codey_comm_protocol.c:262`).
- `OwnAnswer` without `~timeouts` (a late answer is taken for the one to the
  next read of the same command), without `~early` (the command is sent before
  it was copied to the ring) and without `restarts = 0` (the same, across
  scripts: the deinitialisation gives `read_sema`).
- `OneReader` without `~kept`: a script that runs again is given the read mutex
  of a thread that is still reading.
- `OperationReturns` without `LeftLocked`: a read that failed inside the lock
  (`neurons_engine_port.c:401`, `:428`, `:430`) leaves the mutex taken.
- `RestartEnds` without its exceptions: `mp_task` waits without a time limit
  for the read mutex of a thread that has been suspended, or (`Stranded`) for
  room in the ring: the thread that filled it was suspended before it woke the
  communication task, and during an update nothing else need wake that.
- `RequestAnswered` is an equivalence: a request for the channel with an index
  of `COMM_CHN_NUM` or more is accepted and gets no answer.
- `PressReports` without `~missed`: the listener does not see a button that is
  released while no script listens. `LevelReports` without `~stale`: the flag
  of a number is not reset when the number is given to another event; and with
  all numbers in use, every trigger is refused. `TiltReports` without
  `~Outweighed`: a lean that the side outweighs keeps `event_occured_flag` and
  loses `triggerd`, so it is reported while the board leans to the side.

Seen while reading and modelled as the code has it: a check sum error is
answered with 0x01 and not with `CODEY_STATUS_FILE_CHECKSUM_ERR`, and the file
is kept (`// DELETE THIS FILE`); names of 63 characters and more are announced
as the empty name; an error marks the mailbox unread whatever it holds; a
transfer that is given up leaves the status at UPDATE.

## Proofs

TLAPS checks every theorem for all values of the constants. Every safety
invariant and every action property that a run checks is the statement of a
theorem. Each rests on an inductive invariant, made of a few named parts that
are not inductive without each other, and checked by TLC with the bounds of the
module's run before it was proved.

Assumptions, each evaluated by TLC on the constants of the runs:

| Assumption | Says |
|---|---|
| `BitsAssumption`, `BufsAssumption` | finitely many bits; buffers are of bytes |
| `FtpAssumption` | types; a buffer of at least one byte; "no file" is not the name of a file |
| `SessionAssumption` | the script is a file name other than `READY`; the file is not empty; a block and three bytes fit in the buffer (20 and 4096 in the code) |
| `BleAssumption` | types; an index mask of at least 1, so a ring of at least two slots |
| `ByteAssumption`, `TableAssumption`, `ContentsAssumption`, `RequestsAssumption`, `ChannelAssumption`, `BoundsAssumption` | header and end are bytes, a content has an identifier and a length that fits in two bytes, a request has six bytes and begins with the two different header bytes, the commands that ask for the channel are in the table |
| `RestartAssumption` | types; at least one round |
| `EventAssumption` | types; a table with at least one number |
| `EngineAssumption` | `mp_task` is a thread; a ring of at least one slot |
| `BoardAssumption` | types; the third interval is shorter than the second, and the second plus the longest time between two samples is less than a turn of the clock (700 ms and 49 days in the code) |

Two theorems have hypotheses of their own: `SessionSuccessMeansStored` and
`SessionNotifiedMeansStored` assume `MaxLostAcks = 0` and no storage faults.
Both are needed: `session_ack` is the counterexample for one lost response,
`LastWriteLost` the one for a storage that fails. `OneDtrGrantedQuiet` assumes
`MaxDtrs <= 1`.

- `CheckSumConcat`: the sums of two pieces xor to the sum of the whole if the
  first piece is of whole words. The proof splits the ones of a lane at the
  boundary and uses that the cardinality of a disjoint union is the sum.
- `LoopComputesCheckSum`: with `CheckSumConcat`, each round extends the summed
  prefix by a word; `LoopInv` says that the prefix before `idx` is summed.
- `FtpTypes`, `FtpWriteIndexAtEnd`, `FtpRunningCheckSum`, `FtpBufferBounded`,
  `FtpEmptyBuffer`: `FtpInv`, their conjunction, is inductive, with one lemma
  per outcome of a command. None of its parts is inductive alone: that the running sum is the sum of the file needs the file
  to be of whole words after a flush that is not the last
  (`RunningCheckSum`), that a write appends needs `WriteIndexAtEnd`, and that
  an uncompared file is empty needs `EmptyBufferEmptyFile`, which needs that
  a flush is always followed by a block that did not fit, hence is not empty.
- `FtpRefinesTransfer`: under `FtpInv` every action of `NeuronsFtp` is an
  action of `FileTransfer` or a stuttering step, with the received bytes mapped to the file
  followed by the buffer.
- `SessionAckedBytesHeld`: whatever is lost and however the storage fails, an
  open transfer has at least the bytes it acknowledged. `HeldInv` adds to
  `FtpInv` where the host is, and counts the block whose response is under way
  as held already.
- `SessionSuccessMeansStored`, `SessionNotifiedMeansStored`: `InStepInv` says,
  for every state of host and link, which prefix of the host's file the device
  has (`InStep`), and that the name is in the mailbox only after the end
  (`Mailbox`). Two facts carry the step: without storage faults a block never
  fails, because a flush of whole words leaves at most three bytes and a block
  fits beside them; and when the last block is in, the running sum, by
  `FtpInv`, is that of the host's file, so the comparison succeeds and what is
  on flash is the file itself.
- `BleInOrder`, `BleNoLostWakeup`, `BleRefusedWhenFull`: `BleInv` is inductive.
  `InOrder` needs `Filled`, that the unread bytes lie in order from the slot
  the get reads (`Head`, not `iget`, which may be one ahead) up to `iput`. That
  a put leaves them alone is where the condition enters: with torn stores the
  full test is right only while fewer than `size` bytes are unread.
  `NoLostWakeup` needs that a get with `ble_more_data` clear goes with a given
  semaphore, because the indices are moving then.
- `FrameTypes`, `FrameOneFaultOneFrame`, `FrameOverrunNeedsBadLength`,
  `FrameRequestAnswered`: `FrameInv` is inductive. Its first part, `ParserOK`,
  says what any bytes leave in the automaton: the data received are shorter
  than the announced length unless that is 0 or too large. Its second,
  `FrameSync`, relates parser and host at every byte: while the frame is
  unharmed the automaton has exactly the host's prefix and sum (`InStep`);
  after one altered byte it is on the way to a check it must fail, or has
  failed it and sees no header until the end (`Harmed`). That it must fail is
  the lemma `AddCancels`: adding different bytes to one sum gives different
  sums, for every radix. `RequestSync` does the same for the
  FF 55 parser and its index, so that whether it answers is known from the
  request alone (`Answerable`).
- `EventTypes`, `EventOneToken`, `EventLoopDiesOfNone`, `EventAtMostOneRepeat`: `EventInv`
  is inductive. The lock's mutex, the release on its way, the acquire on its
  way and `locked` are one token (`OneToken`); this is what keeps `release`
  from finding its lock unlocked. The bound on repeats needs how far the main
  loop has gone with the event and whether the flag is clear: a second begin
  uses up the release that was under way, and a third would need the flag.
- `RestartInvariant`: types, and the mutex is held by the main task exactly
  between its take and its give, by `mp_task` exactly while it mounts. The
  bound of the round counter needs `RoundsCounted`.
- `RestartHolderAlive`: with one request, and unless a thread outlives its
  script on the way of the restart (`raced`), the thread that has the mutex of
  the file system is neither suspended nor deleted. That it is not suspended is
  the mutex of the main task. That it is not deleted is the long part
  (`OnceInv`): one upload goes through its restart once (`MailOnce`), and a
  pending interrupt is the one of that restart (`ReasonPlaces`); from the claim
  that follows on the status says EXECUTED, so that no further round of the
  hook interrupts again (`NoFurtherRound`); hence, when `mp_task` has left
  main.py or the event loop without its thread, the reason is 1 and no
  interrupt is left to come, `mp_task` sleeps in `esp32_pass.py` and does not
  reach `mp_thread_deinit` before the hook has suspended the thread
  (`ThreadPlaces`). `NoFurtherRound` uses the guard of `MpOpens`, that a 50 ms
  round ends within the 720 ms of the indication: the delays of the code are
  what keeps the mutex alive. `raced` is the hypothesis that leaves out the ways
  on which the code does delete a running thread.
- `OneDtrGrantedQuiet`: with at most one DTR request in a session, DTR is
  granted only under the mutex, whatever uploads, errors and restarts happen.
  `DtrOnce` is the strengthening: semaphores are given only for a request, and
  an answer the communication task can take is one whose three seconds run.

- `BoardTypes`, `BoardPressReports`, `BoardLevelReports`, `BoardTiltReports`:
  `BoardInv` relates the static flags of a listener to the history of what the
  user did. For the button (`PressKept`) the difference of the ticks modulo
  the clock's width is the time really waited; the lemma `ElapsedGrows` shows
  that it stays so over an overflow. For light and sound (`LevelKept`) the
  flag of a number is set exactly when its event cannot fire; for the tilts
  (`TiltKept`) the one marked as triggered is the one the board is in.
- `EngineTypes`, `EngineOneReader`, `EngineOwnAnswer`: `EngineInv` is inductive.
  `Exclusion` is mutual exclusion without cardinalities, which restarts keep
  because they delete the reader whose mutex they give, and a failed read keeps
  because it gives nothing; only a script that runs again breaks it, hence
  `~kept`. `PushAlone` says that
  while no two threads were in `push` at once, the one that is there has
  counted exactly the slot before `in`. `Track` follows the reader's command:
  it is in at most one place, in a slot between `out` and `in`, at its block or
  answered, and no other read command is anywhere; `read_sema` is given only
  for its answer. The three history variables and `restarts = 0` are its
  hypotheses, because each of the four breaks it.

Only model-checked: liveness (`UploadCompletes`, `UploadEnds`,
`RestartServed`, `HookWaitEnds`, `UploadedScriptRuns`, `EveryByteRead`,
`EventServed`, `OperationReturns`, `RestartEnds`), which needs fairness and
`ENABLED`, out of reach of this prover.

## Plan

1. Done: file transfer, check sum, session, ring, parsers, script restart,
   event mechanism, sensor listeners and engine reads, each model-checked and
   its safety proved.
2. Proofs that are left: the safety half of the liveness arguments, such as
   that the main task in its rounds is always within `GiveUp` of the end
   (`HookWaitEnds`), as step properties.
3. Modelling that is left: the upkeep of the list of blocks by heart packages,
   which would let a node disappear under a read.

## Not modelled

- Shared variables (`codey_super_var.c`): entries are replaced one at a time
  by handlers that run to completion; what can go wrong is the lifetime of
  their strings, which is the heap of the interpreter and not control.
- Sensor report, system information, ready notification: stateless answers or
  a period. A message is a trigger of `EventMechanism`.
- Baud rate: one write to the UART's register, without a hand shake.
- The list of blocks and the layout of their values (`neurons_engine_*`):
  generated tables and address assignment; `EngineRead` takes a block to stay
  on line.
- The thread list of `mpthreadport.c` as a data structure: `ScriptRestart`,
  `EventMechanism` and `EngineRead` have its effects, suspension and deletion.
- Voice and music, LED matrix, RGB LED, infrared and the other sensors: device
  drivers, input and output with the timing of the hardware and floating point
  filters. Product test: used in the factory only.
- WiFi and the FTP server: taken over from another project and disabled. Over
  the air update: a separate image.
- MicroPython, FatFs, ESP-IDF and their libraries: third-party, modelled
  (marked external) by how this code uses them. They are nearly all of the
  tree's lines.
