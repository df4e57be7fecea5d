# Verification of the ldd_edu drivers

The repository is a set of small Linux 2.6.32 / 2.6.37 character drivers for the
Mini2440 board, written to study how drivers are built: a driver for each way of
guarding a device, of waiting for one and of handling an interrupt. This directory
holds TLA+ models of them, configurations for TLC, and proofs for TLAPS. What makes
these drivers worth modelling is not their size. It is that each is entered by
several tasks, by interrupt handlers and by signals at once, and that its
correctness lies in the order of a handful of calls: `down`, `add_wait_queue`,
`set_current_state`, `up`, `schedule`.

## 1. Inventory

All paths are under `src/`.

| Component | Source | State | Operations | Hard part |
|---|---|---|---|---|
| globalfifo | `char_driver/3/globalfifo_block/globalfifo.c` | `mem`, `current_len`, `dev->sem`, `r_wait`, `w_wait` | open, release, read, write, ioctl(FIFO_CLEAR), poll | sleeping with the semaphore released; several exits; signals; poll's own sleep |
| globalfifo_async | `char_driver/globalfifo_async/globalfifo_async.c` | the same and `async_queue` | the same and fasync | SIGIO interrupts other calls; the list must not keep closed files |
| LED, shared | `char_driver/{1,2}/led/led.c` | register `gpndat`, copy `led_state[]` | open, release, ioctl | unlocked read-modify-write of a shared register |
| LED, one minor per LED | `char_driver/1/led/led_nums.c` | one `led_state[]` per minor | the same | four copies of one register; a cdev per minor that may fail |
| LED, unfinished copy | `char_driver/1/led/led_nums_wiscom.c` | device numbers, one cdev | load, unload; no ioctl | an exit function that deletes what was never added |
| LED, exclusive | `char_driver/2/led/led_sem.c`, `led_atomic.c`, `led_spinlock.c` | the same and a semaphore, an atomic counter, a count under a spin lock | the same; open may refuse | test and take must be one step; undo of a failed take |
| Keys by interrupt | `char_driver/5/mini2440_buttons.c` | `key_values`, `ev_press`, `button_waitq`, interrupt lines | open (with error path), close, read, poll, interrupt handler | handler against `wait_event`, against the copy, against open and close |
| Interrupt bottom halves | `char_driver/5/interrupt_bh/buttons_tsklet.c`, `buttons_workqueue.c` | `irq_pin`, the tasklet or work item | handler, tasklet / work, load, unload | one variable for all keys between handler and bottom half |
| Wait queue and thread | `char_driver/3/waiqueue/waitqueue.c` | wait queue, condition, thread pointer | ioctl, thread, load, unload | thread ends before its pointer is stored; stop against wake |
| Completion | `char_driver/2/complete_test/complete_test.c`, `complete_example.c` (does not compile) | a completion, a thread | ioctl, thread, load, unload | use before initialisation; unload under a waiting thread |
| globalmem | `char_driver/1/globalmem/globalmem.c`, `globalmem_two.c` | `mem`, `f_pos` | open, release, read, write, llseek, ioctl(MEM_CLEAR) | no lock; a position that is copied, used and stored back; 32-bit arithmetic on 64-bit positions |
| Second timer | `char_driver/5/timer/timer.c` | a timer, a counter that is printed | load, the timer function, unload | an absolute time where an interval is meant; `jiffies` wraps; a handler that arms its own timer under `del_timer` |
| virtdev | `char_driver/4/virtdev/virtdev.c`, `virtdev.c` | `async_queue` | open, release, write, fasync | as globalfifo_async |
| Keys by polling | `char_driver/1/key_char/key_char.c` | pin registers | open, read | configured pins against the pins read |
| Load and unload | every `*_init`, `*_exit` | device numbers, cdevs, classes, devices | load, unload | error paths; use before initialisation |
| kobject, kset | `char_driver/driver_module/kobject/*.c` | kobjects, reference counts | load, unload | error paths; counts that reach zero |
| Virtual bus and device | `char_driver/driver_module/bus`, `device` | bus, driver, device | load, unload, match | order of registration |
| Frame buffer | `char_driver/fbdev/fbdev_app.c` | the mode as read, the mapped buffer | open, four ioctls, mmap, filling bar by bar | the mode read before and after it is set; integer divisions of pitch and height; a depth nobody looks at |
| helloworld | `char_driver/1/helloworld` | none | none | nothing |
| Applications | `*_app.c`, `asyncmonitor.c` | none of their own | call the drivers in a fixed order | nothing: the models let callers do more |
| Generated | `cscope.*`, `*.ko`, binaries | | | |

The drivers do not talk to each other. Each is entered by the kernel on behalf of
user tasks (system calls), by the interrupt controller and by signals; what they
share with the rest of the kernel is the semaphore, the wait queue, the big kernel
lock and the asynchronous notification list. LED drivers share one hardware register
but are loaded one at a time.

### What may interleave

The compiled modules in the repository are for an ARM kernel that is neither SMP nor
preemptible. There a task gives up the processor only in a contended `down()`, in
`schedule()`, and in a copy to or from user memory that faults; interrupt handlers
run anywhere. `.ioctl` handlers (all LED drivers, globalfifo_async) run under the big
kernel lock, which the kernel releases while its holder sleeps; `globalfifo.c` uses
`.unlocked_ioctl`. The models place their steps at these points, and where the source
relies on more (a spin lock, an atomic operation) they place them finer still, so that
what is shown does not lean on the uniprocessor kernel. `LedAtomic` has a constant,
`Preemption`, for the one place where the difference is visible.

## 2. Modules

| Module | Models | Notes |
|---|---|---|
| `ByteFifo` | what globalfifo promises: a bounded byte stream | abstract specification |
| `GlobalFifo` | globalfifo.c; with `HasFasync`, globalfifo_async.c | one action per stretch between two scheduling points |
| `GlobalFifoProofs` | | theorems about `GlobalFifo` |
| `ExclusiveOpen` | what an exclusive `open()` promises | abstract specification |
| `LedIoctl` | `led_ioctl`, `led_set`, which all LED drivers share | extended by the next four |
| `Led`, `LedSem`, `LedAtomic`, `LedSpinlock` | open and release of each LED driver | |
| `LedDrivers` | the LED drivers side by side, one of them loaded | composes the above |
| `ButtonLines` | keys, interrupt lines, open and close of the three interrupt driven key drivers | extended by the next two |
| `Buttons` | mini2440_buttons.c | interrupt handler, two sleeping calls |
| `ButtonsBH` | buttons_tsklet.c, buttons_workqueue.c | nested handlers, one bottom half |
| `GlobalMem` | globalmem.c, globalmem_two.c | no lock: one action per byte copied |
| `LedDriversProofs`, `ButtonsProofs`, `ButtonsBHProofs`, `GlobalMemProofs`, `FbdevAppProofs` | | theorems about the module each is named for |
| `ModuleLoad` | init and exit of twenty-four drivers | a table of what each takes and gives back, and one interpreter |
| `ModuleCode` | the threads of waitqueue.c and complete_test.c, the timer of timer.c, the bottom halves, against load and unload | extends `ModuleLoad`; the run is about both |
| `ModuleLoadProofs` | | what each driver's table is, and that load and unload keep their invariants |
| `ModuleCodeProofs` | | theorems about `ModuleLoad` and `ModuleCode` together; extends the last |
| `FbdevApp` | fbdev_app.c | sequential; the frame buffer driver is the environment |
| `MC*` | small instances of the above | |

A definition headed "Variant:" is a plausible mistake in the definition that follows
it; none is part of a specification. `PROJECT.json` says which property each breaks,
and gives the source lines of every definition.

### GlobalFifo

`pc[p]` is `"user"` or a place inside a handler. `r_down` is the first `down()` of
read, `r_sched` its `schedule()`, `r_down2` the `down()` after it, `r_copy` the
`copy_to_user`, `r_commit` the `memcpy` and the wake-up, `r_out` and `r_out2` the two
labels of that name; write has the same with `w_`. The code between two of these runs
without losing the processor and is one action: `ReadDown` takes the semaphore, queues
the task, tests `current_len` and leaves in one of the three ways the source does.
`ReadDown` when the FIFO is empty marks the task (`waiting`) and releases the semaphore
in one step and sleeps in a later one, `ReadSchedule`; what happens between the two is
the window in which a wake-up could be lost.

A semaphore that is taken and released within one action is only required to be free.
`remove_wait_queue` is modelled by what it does, `list_del`, which explains why it is
harmless that `globalfifo_read` names the wrong queue. poll(2) is modelled with the
driver's handler inside its loop: mark, call the handler, sleep, call it again. A fault
may end any copy of at least one byte; a faulting write leaves its first bytes and zeros
behind the data. `kill_fasync` marks a signal for each registered task that is inside
the kernel; a task in user space takes it at once. Each task has its own open file, and
a file belongs to one task.

### The LED drivers

The register is the set of LEDs whose bit is 1; `LedLoad` and `LedStore` are the two
halves of `|=` and `&= ~`, `LedShadow` the assignment to `led_state`. `IoctlLock` is the
`lock_kernel()` of the VFS; `CopyIn` and `GetState` may drop that lock, as a task that
sleeps on a fault does. `mine` is a ghost: what a task set since it opened the device.
Callers pass LED numbers 5 to 8; the state 2 stands for any value `led_set` rejects.
`LedDrivers` chooses one driver at the start: their state is the same but for the guard
of `open()`, so one run covers them all and each property says which drivers it is about.

### The key drivers

`level` is the state of the keys, `pending` the edges latched by the interrupt
controller. A handler may run between any two steps, for a line that is registered.
open registers one line per step, in order; its error path gives back what
it took; close frees one line per step. Tasks are threads of one process, so several can
be in read and poll on one open file, while an open by another is under way (it fails:
lines are not shared). The three drivers have the same open and close, `ButtonLines`.

In `Buttons` the copy to user space goes key by key, with the handler running in between,
for as many keys as the read asks for, none included, and may fault at any of them. `count`
is chosen where it is first used, at `ReadClear`: nothing before depends on it. Two ghosts:
`owed` are the keys with a stored value that no read has copied since, nor passed over by
being short or by failing; `seen` are those whose handler has run since the line was
requested.

In `ButtonsBH` the handler has two steps, the store to `irq_pin` and the call that
schedules the bottom half, because handlers of other keys nest and, on another
processor, the bottom half itself runs between them. The bottom half has three: it is
taken off the queue, it reads the pin, it prints. `PinArgument` is the one difference
between the two drivers: `&irq_pin`, which `DECLARE_TASKLET` passes on, against the
`work_struct` that a work function gets. `printed` keeps, of the last message, the pin it
names and the pin whose state it shows. `unread` is a ghost: a press that no `getpin` of
the bottom half has followed. In the tasklet that `getpin` is a look at the key; in the work
item it reads a pin that is none, and the properties about `unread` say no more there than
that the bottom half runs.

### GlobalMem

The two drivers have one array per device and no lock, so read and write go byte by
byte (`CopyOut`, `CopyIn`), with every other call in between. The position is the
delicate part: sys_read and sys_write give the driver a copy of `f_pos` (`ppos`), the
driver cuts it to an unsigned long (`at`), and the kernel stores `ppos` back when the
driver is done, whatever it returned; `llseek` writes `f_pos` itself. `AreaAllowed` is
the kernel's `rw_verify_area`, which lets no negative position through. A write that
faults leaves zeros behind what it copied, as `copy_from_user` does. Widths are scaled:
`WordSize` stands for 2^32 and `LoffMax` for 2^63-1, and `Wrap` and `Truncate` are the two
conversions; what matters is that a position can be past `WordSize`.
Three ghosts: `expected` is where a file's user can work out that it is, `Lost` once two of
its calls overlapped; `ended` are the files that used SEEK_END; `alone` says that nobody has
changed the device since the call began.

### ModuleLoad and ModuleCode

An init function is a sequence of calls that take something from the kernel, an exit
function one of calls that give it back. `DriverTable` has one entry per source file:
for each call of init the thing it takes and what the code does if it fails (`Try`: give
these things back and return an error; `TryThenLoad`: the same and return 0;
`TryUnnoticed`: go on; `Sure` and `Prepare`: it cannot fail), the list of what exit gives
back, and what a call on the device uses. The actions run through the entry of the driver
chosen at the start, with a failure possible at every call, while tasks open the device as
soon as its cdev is there. `GiveBack` is the kernel's side: most releases of what is not
there are an oops, some are tolerated, some undo a claim of somebody else (`"again"`).
`fault` remembers it. A `kobject_del` after a failed `kobject_init_and_add` is of the last
kind: the failed call has put the kset already and left `kobj->kset` set, so `kset_p` gets a
put too many, and is freed while `kset_c` still refers to it (`Dangling`).

`ModuleCode` adds what a module has running by itself. A thread is started by
`kthread_run` (a `LoadStep`), whose result is stored in a later step, `StorePointer`; it
tests, sleeps, clears `kthreadp` and returns. The ioctl sets the condition and wakes in two
steps. Unload tests `kthreadp`, calls `kthread_stop` and waits. A timer fires in the tick
the timer wheel puts it in (`Slot`): where `expires` is not ahead as a signed difference, the
next one. `del_timer` takes back a timer that is armed, not a handler that runs. The bottom
halves of the key drivers are queued, run and end here; what they do is in `ButtonsBH`. On
the `"up"` kernel the steps of a `Stretch` follow each other without another step between,
because nothing in them waits; on `"smp"` anything may come between, and there kthread_run
may be overtaken by its thread.

Seventeen of the twenty-four entries, five of them copies of `led.c`, give back too little or
too much after some failure or at unload; three leave code behind even on one processor; six
can be opened before they are ready. The properties name these cases (`Leaks`, `Repeats`,
`Orphaned`, `Late`, and a few in the properties' own text) and hold for all others. Each
case is needed: without it the property fails.

### FbdevApp

`app_main` is one action per call, each of which may fail and go to `exit1`, then one
action per line of `fill_color_bar`. `device` is the mode the frame buffer driver has,
`varinfo` and `fixinfo` what the program knows of it; `PutVar` may change the pitch, as a
driver may round it. `buffer` maps each byte to the bar that it shows, so overlapping lines
and wrong pitches are visible. The two `builds` are those of `CONFIG_TI81XX`: "ycbcr" with
horizontal bars of 16-bit pixels, "rgb" (commented out in the source as it stands) with
vertical bars of 32-bit pixels; `VERTICAL` switches its horizontal version off. The loop in `app_main` never ends, since `i` is not counted, so
`munmap` and the return of 0 are not reached.

## 3. Runs

| Run | Question | Bounds |
|---|---|---|
| `fifo_stream` | Is the FIFO a byte stream, the semaphore a lock, the reader's wake-up safe, with every operation and SIGIO? | 2 tasks, 2 bytes of memory, 2 byte values, counts 0 to 2; 2.2 M states |
| `fifo_progress` | Without FIFO_CLEAR: does a writer sleep only while the FIFO is full; do calls end? | 2 tasks, 2 bytes, 1 value, counts 0 to 2; 132 k states |
| `fifo_clear_strands_writer` | Does that hold with FIFO_CLEAR? No. | 2 tasks, 1 byte |
| `fifo_empty_read` | Does a blocking read wait for data? Not always. | 3 tasks, 1 byte |
| `led` | Do the LED drivers keep the register and the open file to whom they belong? | 3 tasks for exclusive drivers, 2 for shared ones, 2 LEDs, 2 minors; 2.9 M states |
| `led_atomic_busy` | Is -EBUSY of led_atomic.c honest on a preemptible kernel? No. | 3 tasks, 1 LED |
| `buttons` | Do the handler, read, poll, open and close agree; is a value announced or looked for until a read has had its chance at it? | 2 tasks, 2 keys, reads of 0 to 2 keys, no symmetry; 892 k states |
| `buttons_bh` | Does every press get a bottom half, and the last press a message? | 2 tasks, 2 keys; 364 k states |
| `module_load` | Is everything taken given back once, whatever fails; does a module's own code end before the module; do threads wake and the timer go on? | 24 drivers, 2 tasks, both kernels, `HZ` 3, 16 values of `jiffies`; 10.5 k states |
| `global_mem` | Do unlocked calls stay within their device and within the array, and where do positions go? | 2 tasks, 2 files, 2 devices of 2 bytes, `WordSize` 4, positions -8 to 7, counts 1 and 3, offsets -3, -1, 2; 1.9 M states |
| `fb_bars` | Do the bars lie within the buffer and on the pixels? | 23 modes, 2 builds; 2.6 k states |
| `buttons_bh_torn` | Does a message show the state of the key it names? No. | 2 tasks, 2 keys |

Why these bounds are enough to meet the cases that matter:

* Two bytes of memory with counts up to 2 give partial reads and writes, counts that
  are clamped, a FIFO that is empty, partly full and full, and a `memcpy` that moves
  something. Two byte values make a lost, repeated or exchanged byte visible. Count 0
  is the boundary of the copy.
* Two tasks are the two sides of every race in the FIFO but one: the stale test after
  a wake-up needs two readers, only one of them asleep, and a writer, and `fifo_empty_read` has three. For more
  tasks and any sizes the proofs of section 5 take over.
* led_atomic.c needs three: one that holds the device, one that undoes a failed open
  and one that is misled by it.
* Two keys are a first and a last key for the loops of open, its error path, close and
  the copy, and give reads of none, some and all keys; two tasks are a reader against a
  reader, a poller or an opener.
* Two files and two tasks are calls that overlap on one file, on two files of one device,
  and on two devices. A count of 1 is part of the array and a count of 3 is clamped; the
  offsets lead, by SEEK_END, to -1, to 1 and to 4, which is `WordSize` and looks like 0
  to the driver; from there a relative seek goes on either way.
* `module_load` has every driver, every combination of failures, and a task that has the
  device open while another opens it, calls it, or it is unloaded. `jiffies` starts at each
  of its 16 values, so `HZ` is ahead of it, past, and across the wrap. One bound hides
  something: a tick waits until the timers of the last one have been run.
* The modes of `fb_bars` have 8 to 32 bits, lines with and without padding, lengths that
  are no multiple of 2, of 16 or of 32, and heights that are no multiple of 8.

Symmetry is used over tasks in the runs without liveness; no definition distinguishes
tasks (in `led`, only over the two that use every driver).

### What the runs show of the code

Four runs end in a violation. Each refutes a comment or a message of the source:

* **FIFO_CLEAR strands a writer.** `globalfifo.c:170` says a writer waits for the FIFO
  not to be full. FIFO_CLEAR (lines 58-67) makes it empty and calls no `wake_up`, so the
  writer sleeps on until some later read. Without FIFO_CLEAR the comment holds, for any
  number of tasks (`NoLostWriterWakeUp`).
* **A blocking read returns 0.** `globalfifo.c:111` says read waits for the FIFO not to
  be empty. It tests with `if`. When a reader has been woken, another one may take the
  data before the first has the semaphore again, whether it was woken with it or has just
  called read, as in the shortest trace; the first does not test again, and returns 0 as if
  at the end of file.
  With one reader at a time the comment holds (`OnlyReaderGetsData`).
* **A spurious -EBUSY.** `led_atomic.c:93` says -EBUSY means already open. With a failed
  open between its decrement and its increment, a third task is refused although the
  device was closed in between. It takes a preemptible or SMP kernel.
* **A torn message.** `buttons_tsklet.c` reads `irq_pin` once for the state (line 55) and
  again for the name (line 56), and its message puts the two side by side. A press of
  another key between the two gives a message about one key with the state of the other. It corrects itself: that press has scheduled
  the tasklet again (`LatestPressReported`).

The passing runs met more than may be called a disagreement, because nothing is written
that says otherwise. The properties leave these cases out by name:

* led.c and its copies unregister the device number twice when `cdev_alloc` fails and take
  an `ERR_PTR` for a class; led_nums.c forgets the class and the minors it has added (`Leaks`
  and `Repeats`, each at its call).
* kset_test.c only prints that `kobject_init_and_add` failed (line 141). Its exit function
  then deletes the kobject (line 152), which puts `kset_p` a second time, and the release of
  `kset_c` finds `kset_p` freed (`Repeats`).
* A short or failed read of mini2440_buttons.c takes the event: `ev_press` is cleared (line
  123) before `min(sizeof(key_values), count)` keys are copied (line 125), and count may be 0.
  Another reader that was woken with it sleeps on, and does not hear of the values that were
  not copied until some key changes again. `NoLostEvent` and `ValueReachesReader` call such
  values passed over, and say that nothing else loses one: with reads that ask for all keys
  and do not fault, every stored value is announced until it has been copied.
* Six drivers can be opened before their lock, queue or completion is initialised (`Late`).
  complete_test.c can be unloaded under its thread, and the bottom half drivers with the
  bottom half pending (`Orphaned`). waitqueue.c and timer.c are safe on the kernel they were
  compiled for; on several processors the thread can end between unload's test and
  `kthread_stop`, and the timer's handler can arm the timer again behind `del_timer`.
* The handler of timer.c arms its timer for the tick number `HZ`, not for a second from now.
  While that number is past, the timer fires in every tick; while it is ahead, in the other
  half of the values of `jiffies`, up to half the range of `jiffies` later. Only the first
  second is one (`FirstAfterASecond`), and the timer never stops for good (`TimerGoesOn`).
* SEEK_END of globalmem.c checks nothing. A position of 2^32 is inside the array again, and a
  read there returns its first bytes; SEEK_SET to 2^32 arrives at 0. Calls that overlap on
  one file lose each other's moves, and a failed write has changed the array. All this stays
  within the array (`CopyWithinMem`).
* The frame buffer program does not look at the depth: with fewer than 16 bits it stores
  past the buffer. The TI version rounds the line length up to 16 and does the same where it
  is no multiple. Lines left over when the height is no multiple of 8 stay as they were.
* The work driver takes its `work_struct` for a pointer to `irq_pin` and names no key in any
  message (`PinArgument`); `LatestPressReported` is stated for the tasklet.

Everything else holds, and some of it is worth stating because the code does not make it
evident: the reader's `remove_wait_queue(&dev->w_wait, ...)` is harmless; poll never
sleeps over data; the FIFO delivers each byte once although read copies first and shifts
later, because `dev->sem` is held over the copy; the shared LED register is safe only
because `.ioctl` takes the big kernel lock (`IoctlUnlocked` breaks `OnlyOwnLed`); and
open's `ev_press = 1` without a wake-up is harmless because nobody can be asleep then.

## 4. Fairness

`FairSpec` of `GlobalFifo` has weak fairness on what a task does by itself inside the
kernel (`Kernel`): a runnable task runs. It has strong fairness on the steps that begin
with `down()` (`Contend`): the semaphore is given and taken many times while a task waits,
but the kernel's semaphore keeps its waiters in order and `up()` hands it to the first,
so a waiter is not passed over for ever. Nothing is assumed of callers, signals or
timeouts: no task has to make a call, so nobody has to wake a sleeper. That is why the
liveness properties end at `schedule()`, and why `WokenCallReturns` starts when the task
has been woken or interrupted. `FairSpec` of `ButtonsBH` has weak fairness on the second
half of a handler that has begun and on the bottom half: softirqs are run on return from
the interrupt or by ksoftirqd, work by keventd. Nothing is assumed of keys and tasks.

`FairSpec` of `Buttons` has weak fairness on the steps of a read, which are always possible
or wait for an event; `ValueReachesReader` then says that while somebody waits in read, a stored
value does not wait for ever to be copied or passed over, however often keys move meanwhile. `FairSpec` of `ModuleCode` has weak
fairness on what runs by itself and stays possible until it is done: ticks, timer
handlers, bottom halves, `kthread_run`'s assignment, the second half of the ioctl. The
thread and unload get strong fairness, because on one processor a timer handler or a
caller's stretch makes their steps impossible again and again; the scheduler gives a
runnable task the processor all the same. Nobody has to unload a module, press a key or
call the ioctl. `GlobalMem`, `FbdevApp` and the LED drivers state safety only: nothing in
them waits for another.

## 5. Proofs

The assumptions of every proof are those its module declares of its constants: sizes that
are positive, widths with `Size < WordSize <= LoffMax + 1`, `NoTask` no task, a finite
set of tasks for the LED drivers, and the like. Eight modules hold theorems. Every invariant and
every safety property of a passing run is the subject of one.

### globalfifo

`GlobalFifoProofs` proves, for any set of tasks, byte values, counts and buffer size:

| Theorem | Property | Means |
|---|---|---|
| `TypeCorrect` | `TypeOK` | the semaphore stays binary, `current_len` within `mem` |
| `Exclusion` | `MutualExclusion` | `dev->sem` is a lock on every path |
| `ClampHolds` | `ClampStillValid` | the count clamped before a copy is valid after it |
| `NoLostReaderWakeUp` | `ReaderSleepsOnlyWhileEmpty` | no reader or poller sleeps over data |
| `NoStaleQueueEntry` | `QueuesHoldOnlyCallers` | no queue keeps the stack entry of a finished call |
| `ClosedFileGetsNoSignal` | `AsyncQueueOpen` | a closed file is on no notification list |
| `NoLostWriterWakeUp` | `WriterSleepsOnlyWhileFull` | no writer sleeps over room, if nobody may use FIFO_CLEAR |
| `ImplementsStream` | `StreamSpec` | the driver implements `ByteFifo` |
| `OnlyReaderGetsData` | `BlockingReadReturnsData` | with one reader at a time and no FIFO_CLEAR, a read never returns 0 |

The assumptions are those of `GlobalFifo`: a positive size, 0 is a byte, counts are
naturals, `HasFasync` is a Boolean. `NoLostWriterWakeUp` also assumes `"ioctl" \notin Ops`,
and `fifo_clear_strands_writer` shows that it has to. `OnlyReaderGetsData` is the other side of
`fifo_empty_read`: what a woken reader finds gone, another reader has taken. It assumes, of the
same kind, no FIFO_CLEAR and no read of 0 bytes, and says of a behaviour in which no two reads
overlap (`OneReader`) that the comment of `globalfifo_read` holds. Its invariant,
`FindsDataInv`, follows the data from the write that wakes the reader to the reader's copy; only
the reader's own commit could take it away.

The properties are not inductive one by one, so `Invariance` proves their conjunction
with more facts, `IInv`:

* `MutualExclusion` has to come first: that `current_len` and `mem` stand still while a
  task copies follows only from it. With it, `ClampStillValid` survives every step of
  another task, and its own step re-establishes it.
* `WriteBuffer`: a writer's clamped count does not exceed its buffer; needed for the
  type of `mem`.
* `BuffersMatch`: between copy and commit, a reader's buffer holds the first `count`
  bytes of `mem`, and a writer's first `count` bytes lie in `mem` behind the data. This is
  what turns a commit into a step of `ByteFifo`.
* `SleepersQueued`: whoever sleeps is on the queue that will be woken. Without it a
  wake-up could miss its sleeper, and `ReaderSleepsOnlyWhileEmpty` would not survive
  `WriteCommit`.

* `ResultsAtExit`: a call has a positive result only at its exit labels. It ties the count
  a call returns to the one commit it made.

Each action gets a lemma with one step per conjunct it can disturb. `ImplementsStream`
maps `fifo` to the bytes `mem[0 .. current_len-1]`, `result` to `ret` and `clearing` to the
tasks inside FIFO_CLEAR: `ReadCommit` is a `Take`, `WriteCommit` a `Put`, `IoctlClear` a
`Clear`, and every other step leaves `fifo` alone. What `ByteFifo` promises is that bytes
come out in the order they went in, each once; that the count a call returns is the number
of bytes it moved; and that only a caller of FIFO_CLEAR drops bytes.

### The key drivers

`ButtonsProofs`, for any number of keys and tasks:

| Theorem | Property | Means |
|---|---|---|
| `TypeCorrect` | `TypeOK` | the counters of the loops over lines and keys stay in range |
| `LinesNeverLeak` | `LinesFollowFile` | an interrupt line belongs to the open file or to a loop that will keep or free it |
| `NoLostWakeUp` | `NoSleepOverEvent` | nobody sleeps over an event |
| `NoLostValue` | `NoLostEvent` | a stored value is announced, or a reader is about to copy it, until it is copied or passed over |
| `ValuesFollowKeys` | `KeyValuesFollowKeys` | a key whose handler has run is known |

`LinesFollowFile` says of a line who may have it; it is not inductive, because freeing a line
is harmless only if it is one's own. `LinesInv` adds the converse: the file's owner has every
line and is in no loop, and any other task in open or close has exactly the lines its
counter says (`LoopHasLines`). From it follows that an open that got all lines found no file,
and so nobody in a call (`CallersHaveFile`, `OpenIsAlone`). That is why open may set
`ev_press` without waking anybody. `CallSteps` collects what all steps of read and poll have
in common, so that lines need not be looked at again for each of them. For `NoLostEvent`
`EventKept` covers all steps but those that move values: a reader that clears `ev_press` takes on
just the keys it will copy (`ToCopy`), and a step of the copy lets go only of keys that are owed
no more (`CopyKept`). That the copy's index stays below `count` is part of `Counters`.

`ButtonsBHProofs`: `EveryPressHasBottomHalf` (`PressHasBottomHalf`) and `LastPressIsReported`
(`LatestPressReported`). The first is inductive. The second needs `MessageFollowsPin`:
while no press is unread, the tasklet has the present `irq_pin` between `getpin` and the
message, and has printed it otherwise.

### globalmem

`GlobalMemProofs`, for any sizes, widths, counts, offsets, tasks and files:

| Theorem | Property | Means |
|---|---|---|
| `CopiesStayInMem` | `CopyWithinMem` | no copy leaves the array |
| `PositionsStayInRange` | `PositionInRange` | only SEEK_END takes a position out of it |
| `PositionsAddUp` | `PositionAddsUp` | moves are lost only where calls on one file overlapped |
| `UndisturbedCallsAreExact` | `UndisturbedCallIsExact` | a call that nobody disturbed moved its bytes |
| `SeeksArriveWhereTheyShould` | `SeekIsInteger` | the two widths do not show within the array |
| `OnlyWritersChange` | `OnlyItsWritersChange` | a byte changes by a writer of its device, or to zero |

The invariant has four parts. `Base`: a call is on an open file and its count, clamped when
it began, fits the array; nothing later can change that, because `at` and `count` are the
call's own. `Positions`: unless the file used SEEK_END, a call's `ppos` equals its `at`, so
what is stored back is in range. `Known`: a position its user knows is that of the file, and
at most one call is on the file, with that position. And `UndisturbedCallIsExact` itself.
`PositionsAfterCall` and `PositionsAfterSeek` say once what the end of a call and a seek do
to positions, for the actions that store one. `SeekIsInteger` needs no invariant: it is
arithmetic (`SeeksAreInteger`), with one case for a sum that wraps, which is then negative.

### The LED drivers

`LedDriversProofs`, for any finite set of tasks and any minors and LEDs:

| Theorem | Property | Means |
|---|---|---|
| `SetsOnlyItsLed` | `OnlyOwnLed` | no two read-modify-writes of the register mix |
| `ShadowNeverLies` | `OneShadowMatchesRegister` | the one `led_state` agrees with the register |
| `OneHolder` | `ExclusiveHolder` | the exclusive drivers give the device to one task |
| `HolderReadsBack` | `ReadsOwnWritesIfExclusive` | that task reads back what it set |
| `CounterNeverDrifts` | `AvailableAccounts` | `led_available` accounts for every open and every failed open |
| `ImplementsExclusiveOpen` | `ExclusiveSpec` | three of the drivers implement `ExclusiveOpen` |

The tasks are finite because `AvailableAccounts` counts them. The invariant has three parts,
and the argument two halves that hardly meet:

* `IoctlInv` is about `led_ioctl()`: who is between `lock_kernel` and `unlock_kernel` holds
  the big kernel lock (`InIoctl`), so what `led_set` loaded is still in the register when it
  stores (`InLedSet`), and the register is ahead of `led_state` for one LED at most.
  `SameIoctl` shows that the six drivers' instances of `led_ioctl()` are one, and `GuardKeeps`
  that a step of any driver's open or release leaves it alone (`GuardStep`).
* `GuardInv` is about open and release: the semaphore and `user_count` are 0 or 1 as there is
  a holder or not; a task between the test and the count holds the spin lock; and the counter
  is 1 minus the holders minus the failed calls, by cardinalities. `SemStep`, `SpinStep` and
  `AtomicStep` also say what the step is in the words of `ExclusiveOpen` (`Outcome`), which
  is all that the refinement needs. For the preemptible `led_atomic.c` there is no
  `Outcome`, and `led_atomic_busy` shows why.
* `OwnInv` ties them: with one holder, nobody else writes `led_state`.

### Load, unload and the code of modules

`ModuleLoadProofs` and `ModuleCodeProofs`, for any set of tasks, of drivers of the table and of
kernels, any `HZ` less than half of `WordSize`, and any `WordSize`:

| Theorem | Property | Means |
|---|---|---|
| `NothingIsLeaked` | `EverythingGivenBack` | a refused or removed module keeps nothing |
| `CallsAreSafe` | `CallsFindMemory` | a call finds the memory, lock and queue it uses |
| `NothingGivenBackTwice` | `GivenBackOnce` | nothing is released, and no thread stopped, that is not there |
| `CodeIsThere` | `CodeFindsModule` | a thread or timer ends before its module |
| `FirstFiringIsASecondAfterLoad` | `FirstAfterASecond` | the first firing is `HZ` ticks after load, also across a wrap |
| `WakeUpsAreNotLost` | | a thread that sleeps over a true condition is about to be woken; one that unload waits for is awake |
| `TimerIsNotLost` | | the timer is armed for a value of `jiffies`, or its handler will arm it |

TLC goes through the drivers one by one; the proofs do so once, and then no more. `Sound` says of
a driver's table what makes it a good one: the list of each error path covers what was taken
before it (`UndoSound`), the list of the exit function covers everything (`ExitSound`), no list has
a release twice or a class before its device (`Orderly`), each release is of a thing that is
certainly there or is tolerated (`Releasable`), and what calls use is prepared before the cdev, but
in `Late` (`UsesSound`). The exceptions of the properties, `Leaks`, `Repeats` and those named in
their text, appear there and are the only ones. `TablesSound` proves it of the twenty-four
entries. This is the place where a change of a driver's error path would be noticed.

From `Sound` alone, each action keeps `LoadInvs`, whose parts are: `LoadInv`, what is held while
an init function is at its call `at` (`Got`: everything that was tried or has failed, and
certainly what could not fail unnoticed); `KeptInv`, what is still to be given back covers what is
kept; `OnceInv`, each release to come finds its thing or is tolerated, which is inductive because
lists are `Orderly`: a release takes nothing from a later one, and no class goes before its
devices; `FileInv`, a file is open only while its cdev is there and the module is not given up.

`CodeInvs` adds the module's own code:

* `CodeInv`: who has any, and that the queue or completion it waits on stays.
* `WaitInv`, for waitqueue.c. On one processor `kthreadp` is the thread exactly while there is one
  to stop, but within a stretch; so unload's test of `kthreadp` is still true at
  `kthread_stop`, and unload is not past the thread while it lives. `MayRun` is what the
  uniprocessor kernel gives. Where `kernel` is `"smp"` the invariant says nothing of this, and
  `CodeFindsModule` lists the driver in `Orphaned`.
* `TimerTaken`, for timer.c: once `del_timer` has returned on one processor, the timer is not
  armed and no handler runs.
* `GivenBackOnce` itself, which needs all the others.

Two theorems stand beside liveness properties that only TLC can check. `WakeUpsAreNotLost` is the
safety in `WakeReachesThread` and `UnloadEnds`: no state is reached in which only a lost step
could help. `TimerIsNotLost` is that of `TimerGoesOn`: `Slot` of any time the handler asks for
is a value that `jiffies` takes.

For `FirstAfterASecond`, the invariant `TimerInv` says that until the timer has fired `due`
is `HZ - since` ticks ahead of `jiffies`, modulo `WordSize`. `SlotOfASecond` is the arithmetic
of the timer wheel, and `ModUnique` the only fact about `%` that is used.

### The frame buffer program

`FbdevAppProofs`, for any set of modes:

| Theorem | Property | Means |
|---|---|---|
| `NoStrayStore` | `StoresInBuffer` | no pixel is stored outside the mapped buffer |
| `BarsFillTheScreen` | `BarsMatchPixels` | after each filling every pixel of a bar shows it |

`ModesAssumption` is what a frame buffer driver owes its callers: sizes are naturals, there is at
least one line, and a line is as long as its pixels. The invariant `FbInv` has three parts.
`Knows`: from the second ioctl on the program knows size and depth of the mode, and once
`FBIOGET_FSCREENINFO` has been called again, its pitch; had the program kept the first answer, this would fail. `Position`:
`start` is the line times the pixels from one line to the next (`Stride`), and nothing stray has
been stored. `LinesMatch`: the lines filled so far show their bars. The step is arithmetic with
products and quotients of variables, of which the provers know nothing; `Times`, `Quotient`
and `QuotientUnique` are the facts that suffice.

### Only model-checked

* The seven liveness properties: `CallEndsOrSleeps`, `WokenCallReturns`, `ValueReachesReader`,
  `PressIsLookedAt`, `UnloadEnds`, `WakeReachesThread`, `TimerGoesOn`. They depend on fairness,
  and so on `ENABLED`, which is out of the prover's reach. For the last three the safety in them is
  proved; for the others it is `ReaderSleepsOnlyWhileEmpty`, `NoSleepOverEvent`, `NoLostEvent` and
  `PressHasBottomHalf`, which are.
* The four refutations. A counterexample needs no proof; for two of them a theorem says when
  the refuted property does hold (`NoLostWriterWakeUp`, `OnlyReaderGetsData`), and for a third that
  it holds on the kernel the driver was compiled for (`ImplementsExclusiveOpen`).

## 6. Not modelled, and the plan

What is left is refinement: an abstract specification of what a key driver promises its
readers, as `ByteFifo` is for the FIFO, and the proof that `Buttons` implements it.

Not modelled:

* complete_example.c: it does not compile (typographic quotes, a misspelt name), so there is
  no program.
* virtdev's `fasync`, `release` and ioctl: the first two are those of globalfifo_async.c
  and are checked there; the third only calls `kill_fasync`.
* `virt_match` (a prefix test on two names; the device is not attached to the bus, line 19 of
  virt_device.c) and the sysfs files of the kobject, bus and device examples, which only
  print.
* pread and pwrite on globalmem, which use the same handlers and store no position back.
* The applications other than the frame buffer program: callers in a fixed order, which the
  models' callers subsume.
* Printing, device numbers, permissions, `nonseekable_open`, and the generated files.
* LED numbers outside 5 to 8 index `led_state` out of bounds in the source; the models'
  callers do not pass them. A file descriptor shared by two tasks (after `fork` or `dup`) is
  modelled in `Buttons` and `GlobalMem`, not in `GlobalFifo` and the LED drivers.
