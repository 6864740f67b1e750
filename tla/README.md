# Chopstx in TLA+

Chopstx is a small threads library ("RT operating system") for single-core microcontrollers,
chiefly Cortex-M0+/M3.  This directory is a TLA+ development about it: modules that follow
the kernel (`src/chopstx.c`, `src/chopstx-cortex-m.c`), the event flags, the three USB ports, the
USART driver and the two CDC-ACM applications handler by handler, TLC runs on small systems,
and theorems about the kernel, the timer, the event flags and the serial port checked by TLAPS for systems of any size.

- [1. Inventory](#1-inventory)
- [2. How the modules correspond to the code](#2-how-the-modules-correspond-to-the-code)
- [3. The runs](#3-the-runs)
- [4. Where the code departs from what it says](#4-where-the-code-departs-from-what-it-says)
- [5. What is proved](#5-what-is-proved)
- [6. What is not modelled](#6-what-is-not-modelled)
- [7. Plan](#7-plan)

## 1. Inventory

### Components

| Component | Source | State | Operations |
|---|---|---|---|
| Queues, ready list, dispatching | `chopstx.c` `ll_*`, `chx_ready_*`; `chopstx-cortex-m.c` `chx_sched`, `svc`, `preempt` | `running`, `q_ready`, the links `next`/`prev`, `state`, `parent`, `prio` of a thread | enqueue, push, pop, sleep, yield, preempt |
| Timer list, SysTick | `chopstx.c` `chx_timer_*`, `chx_snooze`; SysTick registers | `q_timer`, a delta list in `v` | insert, dequeue, expired |
| Mutexes | `chopstx.c` `chopstx_mutex_*`, `requeue` | `owner`, the waiters, `list`, `mutex_list`, `prio`, `prio_orig` | lock with priority inheritance, unlock |
| Condition variables | `chopstx.c` `chopstx_cond_*` | the waiters (threads and poll proxies) | wait, signal, broadcast |
| Threads | `chopstx.c` `chopstx_create` ... `chopstx_setpriority` | `state`, `flag_*`, `clp`, `q_join` | create, sleep, clean-ups, exit, join, cancel, cancel state, priority |
| Poll and interrupts | `chopstx.c` `chopstx_poll`, hooks; `chx_handle_intr`; `mcu/chx-*.c` | proxies on the stack, `ready`, `counter`, `q_intr`, the NVIC's enable and pending bits | poll, claim, done, interrupt |
| Event flags | `eventflag.c` | `flags`, `mask`, a mutex and a condition variable | prepare, get, set mask, wait, wait with a time limit, signal |
| USART driver | `contrib/usart-stm32f103.c` | two ring buffers, `usart2_tx_ready`, the control register, statistics | `usart_main`, read, write, config, send break |
| USB device drivers | `mcu/usb-stm32f103.c`, `mcu/usb-mkl27z.c` | `struct usb_dev`; status, toggles and buffers of the endpoints | event handler, control transfers, standard requests, endpoint set-up, stall, copy, enable |
| USBIP emulation | `mcu/usb-usbip.c` | `struct usb_control` per endpoint, the list of urbs, the notification under way | the same calls; the server's commands, unlink, reply |
| Terminal | `example-cdc/usb-cdc.c`, `sample.c` (and its copies `example-fs-bb48`, `example-cdc-gnu-linux`) | `struct tty`: input line, echo ring, flags | driver thread with its callbacks; `tty_wait_configured`, `_wait_connection`, `_send`, `_recv` |
| Serial adapter | `example-usb-serial/usb-cdc.c`, `sample.c` | `struct cdc`: input packet, line coding, bit-fields | driver thread with its callbacks; `cdc_wait_configured`, `_wait_connection`, `_send`, `_recv`, `_ss_notify`; two carrying threads |
| GNU/Linux port | `chopstx-gnu-linux.c` | `ucontext`s, signal masks | the same kernel over signals |
| ADC, acknowledge button | `contrib/adc-*.c`, `contrib/ackbtn-*.c` | device registers | start, read, wait |
| Start-up, clocks, flash | `entry.c`, `mcu/sys-*.c`, `mcu/clk_gpio_init-*.c` | device registers | once at reset |

### How they interact

All threads and interrupt handlers share the kernel's structures.  Mutual exclusion is by masking
interrupts (`chx_cpu_sched_lock`); the "spin locks" are empty on one core.  A thread leaves a
section by unmasking, or by `chx_sched`, which enters the `svc` handler and resumes some
other thread.  `chx_request_preemption` sets PendSV pending, which switches threads as soon as
no other handler is active and interrupts are unmasked.  Mutexes, condition variables, join and
poll all use the same few primitives: they link the running thread (or a proxy of it) in a
queue, set `state`, and call `chx_sched`; `chx_wakeup`, `chx_timer_expired`, `chopstx_cancel`
and the inheritance loop of `chopstx_mutex_lock` make a thread ready.  Event flags and the
drivers are programs over these calls.

A USB application has a driver thread that waits for the USB interrupt, lets
`usb_lld_event_handler` make an event of it, and handles the event with a callback; the callbacks and
the application's own threads share a structure under a mutex and condition variables, and both
call `usb_lld_tx_enable` and `usb_lld_rx_enable`.  On GNU/Linux the controller is a server thread
that talks USBIP to a client over a socket; it and the firmware meet in `struct usb_control` and
notify each other by a signal and by event file descriptors.  The serial adapter puts two carrying
threads between that and `usart_main`, with a ring buffer in each direction.

### What is hard, and what makes each component correct

- *Queues and dispatching.*  Four different pieces of code take a sleeping thread from its
  list, in any order.  A thread must be in the one list its state tells (`QueuesMatchStates`),
  lists kept by priority must stay sorted although priorities change (`QueuesSorted`), and the
  processor must run a thread of the highest priority (`HighestRuns`).
- *Timer.*  A slice and a sleep share one list and one field; a wake-up and an expiry race.
- *Mutexes.*  Inheritance follows chains of owners; unlocking computes the priority that is
  left.  The list of held mutexes must be exact (`HeldListExact`), waiters must not be abandoned
  (`NoAbandonedWaiter`), inherited priority must be given back (`PriorityGivenBack`) and must
  reach the owner (`InheritanceKept`, `OwnerInherits`), and inversion must be bounded
  (`InversionBounded`).
- *Threads.*  An exit races a join or a poll for it (`NoMissedExit`), a cancellation comes at
  any point (`ExitIsFinal`, `NoSleepWhenCanceled`), a result is passed through a field
  with other uses (`JoinSucceeds`).
- *Poll.*  Interrupts come in between hooks, between the hooks and the sleep, and between the
  wake-up and the clean-up (`PollArmed`, `PollCountsActive`, `ProxiesTakenBack`,
  `IrqFollowsProxy`, `IrqOffWhenDead`, `PollCountExact`).
- *Ticks.*  Inserting into, removing from and expiring the delta list reload SysTick, whose exception
  may already be pending.  Every sleeper must keep its own deadline (`ImplementsDeadlines`), the
  clock must not stop (`ClockRuns`), and a sleep that is cut in slices, or interrupted, must not
  end early or never (`NeverEarly`, `SleepersWake`).
- *Event flags.*  One wake-up per signal, several waiters, a mask, and a time limit that races the
  signal (`FlagsServed`, `NoStaleProxy`).
- *USB.*  A control transfer may be refused, given up, or overtaken by a bus reset at any stage; the
  host and the device keep toggles, address and configuration each on their own (`HostServed`,
  `TransfersExact`, `HostAgrees`, `TogglesAgree`).
- *Terminal.*  The echo of the driver thread and the lines of the main thread share one endpoint and one flag
  (`NothingLost`, `EchoInOrder`, `EndpointsArmed`, `MainWoken`).
- *USBIP.*  Urbs are queued, served, answered and unlinked by a thread beside the firmware
  (`UrbsAnswered`, and the properties above).
- *Serial port.*  Two ring buffers with indices modulo 1024, an interrupt that is turned on
  at the last moment, a line that does not wait, and two threads that see a hang-up at
  different times (`TxInOrder`, `RxAccounted`, `WakeupsKept`, `RingsAreFifos`).

`PROJECT.json` lists the hazards at the line where each bites.

## 2. How the modules correspond to the code

| Module | What it models |
|---|---|
| `ChxBase` | the state, the queues, the ready list, the timer list, `svc`, `preempt`, `chx_timer_expired`, `chx_wakeup`, `chx_handle_intr`, initialisation |
| `ChxMutex` | `chopstx_mutex_lock`, `chopstx_mutex_unlock`, `chx_mutex_unlock`, `requeue` |
| `ChxCond` | `chopstx_cond_wait`, `_signal`, `_broadcast` |
| `ChxThread` | creation, sleep, clean-ups, exit, join, cancellation, `chopstx_setpriority` |
| `ChxPoll` | `chopstx_poll` with its three hooks, `chopstx_claim_irq`, `chopstx_intr_done` |
| `ChxKernel` | the composition: `Next`, `Spec`, `FairSpec`, the types and the properties |
| `ChxInvariant` | `ChxInv`, the inductive invariant: `KernelInv`, `LocksInv`, `PollInv` and `PrioInv` |
| `MCKernel` | small systems: priorities, programs, poll arrays |
| `ListTheorems`, `ChxLinkProofs`, `ChxKernelProofs`, `ChxLockProofs`, `ChxPollProofs`, `ChxPriorityProofs` | the proofs about the kernel (section 5) |
| `Deadlines` | abstract: every sleeper has a deadline of its own |
| `ChxTimer` | the delta list and SysTick to the tick, slices, `chx_snooze`, `chopstx_usec_wait`; implements `Deadlines` |
| `Eventflag` | `eventflag.c` over `ChxTimer` |
| `MCTimer` | the properties of both, and a system of three threads |
| `EventflagProofs` | the proofs about the delta list, and about both (section 5) |
| `UsbDevice` | what the USB ports have in common: the control transfer engine and the standard requests |
| `UsbStm32`, `UsbKl27z`, `UsbIp` | the three ports over their controllers |
| `UsbIpServer` | the server thread of the USBIP port |
| `UsbCdc` | the terminal application |
| `UsbSystem`, `MCUsb` | the composition with a host or a client; the properties, and eight hosts |
| `Fifo` | abstract: a bounded queue |
| `Ring` | the ring buffer; implements `Fifo` |
| `LineCoding` | `usart_config` and `setup_usart_config`, as functions of the line coding |
| `Usart` | the controller, `usart_main`, and the calls of the driver |
| `UsbSerial`, `MCSerial` | the composition with the carrying threads, the USB side and the host; the properties, and eight scenarios |
| `SerialProofs` | the proofs about ring and serial port (section 5) |

### The kernel (`ChxBase` to `ChxKernel`)

**The processor.**  There is one.  A section, the code from `chx_cpu_sched_lock` to
`chx_cpu_sched_unlock` or `chx_sched`, runs with interrupts masked and is one action.  Sections
that loop over other threads (inheritance), or that end in `chx_sched`, are a chain
of actions; `cpu` tells where the chain is: `"user"` outside of any section, `"lock"` inside one,
`"sleep"` and `"yield"` when `chx_sched(CHX_SLEEP)` or `chx_sched(CHX_YIELD)` was called and the
`svc` handler (`Sched`) is next.  Nothing else is enabled while `cpu # "user"`.  `pendsv` is the
pending PendSV; `Preempt` is its handler, taken before any thread code goes on.
`Interruptible` is false for a running thread of priority `Inhibit` or more, for which
the code leaves interrupts masked (`CHOPSTX_PRIO_INHIBIT_PREEMPTION`).  The idle loop is
`running = None`.

**Threads.**  `pc[t]` is the place of thread `t` inside a call, `"user"` outside of calls;
`fr[t]` holds the locals of the calls it is in.  `Calls(t, c)` is the guard of a call: `t` has the
CPU, is in user code, and its program makes that call (`May[t]`).  `Runs(t, l)` is the guard of a
step at label `l` outside a section, `Locked(t, l)` inside one.  Where the code reads shared
state outside of a section the read is an action of its own: the test of `chopstx_testcancel`
before a section, and the increment of `counter` in `chx_cond_hook`, which is a read
(`HookCheck`) and a write (`HookCount`).

**Data that is abstracted.**  A queue is a sequence of nodes; `InsertAt` the place that
`ll_prio_enqueue` or `ll_prio_push` finds.  `->v` of a thread has five uses; the model keeps what
the code distinguishes: 0, a positive number (1), -1, and the address of the thread that is being
joined.  The delta of a timer entry is the positive number or 0; *when* an entry expires is left
open, so its place in the timer list is any place and the head may expire at any time.  A long
sleep counts slices of `MAX_USEC_FOR_TIMER`, `MaxSleep` at most.  A poll descriptor stands for the
proxy that `chopstx_poll` builds on its stack.  Registers, stacks, entry functions and
return values are left out.

**What the programs promise.**  Calls have contracts that the code does not check; they
are guards of the call actions, each with a comment:

- a mutex is unlocked by its owner, the last one locked first (`chx_mutex_unlock` pops the list);
- mutexes are nested in one order (`LockRank`), so that programs do not deadlock by themselves;
- `chopstx_cond_wait` is given the mutex locked last, or none;
- a thread is waited for by one thread at a time, and not again once it is joined (`Joinable`);
- a round-robin thread polls with a time limit.  Without one, `chopstx_poll` leaves `parent`
  pointing to the timer list it was taken off, and a wake-up would take it off again.

**Bounds of the kernel.**  `MaxSleep` and `MaxCleanup` (clean-ups registered at a time) are the
only bounds on counters; nothing else in the kernel grows.

### The timer and the event flags (`ChxTimer`, `Eventflag`)

`timer` is the list from head to tail, `v` of each thread and the SysTick counter, all in ticks.
A section is one action; the mutex of an event flag is a section, too, since `ChxMutex` shows what
it promises.  `alarm` is the SysTick exception: pending, and with nothing that masks it once the
section it came up in is over.  Writing the counter does not take back an exception that is pending
(a property of the hardware): when the head of the list is removed in between, the exception counts for
the next entry.  `Deadlines` has this as the jump of `Wake`, the one way in which a deadline is
reached before its ticks are counted.  `todo` counts, for `NeverEarly` only, the ticks till a
`chopstx_usec_wait` may return.  `burst` marks the time after a signal of several flags at once, or a
change of the mask, until the flags are taken: the code wakes up one waiter only.

### USB (`UsbDevice` to `UsbSystem`)

`usb` is the pair of `struct usb_dev` and the controller; the functions `usb_lld_*` are operators from such
a pair to the next one.  `drv` is where the driver thread is: waiting, in a callback, or
in the section that echoes.  `tty` is `struct tty`, `main` the main thread.  Data is counted in half
packets, so that packets are full, short or empty; contents are the numbers of the units, so that
a unit lost, doubled or out of order shows.  The endpoint registers of the STM32F103 have status
fields, toggles and the flags of correct transfers, the KL27Z an even and an odd buffer descriptor per
direction with its count of which is next, USBIP a state and a count per `struct usb_control`.

The host is external: it goes through a plan of requests, each step a set of requests to choose from, and
may give a transfer up, reset the bus, type, poll and hang up.  A token answered with NAK is no
step.  The USBIP client has one control urb open at a time, up to three urbs for endpoint 1, and
may unlink one.  `log.raced` marks what follows `tty_wait_connection` of a thread that comes late,
`host.unsure` what follows a second configuration or a halted endpoint, and `host.skipped` what follows an unlink
that leaves waiting urbs unserved; properties name these where they do not hold.

### The serial port (`Usart`, `UsbSerial`)

`a2h` and `h2a` are the ring buffers, `uart` the controller, `um` the driver thread `usart_main`, `thr` the two
carrying threads `usart_to_cdc_loop` and `cdc_to_usart_loop`, `slept` who sleeps on which condition
variable, `cm` the USB driver thread `cdc_main`.  A section under a mutex is one action, except the loops
of `rb_read` and `rb_write`: they move one character a step with the mutex held, and the driver thread
may preempt them there and wait for it.  `usart_main` has the highest priority, then the carrying
threads, then `cdc_main`; either of two ready carrying threads may run.  A time limit passes, and the host
acts, only when it makes a difference: with nobody of higher priority to run.  Characters are numbered, so that their order shows.
`log` is the model's own record: the characters sent to the line and heard by the host, discarded
with a hang-up (`gone`), dropped or missed on the way in (`lost`, `missed`), and the five cases the code does not
cover (section 6).  Of the adapter's two channels, which share nothing but the USB driver thread, one is modelled; the
endpoints are packets and completions here, as the USB transfers are `UsbStm32`'s.

**Definitions named `Bug...`** stand before the definition they are a defective form of.  Nothing
uses them; put in the place of the definition, they show that the property that is
listed with them in `PROJECT.json` ("mutants") notices the defect.

## 3. The runs

`tlc -workers 2 -config <cfg> <module>`: `MCKernel` with `MCMutex.cfg`, `MCThread.cfg`, `MCPoll.cfg`, `MCLive.cfg` and
`Hole*.cfg`; `MCTimer`, `MCUsb` and `MCSerial` each with the `.cfg` of its name.  States and times are of two workers.

| Run | System | Question | Distinct states |
|---|---|---|---|
| `mutex` | 4 threads, 2 nested mutexes, 1 condition variable, two round-robin threads, priority changes | do queues, scheduling and inheritance stay right? | 706 000, 80 s |
| `thread` | 3 threads, one of them detached, a mutex, a condition variable, clean-ups, a priority above `Inhibit` | do exit, join, poll for exit and cancellation stay right at every interleaving? | 708 000, 50 s |
| `poll` | a poller of one interrupt and one condition, a thread that outranks it and signals or cancels, a third one | are events never missed, and proxies and interrupts always taken back? | 295 000, 25 s |
| `live` | 4 threads, one mutex, a thread of middle priority that never locks | does the thread of highest priority get its mutex? | 132 000 |
| `timer` | 3 threads, one of them round-robin, of the same priority as the first and above the second; sleeps of one and of two rounds, an event flag with two bits and two masks | do the delta list and SysTick implement independent deadlines, and do event flags serve their waiters? | 512 000, 70 s |
| `usb` | the terminal on each of the three ports, with 8 hosts: control requests only, typing with hang-up and reset, urbs with unlinking | are control transfers exact and answered, do host and device agree, is nothing lost or out of order? | 1 705 000, 80 s |
| `serial` | the serial adapter with rings of 2 and 3 places and 8 scenarios: long writes, noise, hang-ups, resets, reconfiguration, break | does every character arrive once and in order or is its loss told, and does nobody sleep through its event? | 2 462 000, 80 s |
| `hole_*` | the systems of `MCKernel` | section 4 | |

*Why the bounds are enough.*  A chain of inheritance of length two (waiter, owner that
waits, owner) with a bystander of middle priority needs four threads and two mutexes, and that
is what `mutex` has; two waiters of one mutex are in it, too, and equal priorities (`b`, `c`).  The
joins need a joiner, the joined, and someone who changes things in between.  A poll needs two
descriptors, so that one can become active while the other is being registered.  One clean-up and
one further slice of a sleep are what it takes to go around each loop.

In `timer`, sleeps of 1 and 3 with a longest sleep of 2 make entries that expire at the same tick, before,
between and behind others, and a sleep of two rounds; the third thread adds slices, and outranks
a thread that signals it, so that one section may take its deadline and start its slice.  In `usb`,
replies have from one to six half packets, below, at and above the size of a packet and the length
asked for; the line holds three characters and an echo packet one, so that line and ring fill up; three
urbs are what it takes to have one served, one waiting and one unlinked.  In `serial`, the ring towards
the line has two places and a thread carries up to three characters, so that a write fills an
empty ring and sleeps in its middle; the other ring has as many places as the index can count, which is the size
that is stored as 0; four frames fill it.  Its index counts to 3 instead of 1024: the proof (section 5) is for any size.
The hosts differ in what they do, not in how much, since every one of them alone reaches the
interleavings of what it does.

Each property has a mutant,
a plausible defect in a definition, that the run finds with these bounds.

*Deadlock* is not checked (`CHECK_DEADLOCK FALSE`): all threads may exit, wait for a
condition or a flag that nobody signals, or call `chx_fatal`, which stops; in `usb` and `serial` the host comes to the
end of its plan, and the firmware waits for more.  That it does not wait *before* is what `HostServed`, `EndpointsArmed`,
`MainWoken` and `WakeupsKept` say.  That nobody waits for a *mutex*
for ever because of the kernel is what `NoAbandonedWaiter` and `InversionBounded` say.

*Fairness* (`FairSpec`, run `live`).  The processor executes: a step of the kernel that is enabled
is taken, as are `svc`, PendSV and interrupts, since the hardware does not postpone an
unmasked interrupt for ever (weak fairness of `Step(t)`, `Sched`, `Preempt`, `HandleIntr`).  Timers
expire: the head of the timer list does (weak fairness of `TimerExpired`), and no
entry stays behind others for ever, since deltas are finite.  A program that holds a mutex and
is given the CPU time and again unlocks it (strong fairness of `UnlockCall`); without this
no mutex could promise anything.  No fairness is assumed of other calls: the middle thread
may compute for ever.  `InversionBounded` is stated with one mutex because it does not hold with
nested ones (`hole_inherit`).

In `timer`, `FairSpec` asks that SysTick counts and that its exception is taken, and nothing of the threads: a
sleeper becomes ready even if all others compute for ever.  `usb` and `serial` have no fairness: what they check
are states, with "nobody has anything left to do" (`Quiet`) in place of "eventually".

`ChxInv`, the invariant that is proved, is also checked by `thread`; and `QueuesMatchStates` in each
of the first three runs, since the interleavings differ.

## 4. Where the code departs from what it says

Each run checks one statement of a comment or of `NEWS`, and TLC's trace shows how the code violates it.

- `hole_inherit` (`OwnerInherits`, `chopstx.c:763`).  `chx_mutex_unlock` frees the mutex and makes
  its first waiter ready.  Until that one runs, `owner` is NULL: an inheritance loop that
  comes to a thread waiting for this mutex stops there.  The thread that then acquires it keeps its low
  priority although a high one waits behind it.
- `hole_join` (`JoinSucceeds`, `chopstx.c:1208`).  A join that had to wait gets the result of
  `chx_wakeup`, 1; it returns "interrupted", and neither finishes the joined thread nor
  stores its return value.  `JoinReturnsNonzero` (section 5) is this for systems of any size.
- `hole_cancel` (`NoSleepWhenCanceled`, `chopstx.c:889`).  The test for a cancellation is made
  before interrupts are masked: a cancellation in between finds a thread that is not asleep,
  and the thread then goes to sleep.
- `hole_irq` (`IrqOffWhenDead`, `chopstx.c:1027`).  A thread cancelled at the hook of the second
  descriptor exits with the proxy of the first still linked, on a stack that is no
  longer in use, and its interrupt enabled.
- `hole_count` (`PollCountExact`, `chopstx.c:977`).  `chx_cond_hook` increments the counter with
  interrupts on; an interrupt that increments it in between is not counted.
  `PollCountsActive` shows that the result is still positive when a descriptor is active.

`InheritanceKept` is the other side of `hole_inherit`: apart from the acquisition of a mutex with
waiters, and a `chopstx_setpriority` that lowers an owner, no step breaks the order.

## 5. What is proved

`tlapm <module>` checks each module; `ChxKernelProofs`, `ChxLockProofs`, `ChxPollProofs` and `ChxPriorityProofs` have the theorems on the kernel,
`EventflagProofs` those on the timer with the event flags, `SerialProofs` has those on the serial port.

| Theorem | Statement |
|---|---|
| `KernelInvariant` | `Spec => []KernelInv` |
| `KernelTypes` | `Spec => []TypeOK` |
| `QueuesMatch` | `Spec => []QueuesMatchStates` |
| `OneRunning` | `Spec => []RunningOne` |
| `JoinReturnsNonzero` | `Spec => []JoinNeverZero` |
| `HeldListIsExact` | `Spec => []HeldListExact` |
| `WaitersNotAbandoned` | `Spec => []NoAbandonedWaiter` |
| `ExitFinal` | `Spec => ExitIsFinal` |
| `NoExitMissed` | `Spec => []NoMissedExit` |
| `PollSleepsArmed` | `Spec => []PollArmed` |
| `PollCounts` | `Spec => []PollCountsActive` |
| `ProxiesAreTakenBack` | `Spec => []ProxiesTakenBack` |
| `IrqInStep` | `Spec => []IrqFollowsProxy` |
| `QueuesAreSorted` | `Spec => []QueuesSorted` |
| `PriorityIsGivenBack` | `Spec => []PriorityGivenBack` |
| `InheritanceIsKept` | `Spec => InheritanceKept` |
| `HighestRun` | `Spec => []HighestRuns` |
| `KernelIsSound` | `Spec => []ChxInv` |
| `TimerInvariant` | `Spec => []IInv` |
| `TimerImplementsDeadlines` | `Spec => ImplementsDeadlines`: the delta list and SysTick implement `Deadlines` |
| `TimerTypes`, `TimerListMatches`, `TimerClockRuns` | `Spec => []TimerTypeOK`, `[]ListMatchesStates`, `[]ClockRuns` |
| `EventflagServed`, `EventflagNoStaleProxy` | `Spec => []FlagsServed`, `[]NoStaleProxy` |
| `UsecWaitNeverEarly` | `Spec => NeverEarly` |
| `SerialTypes` | `Spec => []SerialTypeOK` |
| `RingsRefine` | `Spec => RingsAreFifos`: both ring buffers implement `Fifo` |
| `FramesArriveInOrder` | `Spec => []RxAccounted` |
| `TypedComesOutInOrder` | `Spec => []TxInOrder` |
| `NobodySleepsThrough` | `Spec => []WakeupsKept` |
| `FrameAsAsked` | what `usart_config` programs is what the host asked for, for every line coding of the USB side |

### The kernel

The theorems down to `KernelIsSound` hold for any sets of threads, mutexes, condition variables, interrupts and descriptors, any
priorities, programs and poll arrays that satisfy `ConstantsAssumption` (types; the set
of mutexes is finite), `AddressAssumption` (nodes, objects and the NULL pointer are different
addresses; a descriptor belongs to one thread and occurs once in its array) and `DescriptorAssumption`
(an interrupt has one owner, as `chopstx_claim_irq` asks, and an array waits for an exit once).  TLC
evaluates the three in every run of the kernel.

**The invariant** (`ChxInvariant`).  `QueuesMatchStates` is not inductive.  A wake-up of a
proxy, say, takes its thread off the timer list if `parent` says so; the step is right only if
`parent` is, and only if the thread is not the running one.  `KernelInv` therefore adds:

- `Linkage`: the set of queues a thread is linked in is `Places` of its state and `parent`,
  and `StateOK` what state says of `parent` and `v`: a ready thread's parent is the ready list
  (`requeue` depends on it), a waiting one's an object, a joiner's `v` is a thread (`chx_exit`
  and `requeue` follow it), a running thread's `parent` is not the timer list unless it has a slice.
  Lists have no thread twice, and the lists whose heads the kernel takes for threads
  have no proxies.
- `ProcessorOK`: what `running` and its state are at each stage of a section.  While user code
  runs, the running thread is RUNNING, or is a round-robin thread whose slice has just expired
  and PendSV is pending; that is the case `preempt` tells apart.
- `FrameOK`: the locals are what the label says: an object where one is locked or waited
  for, an index inside the array, a time limit for round-robin pollers.
- `JoinOK`: a joiner's `v` is not 0 once it waits.

This is enough for the lists.  Mutexes and the end of a thread need `LocksInv`, which rests on it:

- `SleepOK`: what a thread sleeps for is what it is doing.  The state of a waiter says in which call it
  is, and `fr[t].mtx` that the queue it is linked in is that of its mutex.  With it, a wake-up
  may be followed to the call it ends, and a thread that has exited is told from one that sleeps.
- `ListOf`: from `mutex_list[t]` on, the links `->list` go through the mutexes held from the one locked last to
  the first.  The programs lock in the order of `LockRank`, and so the order of the list is that of
  the ranks; the set of mutexes and the first one then determine the list, and neither a recursion
  nor an induction along the links is needed to reason about `Chain`.
- `CallOK`: what a section relies on.  `chopstx_cond_wait`, `chopstx_mutex_unlock` and the hook of a condition release the mutex
  locked last (the code pops the head, whichever mutex it was given), a mutex that is locked, or will be locked
  again after a wait, comes after all those held, and a thread that is dying past the loop of `chopstx_exit` holds none.
- `OfferOK`: a mutex that is waited for is held, or on offer: some thread that is not asleep is at the
  start of `chopstx_mutex_lock`'s loop for it.  That thread need not be the waiter it was offered to first.

`PollInv` rests on both, and relates the proxies, on the stacks of their threads, to where those are in `chopstx_poll`:

- `ProxiesOK`: a descriptor is `Active` from the end of its hook to the end of the poll, and
  `Armed` as long as, besides, it is not `ready` and its turn of the clean-up has not come.  Its proxy is linked in the queue of what it
  waits for exactly while it is armed, once, and nowhere else; only a thread that was cancelled in the middle of the poll, or has called
  `chx_fatal`, may have left one (`CutOff`).
- `CountOK`: the counter is 0 exactly if no active descriptor is ready.  It is not the number of these: between the two
  steps of its increment in `chx_cond_hook` an interrupt may count too, and that is lost (`hole_count`).
- `IrqFollowsProxy`, which is inductive together with these.
- `Noticed`, for each wait in `chopstx_join` and each proxy in the join queue: the thread waited for has `join_req` set and is not
  past the point of its exit where it looks for waiters.  It may be, if a proxy that was left behind waits for the same exit:
  `chx_exit` wakes up the first it finds.
- `AwaitedOK`: one thread at a time waits for an exit; a thread is finished by nobody else; and nothing happens in between
  the section of `chx_exit` that looks for waiters and the one that ends the thread.

`PrioInv` is about priorities, and needs the three others:

- `QueuesSorted`, which is inductive with `KernelInv`: a priority changes only while its thread is in no list kept by priority, or
  together with a `requeue` or an enqueue in the same step.
- `ClaimOK`: a priority above a thread's own is one it `Deserves`, by a waiter of a mutex it holds or by a joiner.
  In the middle of an inheritance loop, a thread that `WaitsAt` a mutex counts although it is not linked yet.
- `CursorOK`: while the loop runs, the thread it has come to deserves the priority that it will be given; and in
  `chopstx_mutex_lock`, the owner of the mutex has it already, unless it is the thread that the loop has come to.
- `HighInv`: the running thread `Leads` unless a switch is to come.  In a section that ends with `chx_sched` anything may be
  ready; between two turns of `chopstx_cond_broadcast` the thread leads unless the local `yield` is set.

**The argument.**

1. `ListTheorems`: inserting in, removing from and popping a sequence, in terms of the
   elements and their multiplicity; no kernel notions.
2. `ChxLinkProofs`: the same for the family of queues, `Where` a node is linked after
   each primitive of `ChxBase`; and the combinations the handlers use preserve `Linkage`: a
   running thread is parked in a queue, a linked thread is made ready, the ready list is popped
   and a slice started, a node is requeued, proxies come and go.  Its last part is about the steps that
   touch no list.
3. `ChxKernelProofs`: one lemma per section and interrupt; `Init`, `Next`, the theorems.
4. `ChxLockProofs`: the same for `LocksInv`.  `LocksKept` and `LocksChange` say what a step must show of the thread
   that moves, if the others are at most woken up, or drift from the ready list to the processor and back, without and
   with mutexes that change hands.  `ReleaseWakes` and `ReleaseOffers` are about the release of
   a mutex, which wakes up the first waiter and leaves the mutex without an owner; `LockAcquireLocks` about the thread that comes first,
   which takes the mutex from those it was offered to, who then wait again or find it held.
5. `ChxPollProofs`: a step is `Silent` (no proxy moves), or a proxy `Fires` (it is taken, and its master's counter goes up), or it is a
   step of `chopstx_poll`, which touches the descriptors of its caller only (`PollStepPoll`).  `SameLinks` says of a
   primitive which nodes stay where they are.  `RegisterPoll` is the end of a hook of any kind, `PollCleanPoll` a turn
   of the clean-up, `ExitNotifyPoll` the section of `chx_exit` that wakes up the waiter it finds.

6. `ChxPriorityProofs`: `EnqueuePlace` and `PushPlace` say what the two searches find in a sorted list, and each section
   then keeps the lists sorted.  Next, most steps are `Plain`: no owner, no own priority and no waiter of a mutex changes.  The rest is
   one lemma for each of the steps of locking, inheriting and joining, for `chopstx_setpriority`, and for the four that release a
   mutex; `ReleasePrio` says what the loop of `chx_mutex_unlock` computes: the highest of the thread's own
   priority and of the first waiters of the mutexes still held.  By `QueuesSorted`, the first waiter stands for all.  For `HighestRuns`,
   `ReleaseLowers` says that what a thread loses with a mutex is not more than the waiter it wakes up
   has, to which `chopstx_mutex_unlock` then yields.

`ChainIsList` turns `ListOf` into what the loop of `chx_mutex_unlock` visits, which gives `HeldListExact`; the
head of a queue is a waiter by `Linkage`, its mutex that of the queue by `SleepOK`, which gives `NoAbandonedWaiter` from `OfferOK`.
For `ExitIsFinal`, no step of a call moves a thread away from the label `"dead"` (`DeadStays`), where
`SleepOK` and `CallOK` say that it has exited and holds nothing.  `PriorityGivenBack` is `ClaimOK` outside of the loops;
`InheritanceKept` needs no invariant of its own, as it speaks of one step: `StillOutranked` is the case of an owner and a waiter whom the
step leaves alone.

The attempt to prove `HighestRuns` showed that it had been too strong, and TLC then found the run that refutes it: four threads, one of
which locks a mutex, is joined by a higher thread and inherits, and unlocks with a low waiter while a middle thread is ready.  `chx_mutex_unlock`
computes the priority from the waiters of its mutexes only (`chopstx.c:586-598`), which takes the joiner's away; and
`chopstx_mutex_unlock` yields to the waiter it has made ready, not to another thread that now outranks the caller
(`chopstx.c:855`).  The thread runs on till its next call that switches.  `HighestRuns` now leaves out threads that are joined.

### The timer and the event flags

The theorems hold for any finite set of threads, any priorities, clock rate, longest sleep and slice, any sleeping
times and programs (`TimerAssumption`) and any masks of finitely many flags (`EventAssumption`).

**The invariant** (`IInv` in `EventflagProofs`).  None of the properties is inductive.  It adds:

- `TimerInv`: the gaps in the list and the counter add up to a longest sleep at most, and beyond that to the 1 behind
  the last entry that `chx_set_timer` counts; the list has exactly those who belong in it.  Without the bound,
  neither the reload value nor an insertion keeps its type.
- `CpuInv`: nobody but the thread on the CPU is RUNNING, and that one is RUNNING or its slice has expired.  The
  list of a round-robin thread's slice depends on it.
- `SleepInv`: who sleeps is in the call that put it to sleep; an expiry may so tell whom it wakes up.
- `CondInv`: the queue of the condition variable has those who wait, and *every* proxy not yet signalled.  For
  `FlagsServed`, that an entry is missing counts as much as that one is there.
- `RestInv`: the ticks till a `chopstx_usec_wait` may return are covered by its deadline and its rounds to
  come, and the `v` that it gets back as its result is 0 after a sleep that was not interrupted.

**The argument.**

1. The delta list alone.  What a thread has `Left` is the sum of the counter and of the gaps
   before it.  Since induction over the list is beyond the prover, sums are introduced with `LeastNat`: a list for
   which the sums up to some place are not what the lemma says would have a first such place, and there the lemma
   holds.  An insertion gives one thread its time and moves nobody else's, at the head, behind equal
   entries, between others or at the end; a removal takes one thread's, and leaves the clock running for the
   others; an expiry takes exactly those whose time is over, and reloads for the first of the others.
2. A section is a composition of insertions, removals, wake-ups and a dispatch;
   `Section` and `Settled` say what it may have done to the deadlines halfway and at its end.  One lemma per
   section, then one per step of a call, for each part of `IInv`; `FlagsServed` counts the flags wanted and the threads
   on the way before and after each.
3. `TimerImplementsDeadlines`: each step is a `Reset`, a `Tick`, a `Wake` or a `Stray`, or stutters.

The attempt to prove the refinement showed that `Deadlines` had been too strict: a section may take the deadline of one
thread and start that of another.  A thread that signals a round-robin thread of higher priority in a timed
poll takes that thread's deadline, and the dispatch at the end of the section gives it a slice.  `Reset` now allows
the thread that is on the CPU before or after the step, and the run `timer` has priorities under which this occurs.

### The serial port

The theorems hold for an index of any range (`IndexRangeAssumption`), ring buffers of any size up to that range and
any size of a thread's buffer (`SizesAssumption`), and any scenarios of the types of `ScenariosAssumption`.

- `SerialTypeOK` is the inductive invariant of the rest.  Of a ring buffer it says that indices are below the
  size, that `head = tail` exactly if it is full or empty, and that it is not both; of the others, besides their types, that
  no thread carries more than its buffer holds, that the length of the input is that of a packet, and
  that `cdc_main` is in `usb_rx_ready` only with a packet to fetch.  Without these the copies could
  leave the types.
- The first part of `SerialProofs` shows that `rb_add` appends to, and `rb_del` takes from, the sequence of characters that a ring buffer
  holds, place by place around the wrap, and that `rb_ll_flush` empties it.  `RingsRefine` then needs that every
  step of the system adds to a ring only with a place free and takes only with a character there.
- The statistics count every frame because of `CountInv`, with one lemma per step that moves a frame.
- The order of characters, in both directions, is shown on a *train* (`ListTheorems`): the places a character
  passes through, as a tuple of sequences of ascending numbers, each before those of the part behind it.  A step of the
  system is one of those a train can make: the first character of a part, or all of it, goes on to the next part
  (`TrainHeadMoves`, `TrainPartMoves`); a part is dropped (`TrainDrops`); new characters come in at the end
  (`TrainGrows`), or are lost before they do (`TrainMisses`).  `TrainJoins` reads the order of the whole off the order of the parts.
- `FramesArriveInOrder` has six parts, from the data register to the host (`RxInv`); that a frame overrun is told by the
  counter is `OverrunInv`.
- `TypedComesOutInOrder` has seven, from the host to the line (`TxInv`).  A part that is written over would lose characters without
  a word, so the places must be free when the next character comes: `TokenInv` (endpoint 3, `input[]` and `flag_input_avail`
  pass one token: at most one of them has a packet, unless the bit-fields have been torn), `DrFree` (the data register is
  free when `usart_main` takes it for free).  That nothing is discarded before the host hangs up is `StartInv`: a thread that
  flushes, or has not been woken up by the connection yet, finds nothing to flush, as the other one lets no
  character in.  This needs `SleepInv` (who sleeps at the connection is woken up by the broadcast that makes it), `EarlyInv` (what a
  bus reset finds before the first configuration is blank) and `NoReset`.
- `NobodySleepsThrough` has one invariant per kind of waiting.  `WakeInv` is about the driver: outside of the step that handles the data
  register, a character in it, or `usart2_tx_ready` cleared, means that its interrupt is on, or that `usart_config` or
  `usart_send_break` has rewritten the control register (`log.rewritten`); and while `usart_main` sleeps and could send,
  the ring buffer is empty, or a writer holds its mutex and has not filled it: it will signal at the end, or as it
  fills it.  `CarrierInv` is about the rings: only one thread waits for characters, and only the other one for places, so that
  the signal of `rb_ll_put` or of the driver cannot go to the wrong one.  The other two conditions have both threads waiting.  For
  `InputInv` the *order* matters: the signal of input, or of a new configuration, reaches `cdc_recv` because the other thread, should it
  wait for a connection, began to wait later; this follows from `SleepInv`, since `cdc_recv` begins to wait only while there is a
  connection.  `SenderInv` keeps `usb_tx_done` to come while `flag_output_ready` is cleared, and, when it is set
  and somebody still waits for it, finds the one that has been woken up about to send.  `EP3Inv` says who
  will enable endpoint 3 again: it is enabled, or has a packet, or its packet is on the way to `cdc_recv`, or the thread is awake and about
  to find the connection gone; in the last case `cdc_main`, of lower priority, does nothing before it has done so.
- `FrameAsAsked` is a case analysis of the two functions over all line codings.

### Only model-checked

The properties of USB are checked by TLC on the small systems: what a terminal makes of its input is a fold over the
characters of a packet, so that most of them need an induction over data.  `InversionBounded` and `SleepersWake` are liveness under
fairness, which is beyond the prover, as is any use of ENABLED; so is induction over data.

## 6. What is not modelled

The GNU/Linux port of the kernel (the same `chopstx.c`; its context switches are by `ucontext` and a signal
mask), the ADC and button drivers, start-up code and flash programming (straight-line register
accesses), board files and the LED examples.  In the kernel: registers and stacks, return values of
threads, interrupt priorities, and the sharing of one word by `state` and the flags, where what a
compiler's read-modify-write of a bit-field may undo depends on the build.  Of USB: suspend,
remote wake-up, clocks and pins; of USBIP the list of devices, the loss of the connection and the shutdown.  Of the
serial port: hardware flow control, smart card mode and the second channel.

*What the models know and the properties leave out.*  Where the code does not hold what one would ask of it, the
property names the case, and the model still has it:

- A thread cancelled in the middle of `chopstx_poll` leaves its proxies linked (`CutOff`), one of them perhaps in the join queue
  ahead of a later waiter for the same exit, which then is not woken up (`StaleWaiter` in `NoMissedExit` and `PollArmed`).
- A thread that is joined loses the joiner's priority at its first unlock, and may then run while a ready thread has a higher one
  (`HighestRuns`, section 5).
- A round-robin thread's result of `chx_sched` is overwritten by its slice (`chopstx.c:329`): its sleep of
  more than `MAX_USEC_FOR_TIMER` ends early (`NeverEarly` is about the other threads).
- A signal of several event flags, or a mask that lets several through, wakes up one waiter (`burst`).
- A reply of exactly one full packet, as long as the host asks for, is followed by an empty packet too many
  (`usb-stm32f103.c:1114`, and the same test in the other ports; `OneFullPacket`).
- `tty_wait_connection` sets `flag_send_ready` and enables endpoint 3 whatever is under way (`log.raced`); the same in
  `cdc_wait_connection` (`log.disturbed`), where the later of the two threads also discards input of the new connection (`log.gone`).
- A second configuration leaves the flags of the application as they were, and halting an endpoint drops what is on it (`host.unsure`).
- Unlinking the urb in hand leaves the next one of the endpoint waiting (`usb-usbip.c:796`, `host.skipped`).
- `usart_config` and `usart_send_break` write the control register without TXEIE: the character under way may be the last one
  till somebody writes again (`log.rewritten`).
- An overrun that comes with a noise, framing or parity error is not counted (`log.masked`), and a frame that arrives between
  the reads of status and data of an overrun is dropped.
- `usb_rx_ready` writes bit-fields without the mutex (`log.torn`).
- A configuration sets endpoint 3 up and leaves it to `cdc_wait_connection` to enable it.  A thread that is past that, and
  does not wait in `cdc_recv` without a connection, carries on as if nothing had happened, and does not come by there before the host has
  closed the connection again (`log.unseen`).  `usb_device_reset` wakes up nobody, nor does it reset `flag_notify_busy`.

*Assumptions about what is outside.*  A pending SysTick exception survives a write of the counter.  The controller of the KL27Z stays at the
even descriptors while ODDRST is set.  Read-modify-writes of the STM32F103's endpoint registers are one step.  A host gives a transfer
up, and resets or addresses the device, at a pace the device can follow.  On the KL27Z no transfer is given up: in
its data stage there is no buffer for a SETUP packet.  `SET_INTERFACE` on an interface with traffic is not
sent, as it puts the endpoints to NAK under it.

*A possible deadlock that the models do not reach* (GNU/Linux): the server waits in `notify_device` (`usb-usbip.c:208`) with an endpoint's mutex held; the main
thread may want that endpoint with `tty0.mtx` held, and the driver thread, which would take the notification, that
mutex.  A section of the main thread under its mutex is one step here, taken when the endpoint is free.

## 7. Plan

| Order | Content | State |
|---|---|---|
| 1 | the kernel, and its invariant proved | done |
| 2 | `ChxTimer`, `Eventflag` over `Deadlines` | done |
| 3 | the three USB ports and USBIP with the terminal | done |
| 4 | the serial port over `Fifo`, and its types, refinement, wake-ups and the order of its characters proved | done |
| 5 | proofs on the kernel's mutexes and exits: `HeldListExact`, `NoAbandonedWaiter`, `ExitIsFinal` from `ChxInv` | done |
| 5a | proofs on poll: `NoMissedExit`, `PollArmed`, `PollCountsActive`, `ProxiesTakenBack`, `IrqFollowsProxy` from `PollInv` | done |
| 5b | proofs on priorities: `QueuesSorted`, `PriorityGivenBack`, `InheritanceKept`, `HighestRuns` from `PrioInv` | done |
| 6 | proofs on the timer and the event flags, and the step from the delta list to `Deadlines` | done |
| 7 | sections of several steps for `UsbCdc` on GNU/Linux, for the deadlock above | open |

No module that has theorems, or that such a module extends, declares a recursive operator.
