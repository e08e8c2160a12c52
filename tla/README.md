# A verification of the bank vault

The repository is a bank-vault game on a DE0-Nano-SoC board: SystemVerilog for
the lock and its puzzles, a Nios II processor with a C program for the OLED
screen, and under that program the vendor's board support package: the SPI
driver, the system tick, the JTAG UART driver and the file descriptors behind
stdin, stdout and stderr.  This directory holds TLA+ modules for these parts,
TLC configurations that check them on small instances, and theorems checked by
the TLA+ proof system for every value of the constants.  `PROJECT.json` says,
definition by definition, which lines of the source each one models.

## 1. The system

### 1.1 Components

| component | state it keeps | operations | modules |
|---|---|---|---|
| stage machine, random code, lock output (`bankVault.sv`) | `next_state`, `game_one_counter`, `r_num_0..3`, `rgb_res` (combinational) | one edge of clk, reset | BankVault, CodeHistory |
| counting game (`gameOne.sv`) | `bits`, `victoryflag` | one edge of clk | GameOne |
| code game (`joy_code.sv`) | `next_state` | one edge of clk | JoyCode |
| knock circuits (`safe_tilt_and_unlock.sv`, twice) | a debouncer, `output_elmag`, `unlocked_flag` | one edge of FPGA_CLK1_50, reset | SafeTilt |
| debouncer (`debounce.sv`) | `Q1`, `Q2`, `count`, `debouncedInput` | one edge, reset | Debounce, DebounceFilter |
| keypad (`colseq.sv`, `kpdecode.sv`) | `kpc` | one edge of clk, reset | Keypad, KeypadScan |
| digits (`bankVault.sv` 208-216) | `ctTemp` and the debouncer of the hit | one edge of clk, reset | KeyDisplay |
| ADC interface (`adcinterface.sv`) and channel toggle | the frame state machine, `result_Reg`, `result`, `adc_chan`, the two axes | rising and falling edge, reset | AdcSampler |
| display program (`graphic_top.c`) | `state_var`, `flags[6]`, the contents of the screen | one pass of the loop: load, clear or draw | Display |
| SPI driver (`altera_avalon_spi.c`) | the locals of `alt_avalon_spi_command` | each register access | SpiCommand |
| SPI master (`processor_spi_0.v`) | holding registers, shifter, RRDY, ROE, TOE, SSO | each access, load, shift, end of byte | SpiMaster |
| system tick and alarms (`altera_avalon_timer_sc.c`, `alt_tick.c`, `alt_alarm_start.c`, `alt_llist.h`), `frame_delay` | `_alt_nticks`, the alarm list with its pointers, `time` and `rollover` of every alarm, the interrupt request | timer, interrupt, start, stop, callback, delay | SysTick, AlarmClock |
| JTAG UART driver (`altera_avalon_jtag_uart_*.c`) | two ring buffers with four indices, `irq_enable`, `host_inactive`, `timeout` | interrupt, alarm, read, write, close, ioctl | JtagUart |
| JTAG UART (`processor_jtag_uart.v`) | two FIFOs, two interrupt enables, pause, activity and overflow bits | each register access, what the host does | JtagPort |
| file descriptors (`alt_open.c`, `alt_close.c`, `alt_get_fd.c`, `alt_release_fd.c`, `alt_fd_lock.c`, `alt_fd_unlock.c`, `alt_fcntl.c`, `alt_ioctl.c`, `alt_io_redirect.c`) | `alt_fd_list`, `alt_max_fd` | redirection, open, close, lock, unlock, fcntl | FdTable |

### 1.2 How they interact

```
 keypad --> colseq/kpdecode --kpNum--> stage machine <--mo_flag--- gameOne
              |                        |  ^   ^  ^---james_flag--- joy_code <-- r_num, adc_x
              '-kphit-> debounce_0 -> ctTemp -> digits     '-unlocked_flag-- knock circuits <-- GPIO_1[1]
 stick --> LTC2308 --> adcinterface ---'                          (FPGA_CLK1_50)
 reset button ---- asynchronous ----------'
                       stage, x_pos, y_pos on a PIO
                                          |
                                          v
   graphic_top.c --> alt_avalon_spi_command --> SPI master --> OLED
      |     '--> clock() <-- alt_tick <-- interval timer interrupt
      |                        '--> alarms --> JTAG UART timeout
      '--> stdin, stdout, stderr --> alt_fd_list --> JTAG UART driver <-> FIFOs <-> host
```

The keypad, the games, the ADC and the stage machine step on clk, 2 kHz out of
the PLL; the knock circuits on FPGA_CLK1_50, 50 MHz.  The processor polls one
word that tells it the stage; nothing tells it that the lock was reset.  Below
the program there is one thread and two interrupts, which do not nest: the
timer's, which counts and runs alarms, and the JTAG UART's, which moves bytes
between FIFOs and rings.  Both share plain memory with the program, guarded by
disabling interrupts in some places and by the order of accesses in others.

### 1.3 What is hard

* **Reset.**  It is asynchronous for the stage register, the sequencer and the
  debouncers, and synchronous for everything else.  A press shorter than a
  period of clk throws the player back to the start with counter, digit, win
  flags and code position as they were.
* **Pipelines of registers.**  A key is compared with a digit that was copied
  from a counter that the previous key moved; `victoryflag` is a register
  behind that; the counter wraps as the flag rises; `james_flag` is high for
  one edge.
* **Inverted flags.**  `unlocked_flag` is low for "knocked" *and* while its
  circuit is disabled.  Only because it is refreshed on a faster clock does the
  stage machine not fall straight through both knock stages.
* **Sampling.**  The LTC2308 answers one conversion late, the interface
  publishes one frame late, the channel toggles in between, and ADC_SCK is a
  gated clock with a short pulse at the end of each frame.
* **The screen.**  Which pictures are on it is remembered by six flags, two of
  them swapped, re-armed in only two stages.
* **The SPI driver.**  One byte of buffer each way, a status word that is read
  once and used for two decisions while the shifter runs, and a loop whose only
  exits depend on counting replies.
* **The alarm list.**  The interrupt walks a doubly linked list that the
  program relinks pointer by pointer; a callback may take its own alarm out in
  the middle of the walk; counter and alarm times wrap at 2^32, and a flag has
  to be cleared in just the tick in which the counter is zero.
* **The rings.**  Reader and writer of each ring run in different contexts and
  each keeps one index; the free space of the FIFO is read before it is used;
  `irq_enable` is changed by three parties; a wake-up that is lost there leaves
  a caller spinning for ever; and the host at the other end may stop or go.
* **Two clocks in one read.**  The UART's data register shows RVALID as of the
  first clock of a read and the number of bytes left as of the second.
* **The pool.**  open takes a descriptor before it knows whether it may, gives
  it back on two error paths, and searches for locks only up to a mark.

### 1.4 What makes each part correct

| part | properties |
|---|---|
| lock | stages are climbed one at a time and left only when solved on this visit (`StagesSpec`); visits start afresh (`FreshStage`); a quiet safe stays shut (`NoAdvanceWhenQuiet`), a shaken one opens (`ShakenOpen`) |
| counting game | the digit shown trails the counter by at most one (`DisplayLag`); a full counter leads out (`CountedOut`) |
| code game | won exactly by the code on display (`WonByCode`) |
| keypad, debouncer, digits | a key held alone is found and lights the digits (`KeyLights`), the first of two stays (`FirstKeyStays`), no glitch passes (`GlitchFiltered`), the digits follow the keypad for good, across resets (`DigitsFollow`) |
| ADC | whole words (`WholeWord`), the two axes never on one channel (`AxesKept`), for ever (`KeepsSampling`) |
| display | pictures of one stage at a time (`OrderlyPicture`), never wiped by their own stage (`NoFlicker`), always drawn (`Shown`) |
| SPI | no byte lost (`NoOverrun`), none misattributed (`BooksAgree`), the whole transfer as promised (`Transfers`) |
| tick | the interrupt never sees a half-linked list (`ListWhole`), no alarm is early (`NeverEarly`), every alarm runs at its tick (`AlarmsOnTime`), a delay ends (`DelayEnds`) |
| JTAG UART | every byte once and in order (`TxInOrder`, `RxInOrder`), no wake-up lost (`NoWakeupLost`), what is written arrives (`Drains`), calls return (`CallsReturn`) |
| descriptors | none lost or handed out twice (`PoolWhole`), the standard channels stay (`StdStays`), nobody joins the holder of a lock (`LockHolds`) |

## 2. The modules

**Signals** is the vocabulary of the hardware modules: bits, levels, slices.

**VaultStages** is the abstract specification of the lock: a stage, and whether
its puzzle is solved; `Solve`, `Advance`, `Reset`.

**GameOne, JoyCode, Keypad** each model a circuit on clk: their registers are
VARIABLES and `Clk` is one rising edge, parameterised by the inputs it samples.
**Debounce** and **SafeTilt** are instantiated several times by the code, so
their registers are a record and an edge is a function of it.

**BankVault** composes them.  `Clk` is one edge of clk in *all* circuits on
that clock, `Clk50` one edge of FPGA_CLK1_50 in both knock circuits;
`FastPerClk` edges of the second lie between two of the first, and `phase`
counts them.  `ResetFall` does at once what the `negedge reset_n` blocks do;
everything else sees reset at its next edge, through the guards of the circuit
modules.  Inputs hold their value between edges of the clock that samples them
and then take any value: keys any set of at most `MaxPressed`, the sensor 0 or
1, the ADC any of `AdcValues`.  `quiet` is a history variable.
`current_state` in the code is a wire that equals the register `next_state` in
every branch, so one variable stands for both, in the lock and in the code
game.  Three digits of `gameOne` are constant and left out.

**CodeHistory** adds to BankVault a history that counts, for *every* code the
display could show, how many of its digits have been entered on this visit.
It knows neither which code the circuit compares with nor when.

**SampleHistory** counts how long a sampled input has been what it is.
**DebounceFilter** is one debouncer with any input, on its own: the abstract
specification about which the debouncer's theorems are stated.

**KeypadScan** puts fingers on the sixteen keys of the scanner.  **KeyDisplay**
composes the way from a finger to the digits of the counting game: scanner,
`debounce_0` and the gate `ctTemp`.  It is shown to implement DebounceFilter
with `kphit` as the raw input, scanner and debouncer reset at once.

**AdcSampler** keeps of each bit only where it came from: the channel that was
converted, or `None`.  `Rise` and `Fall` are the two edges of clk; `Publish`,
`Arm`, `SckCycle` the three branches of the falling edge; `Toggle` the block of
`bankVault.sv` that stores a word and changes the channel.  ADC_SCK is gated
with `current_State`, which changes after the edge: when SCK_CYCLE ends, ADC_SCK
may or may not show a thirteenth, short pulse, and `Sck` allows both (the comment
at `adcinterface.sv:61` speaks of 12).  The pulse can spoil only bit 0, which is
why `Origin` looks at the others.  The LTC2308 (`Convert`, `ADC_SDO`) is external.

**Display** is the loop of `main` as `Poll` followed by `Clear` or `Draw`.  The
screen is the set of pictures drawn since it was last cleared.  The lock is
represented by `VaultStages`, which BankVault is shown to implement; the
processor is not reset with it, as `ResetKeyIsDead` shows (section 3).
`PollTorn` is a load that overlaps a change of the stage: each of the three bits
is the old or the new one, since the stage register may change at any moment of
the processor's clock and the PIO has no synchroniser.

**SpiMaster** is the generated master behind its registers.  A bus access is a
step; the eight shifts of a byte are one event, `Finish`, in which master and
slave swap bytes.  Bus accesses wait for `LoadPending` to clear, because an
access takes two clocks and the load one.

**SpiCommand** is the driver, one register access per step: `Control`,
`Discard`, `Poll`, `Send`, `Receive`, `Release`, interleaved with the shifter's
`Load`, `Shift`, `Finish`.  Its history is the slave's side: the replies it
gave, the frame it is in, the frame before.

**SpiTransfer** is what the driver promises its caller.

**SysTick** is the processor's clock: the interval timer with its one request
bit (`Timeout`), the interrupt (`Irq`, `Leave`), `alt_tick`'s walk through the
alarms (`Pass`, `CallbackStops`, `CallbackRepeats`, `WalkEnd`), and the program,
which starts and stops alarms (`AlarmStart`, `Insert`, `Link`, `AlarmStop`,
`Unlink`, `Detach`: the list is written pointer by pointer, two at a time at
most) and waits in `frame_delay`.  The program stands still while the interrupt
runs; the interrupt waits while the program has interrupts disabled.  An alarm
may be stopped by its own callback, which then still answers a number.  `due`
and `armed` are history: the ticks to go, counted without wrap.
**AlarmClock** is the promise: an alarm runs at its tick, never early, never late.

**JtagPort** is the UART in the fabric, with the register accesses of the driver
(`WriteData`, `ReadData`, `WriteControl`) and what the host does (`Take`, `Send`,
`Pause`, `Unplug`).  `ReadTooEarly` is a read of the empty FIFO into which a byte
falls between the clock that samples RVALID and the one that counts what is left
(`processor_jtag_uart.v` 507-520).
**JtagUart** is the driver over that port.  The interrupt is `IsrControl`,
`IsrRead*`, `IsrWrite*`; the alarm `Timeout`; the caller runs `Write` (`Space`,
`Fill`, `LoadWE`, `StoreWE`, `Wait`, `Stalled`), `Read` (`Fetch`, `Copy`, `LoadRE`,
`StoreRE`, `Await`, `Woken`), `Close` or `Ioctl`.  One shared access is a step and
the interrupt may come between any two, so that an index read in one step is
stale in the next.  `irq_enable |= bit` is two steps with interrupts disabled.
Bytes are numbered modulo `Tags`; `owed` and `unread` count those on their way.
The waiting loops reload `host_inactive` and `timeout` on each pass although
neither is volatile: the board support package is built with -O0
(`settings.bsp:388`), under which they are loads.

**FdTable** is the pool of file descriptors.  There is one thread, so that a
call is a step: `Redirect` (`alt_open_fd`, once per standard channel, before
main), then `Open`, `Close`, `FdLock`, `FdUnlock`, `Fcntl`.  `OpenResults` is the
whole of `open`, with the errors: no such device, no descriptor left, the
device refuses, the device is locked.  Devices and file systems are known by
their names; `held` is the caller's side.

**BankVaultProofs** (with the code game), **KeyDisplayProofs** (with the debouncer),
**AdcSamplerProofs, DisplayProofs, SpiProofs, SysTickProofs, FdTableProofs** and
**JtagUartProofs** hold the theorems.
**MCCodeHistory, MCDisplay, MCSpiCommand, MCFdTable** give TLC the values of
constants that a .cfg cannot express.

Definitions introduced as "Fault" or "Variant" next to the definition they vary
(`StageDoneCopied`, `RoomAll`, `AfterCallbackReread`, ...) are what a plausible
mistake in that line would have made of it.  They are used by no specification;
replacing the original by one of them makes a named property fail, which shows
that the property depends on the line.

## 3. What TLC checks

| run | module | what it shows |
|---|---|---|
| `vault` | MCCodeHistory | the whole lock with two fast edges per slow one, six keys, two codes and reset at any time: `TypeOK`, `DisplayLag`, `WonByCode`, `FreshStage`, `NoAdvanceWhenQuiet`; it implements `VaultStages` with its liveness (`StagesSpec`); `ShakenOpen`, `CountedOut` |
| `keys` | KeyDisplay | scanner, debouncer and digit gate with all sixteen keys, two at a time, reset at any time: `DigitsFollow`, `KeyLights`, `FirstKeyStays`, `GlitchFiltered` |
| `adc` | AdcSampler | `WholeWord`, `AxesKept`, `KeepsSampling` with reset anywhere in a frame |
| `display` | MCDisplay | `NoFlicker`, `OrderlyPicture`, `Shown` with any lock and torn loads |
| `spi` | MCSpiCommand | `NoOverrun`, `BooksAgree`, and `Transfers`: driver and master implement SpiTransfer |
| `tick` | SysTick | `ListWhole`, `NeverEarly`, `DelayEnds`, and `AlarmsOnTime`: the tick implements AlarmClock, liveness included, with two alarms and a counter that wraps every four ticks |
| `jtag` | JtagUart | `TxInOrder`, `RxInOrder`, `NoWakeupLost` with blocking and non-blocking calls, an interrupt between any two steps, and a host that takes, sends, pauses and goes |
| `jtag_live` | JtagUart | `Drains`, `CallsReturn`, with a host that may be unplugged at any moment |
| `files` | MCFdTable | `PoolWhole`, `StdStays`, `LockHolds` with three descriptors beyond the standard ones, a device that may refuse, a file system, and a channel whose device is missing |

Three runs show where the program does not do what a comment says of it; TLC
finds the property violated in each.

| run | the comment | what happens |
|---|---|---|
| `display_impatient` | `graphic_top.c:44` "clear the contents of the screen when entering a new state" | after a reset in the middle of the game only flag 5 is re-armed; the stages already visited are drawn over one another |
| `display_green` | `graphic_top.c:99` "based on y and x values from the FPGA turn one of the cubes green" | the stick is sent along with game_1 and used in game_2 |
| `jtag_early` | `altera_avalon_jtag_uart_init.c:158-159` "If there is still data available here then the buffer is full so turn off receive interrupts" | a read of the empty FIFO may report "not valid, one byte left" (see `ReadTooEarly`); the driver leaves its loop and turns the receive interrupt off with the ring empty.  A reader that waits then waits until the host has been silent for the timeout; `missed` marks the state, and `NoWakeupLost` and `CallsReturn` except it |

Four more disagreements hold in every behaviour, so that they are theorems, for
all values of the constants, and need no run to exhibit them.  No run takes what
the code does there for correct.

| theorem | the comment | what the code does |
|---|---|---|
| `ResetKeyIsDead` (BankVaultProofs) | `bankVault.sv:138` "Power button on kpad for reset" | `rgb_res` is low only while `reset_n` is low *and* key d is reported, but reset holds the scan on the column of 1, 4, 7, e: key d never resets the processor |
| `HitSettles`, `DisplayFollows` (KeyDisplayProofs) | `debounce.sv:1-2` "the output only follows the input after it has been stable for at least 10ms"; lines 75 and 80 speak of a count of 8 | the threshold is 1 (lines 75, 80): four equal samples, 2 ms at 2 kHz, have always settled the output, and one edge later the digits follow |
| `NamesSwapped` (AdcSamplerProofs) | `bankVault.sv:17-18`, 105-117 and `graphic_top.h:16` ("1 for X, 0 for Y") name `adc_x_value` and `adc_y_value` after the channel that is on when they are stored | the word stored was converted a frame earlier: `adc_x_value` is a word of `Y_CHANNEL`, `adc_y_value` one of `X_CHANNEL` |
| `SharedWithOne`, `LastIsOverlooked` (FdTableProofs) | `alt_fd_lock.c:43-44` "If there are no other open file descriptors which reference the same device, then alt_fd_lock() will grant the lock" | the search (line 61) stops before descriptor `alt_max_fd`, the highest ever allocated: with a device opened as 3 and 4, the lock is granted to 3 while 4 refers to it.  No other user than that one is overlooked |

Smaller disagreements met on the way, which the models contain and no run is
spent on:

* `altera_avalon_spi.h:55-56` "set the merge bit in the flags for all of them
  except the first": the flag decides whether the slave stays selected *after*
  the access; it belongs on all but the last.  The program never merges.
* `alt_fd_lock.c:47` "This is done by calling close() for this file descriptor":
  `alt_release_fd.c:46` does nothing to descriptors 0 to 2, so that a lock taken
  through one of them stays.
* `altera_avalon_jtag_uart_write.c:187`, 214: after a wait that ended because the
  interrupt *did* make room, one second without the host ends the call, and a
  call that copied nothing reports "Host not connected".
* `alt_alarm_start.c:82`: nticks = 2^32 - 1 gives the current tick as the
  alarm's time, which is not less than it: no roll-over flag is set and the alarm
  runs at once.  `TickAssumption` leaves that argument out.

### 3.1 Bounds, and why they are enough

* `FastPerClk` is 2; the board has 25000.  One fast edge per slow one is the
  hardest case for the knock circuits, whose flag must be refreshed in time; the
  theorems hold for all.
* `QuietEnough` = 5 bounds the history `quiet`, and is tight: four edges fill
  a debouncer, the fifth carries it to the flag.
* `Keys` of `vault` is {d, b, 0, 2, 4, 6} (13, 11, 0, 2, 4, 6): the start key,
  the key that is said to reset, and digits of the two codes.  The even digits
  are enough to count to 7, since a press that is held for two edges counts
  twice (`DisplayLag`).  The theorems hold for all sixteen keys.
* `XNums` is what the build puts on `kpNum` where the code says `4'bxxxx`: in
  `vault` the one value 9, which starts nothing by itself and modulo 8 is the
  digit 1 of the codes; in `keys` the two values 0 and 11.  The theorems hold
  for every set.
* `AdcValues`: two samples, stick left and right, whose codes are 4-4-1-0 and
  2-4-0-1.  They share digits, so that a mix of the two would go unnoticed
  without the history.
* `MaxPressed` = 2 in `keys`: the decoder gives up at two rows of a column, and
  a third key adds no case.  `Window` = 5 in `keys` is more than the three equal
  samples that `GlitchFiltered` speaks of.  The theorems hold for all.
* `WordBits` = 4 instead of 12.  No branch depends on the width but the last.
* `FramesEnough` = 4 bounds the history `frames` and is tight: with 3,
  `AxesKept` is violated.
* `Sticks`: at rest in `display`, all four quadrants in the two violations.
  Where the stick is matters only to `display_green`.
* The SPI commands have at most two bytes to send and two to read, with every
  combination of sending, reading, merging and toggling, and the empty command.
  `Call` does not merge a frame that is already merged, which bounds the
  history `frame`.
* Bytes are told apart by value (1..6 sent, 7 and 8 as replies), which is all
  that the properties look at.
* `Modulus` = 4 makes the tick counter wrap every four ticks.  `Waits` {0, 1, 2}
  is all that it allows (2^32 - 2 in the code), and `Intervals` {1, 3} are the
  shortest and the longest: with them alarms lie before and after each wrap.
  Two alarms are the fewest for which removing one relinks another.
* In `jtag` the rings have three places (two in use), so that a copy is split at
  the end of the buffer and both rings run full.  The FIFOs have two places and a
  `Level` of one (64 and 8 on the board), so that the transmit interrupt comes with
  one place free or two: its count of them lags behind a host that takes a byte in
  the middle of a pass, and the ring may hold more than it counted.  Three tags tell
  any two bytes in one ring apart.  `INT_MAX` = 4 and the timeout 2 leave one value
  between the timeout and the saturation.
* `jtag_live` has rings of two places, FIFOs of one and only blocking calls, since
  liveness is checked on the whole graph.  The read into which a byte falls
  (`IsrReadEarly`) needs a second pass of the read loop and room in the ring at
  once, which a ring of two places does not give; so `Deaf` never holds there,
  and `CallsReturn` shows the rest.
* `ALT_MAX_FD` = 6 leaves three descriptors beyond the standard ones: a holder
  of a lock, one that wants to join, and none left.  The theorems hold for all.

### 3.2 Fairness

Only what the board guarantees: both clocks keep running (`Clk`, `Clk50`,
`Rise`, `Fall`, `ScanClk`), the processor keeps executing (`Poll`, `Clear`,
`Draw`, the steps of the driver), and the shifter is clocked (`Load`, `Shift`,
`Finish`).  Nobody has to touch a key, shake the safe, release the reset button
or call the driver; the liveness properties name what the player has to do, or
to leave alone, as alternatives.

In SysTick the timer's periods end (weakly fair), and the processor takes a
pending interrupt, ends its sections without interrupts and looks at the clock
(strongly fair: each of these is disabled by the other for a while, and on the
board each gets its instructions within a tick).  `DelayEnds` has the premise
`PromptInterrupt`, that an interrupt is over before the next period ends:
otherwise the timer may starve the program, and the comparison in `frame_delay`
(`graphic_top.h:84`) may miss the tick before the wrap.  `AlarmsOnTime` does
not need it.

In JtagUart the interrupt, the alarm and the caller are strongly fair for the
same reason.  A host that is there takes what is sent to it (`HostTake`) and goes
on sending (`HostSend`); it need not stay (`Unplug` is always possible), and
`CallsReturn` counts on it only where no timeout is set.

## 4. What is proved

All theorems are of the form "for every value of the constants that satisfies
the named assumptions".

**The lock** (`BankVaultProofs`; from `VaultAssumption`: keys are 0..15, samples
are twelve bits, at least one fast edge per slow one).

* `TypeCorrect`: `TypeOK` is inductive.
* `QuietInvariant`, `QuietStays`: `NoAdvanceWhenQuiet` speaks of a step of the
  stage machine; nothing in the state it looks at says why the flag is high.
  The inductive invariant `QuietInv` does: `ResetHolds` (reset keeps the stage
  and `quiet` down), `QuietFills` (how many quiet edges have filled which
  register of both debouncers) and `FlagFresh` (after five of them the flag of
  the stage that is on was computed from a full debouncer, and a fast edge has
  passed since the last slow one).
* `DisplayFollows`: inductive with `ResetHolds`.
* `StagesImplemented`: `StagesSafe`, the safety half of `StagesSpec`, with the win
  signals of the two games as `solved`; `ClkClimbs` maps one edge of clk to
  `Solve`, `Advance`, `Reset` or a stutter, and needs `ResetHolds`: an edge under
  reset finds the stage at the start already.
* `StageStartsFresh`: `FreshStage` for every way into a game.
* `ResetKeyIsDead` is the disagreement with `bankVault.sv:138`; the inductive
  invariant is that with reset low the scan is on column 3, on which key d is not.

**The code game** (in `BankVaultProofs` too): `WinNeedsCode`.  The invariant `InStep`
says that the state of `joy_code` is the number of digits of the *current* code
entered on this visit; `HistoryWatches` carries the lock's invariants over to
the specification with history.

**Keys to digits** (`KeyDisplayProofs`).

* `EdgeRemembers` and `EdgeFilters` are lemmas about an edge of any debouncer: its
  flip-flops and counter hold the last samples, for every window, and its output
  moves on three equal ones only.  From them `DebounceInv` is inductive, and
  `HitFiltered` (`GlitchFiltered`) and `HitSettles` follow: three equal samples are
  needed, four are always enough, whatever the 10 ms of the comment.
* `FilterInPlace` maps each step of KeyDisplay to one of DebounceFilter: the
  debouncer behind the keypad is that module.
* `FirstStays` is `FirstKeyStays` for every set of keys and fingers; `DisplayFollows`
  says that five edges are enough for the digits, where the comment speaks of 10 ms.
  `DigitsFollow`, which says that they follow at all, needs fairness.

**The stick** (`AdcSamplerProofs`; from `WordAssumption`: words of two bits or more).

* `WordsWhole` is `WholeWord`.  Interface and converter count the bits of a word
  each for itself; `WordInv` says that they agree.  `Phases` ties the two state
  registers to `arm_Flag` and `sck_Count`, with the state after a falling edge of
  clk told apart from the one after the rising edge that follows; `InStep` says how
  many bits the converter has left and that those already stored are of its
  conversion; `Settled` says what a whole frame leaves of an earlier reset: without
  it a torn word could still be published.
* `AxesSettle` is `AxesKept`, and follows from `NamesSwapped`, which says that each
  axis holds the channel named after the other.  A word read in a frame was
  converted at the start of it, from the channel commanded in the frame before, and
  is stored in the next
  frame with the toggle of the channel: `Commands` and `Words2` follow the channel
  through these frames, and `Axes` says which channel each axis holds, the first
  from the third word on and the second from the fourth.

**The screen** (`DisplayProofs`; from `SticksAssumption`: a position of the stick is a
pair of bits).

* `NeverFlickers`: `NoFlicker` is inductive with the types, for every lock and every
  torn load.
* `OnePictureAtATime` is `OrderlyPicture`.  `Orderly` speaks of the player and the
  loads it is about: the screens of the stages to come are still to be cleared
  (`ToCome`), victory has re-armed the others by the time its own flag is consumed
  (`AllRearmed`), the stage that main draws may be the one just left, but only if
  that was shown and the new one is yet to be cleared (`Behind`), and until a stage
  is cleared the screen holds pictures of the stage before (`Clean`).

**The SPI driver** (`SpiProofs`, under MaxCredits = 1, the code's value), for all
commands and replies.

* `CreditKept` and `NeverOverrun`: `Credit` says that either the credit is there or
  exactly one byte is in holding register, shifter or receive register; with it no
  step can find a full register.  The assumption is needed: with two credits TLC
  finds an overrun, as the comment at `altera_avalon_spi.c:55` warns.
* `TypeCorrect` and `BooksBalance` (`BooksAgree`).  `Books` relates the driver's four
  counters: the bytes sent are those received and the one in flight, the zeros
  come after the command and the stored replies after the ignored ones.
  `Contents` says which byte each register of master and driver holds: with one
  credit it is always the one after as many as the slave has answered.
* `TransferImplemented`: each step of driver and master is a step of SpiTransfer or
  a stutter; `Finish` is the exchange of the next byte, `Release` the return, and
  both need `WireInv`.

**The system tick** (`SysTickProofs`; from `TickAssumption`).

* `WholeList` is `ListWhole` for any number of alarms.  Its inductive invariant
  `ListInv` describes the list half done as well: which pointers are already
  written in each of the four steps of an insertion or removal, and that the
  alarm the walk has come to is still in the list.
* `Punctual` is `NeverEarly` for every width of the counter.  `TimeInv` relates an
  alarm's `time` and `rollover` to the ticks it has to go, modulo the width: with
  the flag set the time lies beyond the wrap, and the walk has yet to clear it in
  the tick in which the counter is zero.
* `ClockImplemented`: tick, list and alarms implement AlarmClock, whose `Tick` is
  possible only when no alarm is due, so that none is late, for any number of
  alarms.  `OnTime` says it of the moments between: outside a walk every alarm is
  `Ahead` of the counter; during a walk the part of the list from Head to
  where the walk stands is, and the rest may be due but not overdue.  `DueIsExpired`
  is the converse of what `Punctual` needs: the test in the code does not pass an
  alarm over when it is due.

**The file descriptors** (`FdTableProofs`; from `FdAssumption`: the pool is larger
than the standard channels, /dev/null is registered, and the devices that the
standard channels lead to have no open function that could refuse, as
`altera_avalon_jtag_uart_fd.h:97` shows).

* `Whole`, `ChannelsStay` and `Exclusive` are `PoolWhole`, `StdStays` and
  `LockHolds` for every size of the pool, any devices and file systems.
* The inductive invariant adds `Channels` (a channel leads to /dev/null until its
  turn has come), `Locks` (before main nothing is open or locked, later only
  devices are) and `Marked` (where a device is open the mark is above the standard
  channels).  The lemma `Opened` says what open may do; `NoJoin` uses that the mark
  covers every descriptor in use, so that the search for a lock finds it.
* `SharedWithOne` and `LastIsOverlooked` are about the search for other users, which
  is not the one the comment describes: it leaves out descriptor `alt_max_fd`
  (`GrantedBut`), and since the mark covers the rest (`Covered`) no other.

**The JTAG UART** (`JtagUartProofs`; from `JtagAssumption`: rings of two places or
more, levels below the depths of the FIFOs, a default timeout that comes).

* `TxOrder`, `RxOrder` and `Wakes` are `TxInOrder`, `RxInOrder` and `NoWakeupLost`
  for rings and FIFOs of any length.
* The arithmetic comes first: counting on modulo the length of a ring
  (`UpUp`, `SizeMoves`) or the number of tags (`AfterAfter`), from the uniqueness
  of quotient and remainder.
* `TxBytes` says of each place of FIFO and ring what byte it holds.  It is
  inductive with what each side knows of the other: `TxRoom`, the interrupt's
  reading of the FIFO's space is never too large, and `TxPlan`, the places `write`
  found free between two steps are still free.  `RxBytes` and `RxPlan` are the
  same for the other direction.
* `Enables` says that whoever is between reading and writing back `irq_enable`
  is alone (`pie`), and `TxWake` and `RxWake` who will switch an interrupt on again
  while it is off.

### 4.1 What is only model-checked

Every invariant and every safety property of a step that the passing runs check
is also a theorem.  What TLC alone shows is what needs fairness, which is out of
the prover's reach: `ShakenOpen`, `CountedOut`, `KeyLights`, `DigitsFollow`, `KeepsSampling`,
`Shown`, `DelayEnds`, `Drains`, `CallsReturn`, and the fairness of the three abstract
specifications `StagesSpec`, `Transfers` and `AlarmsOnTime`, whose safety
is `StagesImplemented`, `TransferImplemented` and `ClockImplemented`.

## 5. What is not modelled, and the plan

The order was: the lock first, since the game is the lock (VaultStages,
BankVault and its circuits, CodeHistory), with its proofs; the two parts around
it with state machines of their own (AdcSampler, Display); the driver and the
master (SpiMaster, SpiCommand, SpiTransfer); then the way from a finger to the
digits (KeyDisplay), and under the program the system tick (SysTick), the JTAG
UART (JtagPort, JtagUart) and the file descriptors (FdTable), with their proofs.

Four hazards have no property that a run checks.  At `bankVault.sv:138` and
`alt_fd_lock.c:61` the code does not do what its comment says, and the theorems of
section 3 say what it does.  `num` of the keypad decoder is
4'bxxxx while no key is hit (`kpdecode.sv:38`): what it reads as is decided by the
build, `XNums` stands for it, the theorems hold for every such set and the runs
use a harmless value.  `graphic_top.c:155` passes a null pointer for a reply of one
byte, which is stored at address 0; the models end at the driver's `read_data`.

Left out, and why:

* the round robin over the four digits (`delayCnt`, `digit`, `decode7`) and the
  LEDs: a free counter and tables, whose only dependence on the game is the gate
  in KeyDisplay;
* `tonegen` and `beep_beep`: one is not instantiated, the other drives the
  misspelt net `sprk`, so that neither reaches a pin;
* colours, coordinates, the image tables and the Python tools that made them:
  data without behaviour;
* the generated processor and interconnect, represented by one register access
  per step; metastability beyond torn loads;
* the rest of the board support package: headers, start-up and cache code, stubs
  for calls that the program does not make, and `alt_log_printf`, which the build
  leaves out;
* the LTC2308, the keys, the sensor, the OLED controller and the host, which are
  modelled from how the code uses them;
* the old copies in `backup/` and `PICTUREs/`.

The repository holds the board support package twice
(`software/processor_v2_bsp` and `elex_7660_project_v2_bsp`, the same generator's
output); the models map the first, which lies beside the program.  Most lines
of C in the repository are these two copies, register headers and image tables,
so that the lines the models stand for are a small part of it, although they are
most of the lines with behaviour of their own: the program, the drivers it uses,
the tick and the descriptors, and the SystemVerilog of the lock.
