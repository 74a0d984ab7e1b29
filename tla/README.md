# Verification of SCSFW

SCSFW is a firmware for the SuperCard family of GBA-slot flash cards. Plugged
into a Nintendo DS it starts *hbmenu*, a homebrew menu; plugged into a GBA it
starts a kernel from the SD card. This directory models the parts of it where
order, interruption, two processors or awkward data matter, checks the models
with TLC and proves the central invariants with TLAPS. Paths below are relative
to the repository; `hb/` stands for `SCFW_Stage2_NDS/nds-hb-menu/`, `mb/` for
`SCFW_Stage1/src/miniboot/source/` and `gba/` for `SCFW_Stage2_GBA/source/`.

## The system

```
 cartridge entry (scsfw.s)
   |-- GBA --> GBA kernel loader (gba/, FatFs) --> kernel.gba
   `-- DS  --> miniboot ARM7 loop <--IPC--> miniboot ARM9 main  <--- bootstub
                     |                        |  loads the bundled NDS    ^
                     |                        |  binary, patches its DLDI  |
                     |                        |  area, leaves a bootstub   |
                     `---------> hbmenu <-----'  for the way back          |
                                   |  read_configs / save_configs --> NOR flash
                                   |  configMenu <--> fat:/scsfw/hotkeys.conf
                                   |  browser, argument files              |
                                   `- runNds --> bootloader (ARM7) <--entry word--> ARM9
                                                    `--> the program chosen
```

| Component | State | Operations | What makes it correct |
|---|---|---|---|
| Configuration store (`hb/source/config/scsfw_config.c`, flash loops of `hb/source/scsd/sc_commands.cpp`) | magic, 64 slot marks and 64 configurations in NOR flash | `read_configs`, `save_configs` | what was saved last is read, across power failures at any flash command; flash is erased before it is written |
| Start-up and configuration menu (`hb/source/main.cpp`, `configurator.cpp`) | configuration in RAM, `changed`, hotkeys.conf | hotkey start, edit, load, dump, save | the menu and the store agree when the menu is left; loading is all or nothing; errors leave a usable menu |
| File browser (`hb/source/file_browse.cpp`) | directory, cursor, screen | keys, one or several at a time | the file started is the one with the star, as far as no direction is pressed with A |
| Argument files (`hb/source/args.cpp`) | none | two parsers, path resolution | the documented arguments; both parsers name the same program |
| Loader (`hb/source/nds_loader_arm9.c`) | loader image in VRAM, argument block, entry word | `runNds`, `dldiPatchLoader` | arguments arrive; the driver is relocated once; the ARM7 starts only when the ARM9 can follow it |
| Bootloader (`hb/bootloader`) | TEMP_MEM, entry word, start flag, target memory | `main`, the ARM9 functions, `loadBinary_ARM7`, `startBinary` | the ARM9 never executes overwritten code or a wrong address; both CPUs start a complete program |
| Boot FAT reader (`hb/bootloader/source/fat.c`) | sector buffer, geometry | volume detection, cluster chain, `fileRead` | the bytes of the file, for any fragmentation |
| DLDI patchers (`mb/arm9/dldi_patch.c`, `gba/dldi_patch.c`, `nds_loader_arm9.c`, `dldi_patcher.c`) | driver and room | search, relocation | every pointer is moved exactly once |
| miniboot ARM7 (`mb/arm7/crt0.s`) | counter, expected nibble, FIFO words | sync, copy, reset commands | one answer per command |
| miniboot ARM9 (`mb/arm9/main.c`) | header, staging area, loaded binaries, backup | sync, backup, check, load, patch, start | the ARM7 binary is copied away before the ARM9 binary covers it; no lock-up |
| bootstub (`mb/arm9/bootstub.s`) | IPC nibbles, FIFO | return to the menu | both CPUs reset together |
| Cartridge entry (`scsfw.s`) | RAM layout | GBA/DS detection, copy of miniboot | the code is in place before a CPU runs it; the secure area the console left survives |
| GBA kernel loader (`gba/main.c`) | SDRAM contents, byte counts, card mode | patch, mount, open, read, copy, verify, start | only a complete, verified kernel starts; a good one is never refused |
| FatFs (`gba/fatfs/ff.c`) | window, volume, directory and file objects | `f_mount`, `f_open`, `f_read` | the bytes of the file, also after failing commands |
| Mode and type detection (`sc_commands.cpp`, three copies) | mode register, card type | `sc_change_mode`, `detect_supercard_type` | flash, card and SDRAM are never confused |
| Display, exception stub, nanoprintf, libc | — | — | not modelled, see below |

The components meet in a few words of memory: the IPCSYNC nibbles and the FIFO
(miniboot, bootstub), the ARM9 entry word at 0x02FFFE24 and ARM9_START_FLAG
(bootloader), the flash block (menu and store), hotkeys.conf, and the argument
and DLDI blocks one stage leaves for the next. There are no interrupts between
the stages; the concurrency is that of two CPUs polling shared words, of the
user's power switch, and of flash commands that take their time.

What is hard here: power failing within a sequence of flash commands; log
wrap-around; the two CPUs' relative speeds where nothing synchronises them; a
word that two CPUs use as both address and signal; leftovers of the program
that ran before; a sector window that outlives a failed command; the same
argument file read by two parsers; a driver relocated three times by two
implementations; partially read files. PROJECT.json lists each of these at its
line under `hazards`, with the properties that cover it. Those without one are
places where the code does go wrong and the models follow it: the menu prints
"Saved" whatever `save_configs` met and stores over-long lines, fat.c misreads four
kinds of volume, miniboot's search for a driver's room may not end, and the GBA
loader compares one word of a block.

## The modules

| Module | Models | Role |
|---|---|---|
| `ConfigStore` | what the menu may rely on | abstract specification |
| `ScsfwConfig` | the flash log, word by word | detailed specification, implements `ConfigStore` |
| `HbMenu` | start-up, menu, hotkeys.conf, failed launches | composed with `ConfigStore` by INSTANCE |
| `Args` | argument files | operators, with the documented arguments as reference |
| `FileBrowse` | the file browser | used by `HbLaunch` |
| `Dldi` | the DLDI patchers | operators, with one relocation as reference |
| `HbLaunch` | from the browser to the program's command line and driver | composes `FileBrowse`, `Args` and `Dldi` |
| `ProgramStart` | no CPU enters an incomplete program | abstract specification of both loaders |
| `MinibootIpc` | miniboot's two CPUs | implements `ProgramStart` |
| `Miniboot` | cartridge entry, bootstub, backup | composed with `MinibootIpc`; implements `ProgramStart` |
| `BootHandoff` | hbmenu's bootloader and the ARM9 | implements `ProgramStart` |
| `FatPacking` | FAT12, FAT16 and FAT32 entries as bytes | used by `BootFat` and `FatFs` |
| `BootFat` | the bootloader's FAT reader | against the file and directory on the card |
| `FatFs` | the part of FatFs the GBA loader runs | used by `KernelLoader` |
| `KernelLoader` | the GBA kernel loader | composed with `FatFs` |
| `ScsfwConfigProofs` | | proofs about `ScsfwConfig`, and that it implements `ConfigStore` |
| `HbMenuProofs` | | proofs about `HbMenu` |
| `MinibootIpcProofs`, `MinibootProofs` | | proofs about miniboot, alone and with its starts |
| `BootHandoffProofs` | | proofs about `BootHandoff` |
| `BootFatProofs` | | proofs about `BootFat` |
| `KernelLoaderProofs` | | proofs about `KernelLoader` and `FatFs` together |
| `HbLaunchProofs` | | proofs about `HbLaunch`, `FileBrowse`, `Args` and `Dldi` |
| `MCScsfwConfig`, `MCMiniboot`, `MCBootFat`, `MCKernel`, `MCHbLaunch` | | instances for TLC |

A definition marked "Fault" is a plausible mistake in the code, kept beside the
definition it differs from: with it in place the property named for it in
PROJECT.json fails, which shows that the property says something.

### ScsfwConfig

`magic`, `used_slots` and `confs` are the members of `SCSFW_CONFIGS_BLOCK`;
`configs` is the menu's copy in RAM. A flash word is the *set of its bits that
are 0*: erasing gives `{}`, programming `w` over a word gives the union. That is
how NOR flash behaves and it is what makes overwriting visible. `save_configs`
is split at its flash commands (`SaveConfigs`, then one `EraseSector` per
sub-sector, `WriteMagic`, `WriteSlot`, `WriteConf` per word), because power can
fail between any two of them and within each (`PowerOff`, `Interrupted`): a
program command may leave any subset of its bits programmed, an erase command
may leave its sub-sector in any state (`SpoilSub`, when `TornErase`). With
`Faults` any command may also fail without a power failure. `err` records
whether sc_commands.cpp printed a message. `badSub` is not a variable of the
code; it says which sub-sectors were left by a torn or failed erase, to state
the properties' conditions.

The menu is reduced to reading, replacing its copy, and saving; `HbMenu` has
the rest. "done" ends a save; after that the model waits for the restart,
because `configMenu` returns to the file browser and does not save again.

`Store == INSTANCE ConfigStore` maps the log to one value: what a boot would
read. `ImplementsStore` states how far a save is from atomic: while it runs the
stored value is the old configuration, the default one, or a beginning of the
new one. It is never a mixture, nor an older one that a lost mark brings back.

### HbMenu

`configs` and `changed` are `configMenu`'s; `tmp` and `k` are
`readConfigsFromFile`'s. The flash store is `ConfigStore` itself, whose variables
`HbMenu` shares, so the menu is checked against every behaviour the log may show
and not against one implementation. A path is a `ConfigStore` word: all bits 0 is
the empty path, `{}` an entry of 128 bytes without terminator (as an erased or
over-long one is). hotkeys.conf is what successive `fgets` calls return. A dump
truncates the file first, so a power failure during it leaves an empty file; a
card that fills up leaves a beginning of it (`Kept`), whose last line may be cut,
and nothing is noticed. A load then takes the lines it finds, if they are enough.
`runNds` disables all interrupts and may return an error afterwards; the caller
then waits for VBlank. `StartContinues` depends on the sizes of the driver and of
the bootloader's room for it: with the shipped ones (2^12 and 2^14) that error
cannot occur.

### HbLaunch, FileBrowse, Args, Dldi

`HbLaunch` follows one launch through everything that touches its arguments and
its driver. `FileBrowse` is `browseForFile`: the directory is listed and sorted,
keys move the cursor (several at once, as `keysDownRepeat` may return them), the
screen follows, A and B change directories. `StarredReturned` says that the file
returned is the one whose row had the star. It does not hold of a press that moves
the cursor together with A: the star is drawn before the keys are read, the cursor
moves and the entry it moves to is returned (file_browse.cpp:164, 175-207), so the
property is about the other presses. `Args` is args.cpp. Text is a
sequence of characters in which a name or an extension counts as one, so that a
line is short and prefixes and suffixes still mean what they mean. What the line
buffer of `__getline` holds behind a line (`Held`) is modelled because the
comment's `remove_suffix` reaches it. `argarray` is the parser that starts a
program, `argsNdsPath` the one that shows its banner, `Documented` what
`hb/README.md` says. The arguments are packed into halfwords with one character
held back, copied word by word and cut to the stored length; what the program
reads back (`Received`) is compared with what the file lists (`Expected`).

`Expected` takes a listed program's path from the directory of the .argv file, as
`hb/README.md:18` says, whereas args.cpp:247 takes it from the working directory.
For a file the browser returns both are the same (theorem `BrowsedNearby`); for one
a hotkey names they are not, which `ProgramBesideFile` shows violated. `Plain` is
the condition of `ArgumentsArrive` and `WellFormedStarts`: no comment and no blank
line first, both of which the parser gets wrong, and a file in the working directory
or one that gives its program's whole path (`Nearby`). passArgs_ARM7's default for
an absent argument block is out of reach, because the first argument is the name of
a program. A name shorter than an extension is compared with what lies in front of
it in memory (file_browse.cpp:64); the model takes it not to match.

`Dldi` has both relocators: the one of miniboot and the GBA loader, which looks
at every fourth byte, and the one of hbmenu and its bootloader, which looks at
every byte and so up to four times at each word; `Sweep` counts the looks.
`MovedTo` is the reference. `quickFind` is the bootloader's search for the room,
which ends at the first word of the string if it is too near the end. A driver is
patched into hbmenu, from there into the bootloader, from there into the program;
hbmenu has run its driver meanwhile, so its BSS is no longer clear. `Address` is
what a patcher takes for the place an image runs at. `LaunchAssumption` says what
the images of the repository are like: sections lie in the driver in the
header's order, a driver is linked behind every room it is moved to (0xBF800000),
the bootloader's room (in VRAM) lies behind hbmenu's and the program's (in main
RAM), and no two rooms overlap. Without that order a pointer that a first look
has moved could be taken for one that has still to be moved.

### MinibootIpc and Miniboot

One action per access to a shared word. `out9` and `out7` are the nibbles the CPUs
write, `r7`, `r12` the ARM7's registers, `call` the position in `ipc_arm7_cmd`,
`step9` the position in `main`, `fifo` the words on their way to the ARM7. Memory
is bytes tagged with what they belong to, main RAM and ARM7 RAM; `header` is the
image's, with addresses and sizes, and the location checks of main.c are what they
are in the code: their sums and differences wrap around at the end of the address
space (`Uint32`). A binary whose wrapped end passes the check leaves its memory;
main is "lost" when it overwrites what lies behind main RAM, and nothing more is
said of it. `Patch` writes the card's driver into the room the ARM9 binary keeps
for one, or stops when the room is too small; without room the search ends only if
the binary is a whole number of words, and main is lost otherwise. The ARM7's copy
loop is modelled word by word with its registers: of a size that is no multiple of
four it leaves out the last bytes, although its comment promises all.
`LocationsValid` is what the checks' messages say and is violated;
`BinariesIntact` says what does hold, of the same headers and of what the ARM9
leaves with. `Astray` collects the headers that may get main lost, which
`BootCompletes` excepts. `slow` says that the ARM9's long jobs (backing up the
secure area, about 16 KiB through the GBA bus; copies of 20 to 100 KiB; the BIOS's
reset) take longer than the ARM7 needs for the dozen instructions of its last
answer. Only `LeaveTogether` and `BootCompletes` depend on it; the safety of the
staging area does not, and neither does `ImplementsStart`.

`Miniboot` adds what happens before: the cartridge's entry (the ARM7 runs it
while the ARM9 waits for an entry point; a GBA's CPU runs the same code and is
told apart by the mirroring of its RAM), and the return of a program through the
bootstub, whose peer on the ARM7 is libnds' FIFO handler, an external definition.
Main RAM is looked at in pieces of 16 KiB, which is enough to say where the
secure area may lie and what the entry's copies cover. A returning program may
leave any nibbles and a word in the FIFO.

### BootHandoff

`entry` is the word at 0x02FFFE24 through which the ARM9's "passme" loop jumps,
`temp` TEMP_MEM with the function each word belongs to, `placed` the parts of the
program that are in place. The ARM9 executes TEMP_MEM word by word, the ARM7
copies word by word. Two steps of the ARM7 are guarded by a timing assumption,
each stated as a definition: `Arm9Prompt` (the ARM9 executes one branch while
the ARM7 copies one word and advances its loop) and `Arm9Waits` (reading two
binaries from the card takes longer than `startBinary_ARM9`'s first
instructions and one video frame). Nothing in the code enforces them; without
either, `ExecutesOneFunction` or `NeverLost` fails, which is what makes them
worth writing down.

### BootFat

The card is chosen once: `v` is a volume (kind of FAT, sizes, partition table),
`chain` the file's clusters in any order, `dir` the root directory. What a sector
holds follows from them: a byte of the file is its own position in the file, so
`BufferIsFile` can say of each byte read where it has to come from; the FAT's
bytes are packed as the three kinds of FAT are (`FatPacking`), because
`FAT_NextCluster`'s work is to unpack them. `disc` collects fat.c's globals,
`wrk` and `rd` the locals of `getBootFileCluster` and `fileRead`, and each turn of
their loops is an action.
Three things the code gets wrong on unusual cards appear as conditions of the
properties: a partition beyond sector 2^24, a volume just above a limit between
two kinds of FAT behind a partition table, and a FAT32 root directory outside
cluster 2. A fourth is a FAT that is not mirrored, of which the wrong copy may be
followed; `Understood` leaves out the volumes on which it is.
Card commands succeed; reads stay within the file, as loadBinary_ARM7's do for a
complete file.

### FatFs and KernelLoader

`FatFs` is ff.c as `ffconf.h` configures it and the loader calls it: read only,
one volume, short names, no relative paths. The sector window is modelled as two
things, the sector its tag names and the sector its bytes are from, because any
card command may fail and ff.c must then not believe the tag. `f_mount` looks for
a volume with and without a partition table and checks its boot sector (`IsFatBoot`)
and its geometry (`IsVolume`), `f_open`
follows a path through directories that span sectors and clusters, `f_read` walks
the chain.

`KernelLoader` is gba/main.c from the parameter block to the jump. `mode` is what
the mode register enables: with the card disabled no command is answered, with
the SDRAM write-protected nothing is written. A bad word of SDRAM does not keep
what is written; the loader compares the first word of each block of 128 KiB
only, which `StartsWholeKernel` states as an exception. `NeverRefused` is the
converse: a proper card, a proper kernel and a working board reach the jump
unless a command fails. It leaves out kernels whose last block is shorter than
the word compared: what is compared then was in the SDRAM before. A board works if
the driver it needs is the one the status word tells (`Detected`).

## The runs

| Run | Bounds | Shows |
|---|---|---|
| `config_power` | 2-bit words, 2 slots of 2 words, 2 sub-sectors, torn erases | `NeverOverwrites`, `ImplementsStore` |
| `config_faults` | 2 slots of 1 word, every command may fail | `SavedIsReadBack` |
| `firmware_overlap` | firmware in sub-sector 1 | `FirmwareKept` is violated |
| `miniboot_ipc` | addresses of 8 bits, 12 bytes of main RAM, 8 of ARM7 RAM, a driver of 8 bytes, 108 headers, every start, nibbles 0, 1 and 5 left over | the properties of `MinibootIpc` and `Miniboot` |
| `miniboot_locations` | the same | `LocationsValid` is violated |
| `boot_handoff` | functions of 4 words | the properties of `BootHandoff` |
| `menu_config` | 2 hotkeys, 2 paths, files of up to 2 lines, lines of 128 characters or more | the properties of `HbMenu` |
| `fat_read` | sectors of 4 bytes and 2 directory entries, 11 volumes, files of 3 clusters, 48 requests | the properties of `BootFat` |
| `gba_kernel` | sectors of 4 bytes, blocks of 8, files of up to 49 bytes, 14 boards, 2 failing commands | the properties of `FatFs` and `KernelLoader` |
| `hb_launch` | 27 cards, 5 hotkeys, screens of 3 rows; drivers of 16 words in every combination of sections and pointers | the properties of `HbLaunch` and `FileBrowse` |
| `args_documented` | the same cards | `CommentsIgnored` is violated |
| `argv_relative` | the same cards | `ProgramBesideFile` is violated |

Why the bounds are enough:

* **Log.** Two slots give the three cases of the slot search (empty, partly used,
  full and recycled); a power failure and restart is possible at every step and
  any number of times, so old, torn and new configurations meet in every order.
  Two bits make a half-programmed word differ from both its old and its new
  value; two words a configuration make "a beginning of it" differ from "all of
  it". Two sub-sectors, with the boundary inside the log, let an erase be
  interrupted halfway. The fault run has configurations of one word because a
  failing erase may leave any contents; `ReadBack` is proved for all sizes.
* **miniboot.** The nibbles are modelled at full width: 16 sync turns and the
  wrap-around of the counter are all there. The headers have binaries of whole
  words, with a tail, and shorter than a word, for ARM7 RAM and for main RAM,
  apart, touching and overlapping, at the end of a memory, beyond it, empty, with
  entries outside, and with sizes that wrap around to a place the checks accept or
  to another. The driver's room is in ARM9 binaries of several sizes, too small
  for it, or missing, which with a tail is the case the search does not survive.
  The leftover nibbles are 0, the 1 the bootstub waits for, and one that is
  neither. The safety properties are proved for all headers.
* **Hand-over.** Four words let the ARM7 overwrite a function the ARM9 has just
  entered, is in the middle of, has stored from, or is about to leave.
* **Menu.** Two entries show a file cut short between them and a chunk that runs
  into the next entry; all entries are treated alike by the code.
* **FAT readers.** A sector of 4 bytes lets 12-bit entries straddle sectors, as
  they do at two of three boundaries of 512-byte sectors. Volumes have 1, 2 or 4
  sectors a cluster and numbers of clusters at and next to the limits. Three
  clusters in any order are read forwards, backwards and with gaps; requests
  start and end at, before and behind the boundaries of sectors, clusters and the
  loader's blocks. Directories span several sectors and clusters and exceed
  `MAX_DIR`. Two failing commands let a second failure meet the window the first
  one left.
* **Launch.** Arguments of odd and even length, in one line and several, with
  blank lines, relative, absolute and missing programs; argument files in the root
  and in another directory, directories in directories; a card with nothing to
  list. A screen of three rows and pages of two over up to six entries show
  scrolling and wrapping in both directions, and every set of keys pressed
  together. The card and the driver have nothing to do with each other, so that
  one is varied at a time. Pointers name the driver's first, last and next byte,
  its BSS and addresses elsewhere; drivers fit the three rooms in turn or none.

Deadlock is checked for the store and the menu, which can always be switched off.
The other systems stop: `Miniboot` and `BootHandoff` when both CPUs have jumped,
at an error stop, or with main lost, `BootFat` with its one request,
`KernelLoader` with the kernel or a colour, `HbLaunch` with the program started or
a driver that does not fit. Where they may stop is what `BootCompletes`,
`BothStart`, `Ends` and `StartsOrStops` say, and what `WellFormedStarts` says of a
refused launch.

**Fairness.** Both CPUs run: each gets weak fairness on its own steps, and nothing
is assumed of their relative speed except what is said above. In `BothStart` the
premise is that the file has been found: while it is not, main returns and
load_crt0.s starts the bootloader again, for ever. `BootCompletes` is about the
slow behaviours and excepts a program that leaves its ARM9's nibble at 1: the ARM7
may then answer the bootstub's next wait before the bootstub has seen the answer
it waits for, and both wait for ever. It also excepts `Astray`'s headers.
`FairSpec` of `HbMenu` lets the user press START at the error message; that a step
is possible at all, with interrupts enabled, is the model's part. In `BootFat` the
ARM7 goes on with the loop it is in, in `KernelLoader` the console runs.

## What is proved

All proofs are about the modules' own specifications, for every value of the
constants that the modules' assumptions allow.

`ScsfwConfigProofs` proves, for every number of slots, configuration length,
sub-sector layout, magic and word width:

* `TypeCorrect`: `Spec => []TypeOK`.
* `ReadBack`: `Spec => []SavedIsReadBack`. The property speaks about the end of a
  save, so the invariant has to say what each step leaves for the next one.
  `LogInv` says that the marks form a solid run with nothing marked beyond it, at
  every point and after every power failure, as long as the first sub-sector's
  last erase was whole: otherwise a stale mark beyond the slot just written would
  make the next boot read a different slot. `SaveInv` collects what the
  word-by-word checks of `sc_flash_write` have established: if no message was
  printed so far, the words before `n` are what they should be. Together they give
  that the run found at "done" ends just behind `idx` (`DoneIsActive`), and that
  this slot holds `configs`. The `CHOOSE` in `RunLength` needs `RunExists` and
  `RunUnique`, the least-element argument for the search loops.

The proofs use the module's assumptions only: positive sizes; a magic and a
mark that differ from erased words; a layout that assigns each word a
sub-sector. `Init` allows any block without magic, more than TLC's
two initial images.

It also proves `NoOverwrite`: `Spec => []NeverOverwrites`, for the same constants.
A message printed while a slot is written is caused long before, so the invariant
follows the erased part of the block. `Free(r)` says that everything from slot `r`
on is erased, but for a part of `r`'s mark; `Wiped(k)` that the erase loop has
done its first `k` sub-sectors; `Ready` that with the magic in place and no
sub-sector spoiled some `Free(r)` holds, which is what one boot leaves for the
next. `FreeRun` shows that the search loops then stop at a free slot. All of it is
needed only where commands do not fail by themselves (`~Faults`); power failures
are in.

It goes on to `StoreRefined`: `~Faults => (Spec => ImplementsStore)`, each step of
the log is a step of the store or none. A sub-sector erased, whole or torn, leaves
the default configuration to read; the mark of a fresh slot makes an erased
configuration the stored one; each word makes it a longer beginning of the new
one; the last word commits it; a power failure leaves what was there or what the
interrupted command makes of it. `StoreInv` adds `FreshSlot` to the two
invariants above: the slot that a save is about to mark is not marked, so its
mark makes the run of marks longer by one and nothing older comes back. The
hypothesis is needed: with cells that fail by themselves a slot may hold anything.

`HbMenuProofs` proves `MenuTypes`, `SkipIsSafe` (`UnchangedIsStored`),
`SavedOnLeave` (`LeftIsStored`) and `LoadsWhole` (`LoadsAllOrNothing`), for every
number of hotkeys and every set of paths, long lines included. The invariant adds
that the store is busy exactly while the menu saves (`PhaseInv`), that the copy is
the stored one from the boot on and not only in the menu (`StoredInv`), and which
lines of the file `tmpConfs` holds (`LoadInv`). What a save does to the stored
value comes from `ConfigStore`.

`MinibootIpcProofs` proves `TypeCorrect` and `CopiedFirst` (`CopiedBeforeLoad`),
for every header and all sizes of the memories, from cleared nibbles
(`StartNibbles = {0}`). `Inv` is a table with a row for each step of the ARM9: what
the ARM7 may be doing and what the nibbles hold. The ARM7's
counter `r12` is the only measure of how far it is. After the sync loop one more
bump of the ARM7 is on its way, and the ARM9 may take it for the answer to the copy
command while the copy has not begun; the rows `CopyInv` and `ReleaseInv` allow for
that and show that then the wait of the release command, which follows, lasts until
the copy is done. `MidCopy` says how far the copy is, `Copied` that it is complete.

`MinibootProofs` proves the same of `Miniboot`, from every start and whatever
nibbles a returning program left (`BootTypes`, `BootCopiedFirst`), and

* `Entered`: `MinibootSpec => []EntersMiniboot`,
* `AreaSaved`: `MinibootSpec => []SecureAreaSaved`,
* `LeavesTogether`: `MinibootSpec => []LeaveTogether`,
* `BootRefined`: `MinibootSpec => ImplementsStart`.

`BootInv` has three cases: the bootstub's handshake is under way (`Handshake`, a
table of its own), it is over, or the console started the cartridge; in the last
two `MinibootIpcProofs`' `Inv` holds: the handshake ends with both nibbles 0.
`AreaKept` follows the secure area. `SlowInv` says that in a slow behaviour every
wait from the staging on is for the command's own answer. The refinement rests on
two facts: once placed, a binary's bytes stay (`BytesStay`, `PlacedStays`), and
whoever enters finds both in place (`Entering`).

`MinibootProofs` also proves `MemoryIntact`: `MinibootSpec => []BinariesIntact`,
for every header and every size of the memories. "Intact" allows for what the code
does on purpose or by its copy loop: the driver in its room, the ARM7 binary's
tail missing when the ARM7 had to copy it. Headers whose sums wrap around are
included: either main is lost before it leaves, or the property holds. `OriginInv`
says where each byte may come from: it is what it was, a binary's at that binary's
place, a staged one, or the driver's in its room; so nothing is written beyond the
binaries. `Read7Inv` and `Read9Inv` say how far each binary has been read, word by
word, with the last word cut at the end of the binary; the ARM7's is complete
before the first word of the ARM9's may cover it. That it has arrived in ARM7 RAM
is `Copied` of `MinibootIpcProofs`. Of the binaries the property assumes that they
lie apart: the code never compares them.

`BootHandoffProofs` proves, for functions of every length from three words,

* `OneFunction`: `Spec => []ExecutesOneFunction`,
* `NotLost`: `Spec => []NeverLost`,
* `StartRefined`: `Spec => ImplementsStart`,
* `HandoffTypes`: `Spec => []TypeOK`.

`HandInv` is a table: for each step of the ARM7, what the entry word and TEMP_MEM
hold and where the ARM9 may be. The two timing assumptions enter at one place
each: `Arm9Prompt` in the `CopyWord` case (the word at `k7` is not the one the
ARM9 is at, which is the last one, and by `k7 = 1` it has left), `Arm9Waits` in
the `LoadHeader` case, which leaves the ARM9 `Parked` until the flag is set.
That the start flag may be 1 from the program before is covered: the invariant
says it is 0 once the ARM9 is past its first word. For the refinement, `PlacedInv`
says which parts each of the ARM7's steps presupposes; with `HandInv` it gives
that whoever may enter the program finds all of it.

`BootFatProofs` proves the five invariants of `BootFat`, for every volume that
`ProperVolume` allows (any number of clusters, of sectors in one, of FATs, any
partition table), sectors of any multiple of four bytes, every order of the
file's clusters, every directory and every request:

* `FatTypes`: `Spec => []TypeOK`,
* `VolumeRecognised`: `Spec => []Recognised`,
* `ReadsFile`: `Spec => []BufferIsFile`,
* `KeepsToChain`: `Spec => []StaysInChain`,
* `FindsFile`: `Spec => []FindsBootFile`.

`FAT_NextCluster`'s unpacking is turned into what the chain says first: an entry's
bytes are found in the sector (two sectors for some of 12 bits) that the code
reads, and put together they are the entry. After that nothing depends on bytes. A
chain is followed without induction over it: `ReadInv` names
the `k` for which the loop stands at the file's `k`-th cluster (`SeekAt`, `ReadAt`)
and relates `k` to the bytes read so far, `SearchInv` does the same for the entries
of the directory (`SearchAt`, `Place`). `TypeInv` holds what both rest on: where the
code has put the FAT, the root directory and the data, and that the sectors still
to be read are part of the request, so that no count falls below 0. `KindInv` keeps
the number of clusters from which `FAT_InitFiles` has told the kind of FAT. The
conditions are the properties' own: `Understood` and `FirstPartition` name the
volumes that fat.c takes for what they are. The limits between the kinds of FAT
are at most the real ones, 4085 and 65525, so that all entries of a chain fit.

`HbLaunchProofs` proves

* `DriverMovedOnce`: `Spec => []RelocatedOnce`,
* `StarredChosen`: `Spec => StarredReturned`,
* `ProgramShown`: `Spec => []ShownIsStarted`,
* `WellFormedFilesStart`: `Spec => []WellFormedStarts`,
* `BrowsedNearby`: `Spec => [](at = "chosen" => Folder(PathIn(cwd, chosen)) = Under(cwd))`,
* `ArgumentsReceived`: `Spec => []ArgumentsArrive`,
* `LaunchTypes`: `Spec => []TypeOK`.

For the first, `CarryInv` follows the driver through its four places: after each
relocation it is `Carried`, moved from where it was linked to where it is now, in
all words the next one may look at. One word at a time (`CarryWord`): the looks at
it move it once at most, because the address it has been moved to does not lie in
the span that is searched, from a room to one behind it (`CarryBehind`) and to one
before it (`CarryBefore`). The order of the rooms is therefore an assumption, and
so is what `Lookalike` excepts, data that looks like a pointer. `QuickFinds` shows
that the bootloader's search finds the room, by the least place where its string
could start. `BrowseInv` says that the directory on the screen is listed and not
empty, and that the cursor's entry is on the screen (`CursorShown`); every key, in
every combination, moves the cursor to an entry again and the screen after it. So
the row with the star is the cursor's.

For the next two, `WhereInv` says which file is started from where: the working
directory is on the card's device, what the browser returned is a name, and from
`FillArray` on the arguments are `argarray`'s of that file. Both reduce to lemmas
about the operators of `Args`. `SameFirst`: if the first argument is not empty,
the parser that stops at the first word has found the same one as the parser that
reads on. `DocumentedFirst`: in a plain file it is the first word documented.
`LocatedAbs`: a path made absolute names the file it named before, whatever C
string the line buffer cut it off to. That the browser's rows are entries at all
(`ContentsListed`) needs `RankExists`: in a finite strict order each number of
predecessors is some element's. What a recursive function of the library
computes (`FlattenSeq`, in `FlattenIs`) is shown by the least index where it would
be wrong. `CharsAssumption`, `OrderAssumption` and `ProperCard` say what text, names
and cards are: a character is not NUL, a path is names behind slashes, each name
has its place in the order.

The arguments themselves are followed in two halves. Before VRAM, `Keep` drops
the empty ones from a list: of what the parser reads from plain lines it keeps the
words documented (`ListKept`), and neither making the first absolute nor appending
the data file's path changes that (`ArgsExpected`). From there on, `Holds` says
that the halfwords written, and the character held back, are a text; each character
and each terminator puts one more behind it (`HoldsPut`, `HoldsEnd`, and by a
recursion's steps `HoldsString`, `PackedIs`), the last halfword is written with it
(`PackedBlock`), and the copy of words, cut off at the length told, is this text
again (`CopyIs`). `BlockInv` says that from packing on this is what VRAM, and in the
end the command line, holds. `StringsStep` joins the halves: behind a terminated
text, a string with its terminator adds one string to those a program finds there,
and an empty one adds none.

Of the assumptions, `SizesAssumption` is there for the prover, to which powers of
two mean nothing: the sizes a driver's header can name are positive and grow with
their exponents. TLC evaluates it.

`KernelLoaderProofs` proves the five invariants of `KernelLoader` and `FatFs`, for
every card that `ProperCard` allows (any geometry, partition table, order of
clusters and tree of directories), every board, every list of paths of one or two
names, sectors of any multiple of four bytes, blocks of any number of sectors, and
any number of failing commands at any place:

* `LoaderTypes`: `Spec => []TypeOK`,
* `ReadsKernel`: `Spec => []ReadsTheFile`,
* `FirstOpened`: `Spec => []OpensFirst`,
* `WholeKernel`: `Spec => []StartsWholeKernel`,
* `GoodKernelStarts`: `Spec => []NeverRefused`.

All but the first have the premise that the volume is taken for what it is
(`~Mistaken`). `ProperTaken` proves that on a proper card it always is.

`TypeInv` says more than the types. The window's bytes are those of the sector its
tag names (`WindowOK`), although any command may fail: after a failed one
`move_window` leaves a tag that names no sector. What `fs` holds is either nothing
or what the boot sector on the card says (`VolumeInv`), so a volume is never half
mounted. `CountInv` ties main's `total`, the file pointer and the bytes to go
together at every step, so that neither the buffer nor the kernel's room is left.

`GetFat` is the lemma about the FAT: with every command answered, `get_fat` returns
the entry, a 12-bit one across two sectors too. It gives `FollowingIs`, the next
cluster at each boundary of a cluster. `ReadInv` then names the `k` for which the
file pointer stands in the file's `k`-th cluster (`AtCluster`), also after a command
that failed and a call of `f_read` that starts inside a sector, a cluster or at
the boundary of one. No chain is followed by induction.

`SearchInv` does the same for the directories. `SearchAt` says which entry the
search is at, that the sector is the one it lies in, and that no entry before it
matched; `PathAt` which directory it is and what is left of the path. That a
search which ends without a match looked at all there is needs `Room`: the entries
of a directory fit into its sectors. `OpenInv` adds what main knows of the paths:
each one before the present one has no kernel or met a failing command (`Tried`),
and what is open is what the present one leads to (`Chosen`).

`SdramInv` has the block just copied (`Copied`), in which bad words hold something
else, and the blocks verified before (`Kept`), in which a word compared is good.
`StartInv` is about startable kernels and no failing commands: nothing has been
refused (`Going`). `find_volume` has not passed the volume (`Probed`: a partition
with another first sector holds no FAT boot sector), the first path that leads to
a kernel has been taken (`Least`), and the chain is as long as the file.

The assumptions: `FatFsAssumption` (positive sizes, whole sectors in a block,
limits between the kinds of FAT at most the real ones), `LoaderAssumption` (whole
words in a block, an SDRAM no smaller than the largest kernel) and
`CardsAssumption`. What `ProperCard` asks of every card is that its directories
are sound where it can be mounted at all; that a file's chain is long enough and
lies in the volume is asked of proper cards only.

Model-checked only:

* all liveness (`BootCompletes`, `BothStart`, `Ends`, `StartsOrStops`,
  `StartContinues`): fairness is outside what the prover handles. In
  `fat_read` `Ends` is checked on volumes whose FAT in use is the first; if the code
  follows another one, that one need not hold the chain.

## Findings

* `firmware_overlap`: the largest firmware images README.md allows share flash
  with the configuration block.
* `miniboot_locations`: the location checks of the binaries add in 32 bits, so that
  a size near 2^32 passes.
* `argv_relative`: a program is looked for in the working directory, not beside the
  .argv file that lists it.
* `args_documented`: a comment in an argument file is not cut off, because the
  length given to `remove_suffix` wraps; its words become arguments.

Each of these has a run. Others the models contain and the properties state or
except, without a run of their own:

* The length check for a line of hotkeys.conf (configurator.cpp:47) can never fail
  the line; an over-long path is stored without terminator and cut into several
  entries (`ReadLine`).
* The test for FAT mirroring (fat.c:404) is inverted, so the active FAT of a volume
  without mirroring is not the one that is followed (`FAT_InitFiles`).
* The fourth byte of a partition's first sector is masked to 0 (fat.c:346,
  `BootSector`).
* miniboot's copy command drops the last one to three bytes of a binary
  (mb/arm7/crt0.s:98-102, `WholeWords`), where line 91 promises N1 bytes.
* miniboot's search for a driver's room (mb/arm9/dldi_patch.c:90) does not end in a
  binary that has none and is no whole number of words (`Patch`).

## Not modelled

* **Most of `ff.c`.** About 5500 of its 7084 lines are not compiled in this
  configuration (writing, long names, exFAT, code pages, relative paths), and of
  the rest the loader calls `f_mount`, `f_open` and `f_read`. `ff.h`, `ffconf.h`
  and `ffsystem.c` are declarations and functions that are not compiled.
* **Third-party routines**: nanoprintf, the libc and tonccpy copies, the cp15
  macros. They format messages and move blocks; the models take what they do as
  given.
* **Display**: `iconTitle.cpp`, `console.c`, and the exception stub taken over
  from libnds. They draw and keep no state that the other parts read; that the
  banner's program is the one started is `ShownIsStarted`.
* **`set_backlight.c`** sets two bits of the power chip and touches nothing that
  the rest reads. That is why the cartridge entry is listed as partly modelled.
* **DSi branches** of hbmenu and its bootloader: a SuperCard needs the GBA slot,
  which no DSi has.
* **Memory clearing and MPU set-up** in the bootloader (`arm7clear.s`,
  `mpu_reset.s`, `load_crt0.s`): constants written to registers and memory, without
  branches that depend on state. `BootHandoff` has their place in the order.
* **The binary DLDI drivers**, and what the words of a room look like to miniboot's
  search (`MinibootIpc` has its outcome); the GBA loader patches its own stub.
* In the modelled components: exact addresses and sizes where no check depends on
  them, timings other than those named above, the flash chip's identification.

These are the larger part of the tree's lines: the modelled ones are about a sixth
of all lines, and nearly all of those with the firmware's own decisions in them.

## What is left

Every invariant and action property the passing runs check is also proved.
Liveness stays with TLC, and so does what a recursive definition computes for
every input. Of the code, the parts under "Not modelled" remain.
