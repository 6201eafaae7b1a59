# wLaunchELF in TLA+

TLA+ models of wLaunchELF (uLE), the file browser and launcher for the
PlayStation 2, with TLC configurations that check them on small instances and
TLAPS proofs of what holds for every instance. Paths such as `filer.c:235` are
relative to `src/` of the repository.

* [1. The system](#1-the-system)
* [2. Modules](#2-modules)
* [3. Runs](#3-runs)
* [4. Proofs](#4-proofs)
* [5. What the models found](#5-what-the-models-found)
* [6. Not modelled](#6-not-modelled)
* [7. Plan](#7-plan)

To check a model: `tlc -config MountsAll.cfg MCMounts`; to check proofs: `tlapm M.tla`,
where M is one of `MountsProofs`, `FtpProofs`, `HostProofs`, `VmcProofs`,
`PasteProofs`, `EditorProofs`, `ConfigProofs` and `HddProofs`. `PROJECT.json` lists every run, the mutant that shows each
property can fail, the lines each definition translates, and the hazards the
properties were chosen for.

## 1. The system

uLE is one EE (main processor) program with no threads of its own to speak of: a
main menu, a browser, and small tools, each a loop that reads a pad and acts. Around
it run IOP (I/O processor) modules, three of which are built from this repository and
have threads or state of their own: the FTP server, the host file system client, and
the virtual memory card driver. What is hard to get right lies mostly where uLE
keeps a belief about a driver's state (which partition is on which unit), where a
multi-step operation fails half way (a paste, a write to a full card, a saved
configuration), and where the IOP modules share state between clients or threads.

| Component | Source | State | Operations | What is hard |
|---|---|---|---|---|
| Mountpoint manager | `filer.c` (mountParty, unmountParty, unmountAll), its callers in `main.c`, `editor.c`, `config.c`, `draw.c`, `hdd.c`, `jpgviewer.c`, `elf.c` | `mountedParty`, `latestMount`, `Party_vmcIndex`, `vmcMounted`, `vmc_PartyIndex`; the PFS driver's units | mount by name, evict, unmount all, mount a VMC from an image | a cache of another module's state; eviction under a pinned or used unit; a second user (FTP) of the units |
| FTP server | `oldlibs/ps2ftpd/src/` | client list, a session each, sockets, one file handle per session, shared static buffers | select loop, about 25 commands, data connections in both directions | any command in any state, stale select sets, buffers shared by clients |
| VMC driver | `vmc_fs/` | FAT of the card image, directories, open handles, hint for the next free cluster | open, read, write, seek, remove, rename, mkdir, rmdir, listing, clean, mount | a full card, truncation, removed entries that are found again, two handles on a file |
| Clipboard and paste | `filer.c` (copy, delete, subfunc_Paste) | `clipFiles`, `browser_cut`, recursion arrays `PM_flag`, `PM_file` | cut, copy, Paste, mcPaste, psuPaste, restore | failure at any step at any depth, paste again after a partial paste, power off |
| Listing, sizes, Rename, New Dir | `filer.c`, `makeicon.c` | list on the screen | read directories of each device, sort | display, apart from the mounts it makes |
| ps2host | `ps2host/` | the connection to the PC, two send and receive buffers, a semaphore, flags that delay opens and closes | open, close, read, write, remove, mkdir, directory calls as request and reply | lost connection, replies matched by order only, flags outside the semaphore |
| HDD manager | `hdd.c`, `hdl_info/` | list of partitions | create, rename, expand, remove, rename game | the list against the disk after partial failure |
| Configuration | `config.c` | `setting`, the file | load, edit, save, fall back to other devices | truncate and rewrite with no second copy |
| Text editor | `editor.c` | buffers, cursor, marks | open, edit, save, close | index arithmetic at the ends of the buffer |
| Input | `pad.c`, `timer.c` | previous pads, repeat delays | poll | repeat and edges over two pads |
| Main menu, modules, launching | `main.c`, `elf.c`, `loader/`, `chkesr.c`, `AllowDVDV/` | which IOP modules are loaded | load in dependency order, reset, launch | order of loading, reset that forgets |
| Picture viewer, drawing, fonts, languages, SMB test | `jpgviewer.c`, `draw.c`, `font_uLE.c`, `icon.c`, `lang.c`, `SMB_test.c` | screen | decode and draw | rendering |

How they interact:

* uLE calls drivers synchronously; a call either returns a result or blocks.
* The FTP server runs in an IOP thread once `loadNetModules` has loaded it, and never
  ends. It calls the same PFS driver as uLE, without uLE's table (`FileSystem.c:757`).
* A mounted VMC keeps a file open on a PFS unit, which uLE pins (`Party_vmcIndex`).
* `copy()` mounts through the mountpoint manager, and writes through whichever driver
  the destination has: PFS, the VMC driver, memory cards, mass storage.
* The ps2host client has a thread that accepts the PC's connection, while
  the calls of uLE, and of the FTP server, use that connection under a semaphore.
* Settings are loaded and saved through the mountpoint manager, the VMC driver or
  a memory card, whichever holds the folder; the language they name renames the
  built-in programs in the launch keys.
* The HDD manager mounts on `pfs0:` behind the mountpoint manager's back while it
  reads its list, and starts and ends by unmounting everything.

What makes each of the modelled parts correct is stated as properties in section 3;
for the pads, which come next, it is that a command given once with the pad is done
once.

## 2. Modules

### Mounts

`Mounts.tla` is the mountpoint manager and every routine of uLE that mounts.

| Model | Code |
|---|---|
| `mountedParty`, `latestMount`, `Party_vmcIndex`, `vmcMounted`, `vmc_PartyIndex` | the globals of those names in `filer.c` |
| `pfs` | what the PFS driver has mounted at each unit, which uLE cannot see |
| `vmcFile` | the unit on which the VMC driver has the image of each VMC open |
| `screen`, `path`, `listing` | which loop runs, the partition the browser shows, and whether what is on screen is readable, empty or out of date |
| `copying` | the two units `copy()` has put into its paths |
| `lastUse` | history: whether the step used a unit that held another partition |
| `MountParty`, `MakeRoom`, `Reclaim`, `UnmountSet` | mountParty, its eviction, its loop against stolen mountpoints, unmountParty, as operators on a table state so that every caller uses the same definition |
| actions | one per caller: `EnterBrowser`, `LeaveBrowser`, `HddManager`, `ReadHDD`, `UseListed`, `GetGameTitle`, `MountVmc`, `CopyIn`/`CopyOut`/`CopyWrite`/`CopyEnd`, `CheckELFheader`, `FixPathUse`, `EditorUse`, `LoadSkin`, `LoadExternalFile`, `LoadNetModules`, the picture viewer's two ends, and the FTP server's mount and unmount |

Whether the driver accepts a partition (`can`), and which units have a file open and
so refuse to be unmounted (`held`), is left open at each call. `held` always contains
the units of mounted VMC images and, once the server is loaded, possibly a unit on
which an FTP client has a file open. Each call of uLE is one step with respect to
the FTP thread, except that `copy()` is split between its mounts and its writes,
where an FTP client can come in.

### FtpServer

`FtpServer.tla` is the select loop, the sessions and the handles of the FTP server. A
round is one call of `FtpServer_HandleEvents`; within it each client at hand has a
control step (a command, a hang up, or nothing) and a data step.

| Model | Code |
|---|---|
| `client[c]` | `FtpClient` of one slot of `m_kClientArray`: control and data socket, login, `m_eConnState`, `m_eDataMode`, `m_eDataAction`, `m_iRemotePort` set or not, and what its `FSContext` has open |
| `order`, `todo` | the list of clients and the clients this round has not reached |
| `open`, `fresh` | sockets that exist, and those created since select returned |
| `dropped` | those of them that PASV created and left open when getsockname failed (`FtpCommands.c:134`, the action `PasvUnnamed`) |
| `r`, `w` | the `fd_set`s filled before select |
| `stalled` | the thread waits on a blocking socket: in accept or recv on one that select did not report (`RecvWaits`), or in send to a peer that does not read (`SendWaits`) |
| `event` | history: what the last step did that a property asks about |

Sockets are numbers, and a new socket gets the least free one, because what makes the
stale sets interesting is that a number closed in a round may be given out again in
it. A handler is an operator from a world (session and sockets) to the set of worlds
it may leave; the actions select the command and apply it. Peers, files and
drivers have no state: any command may come, any call fail. The static buffer of RNFR and
RNTO (`FtpCommands.c:377`), which all clients share, holds only a name and is left out.

### Vmc

`Vmc.tla` is the file allocation table of a card image, the root directory and the folders
in it, and the handles open on their files.

| Model | Code |
|---|---|
| `card.next`, `card.used` | the links and allocation bits of the FAT; FREE_CLUSTER and EOF_CLUSTER are the same link without and with the bit |
| `card.hint` | `last_free_cluster` |
| `page` | what each page of the card holds of a directory: an entry, which a removal hides and never erases, or `Blank` for anything else |
| `handle[h]` | `file_privdata`: entry, first and current cluster, offset, position, length |
| `setup` | the names, handles, clusters and mishaps this behaviour is about |
| `astray` | the call indexed the FAT outside the card, took file data for entries, wrote it over a directory or freed the root directory: nothing is known afterwards |
| `mishaps` | history: which of twelve legal but unexpected calls have happened |
| actions | `OpenNew`, `OpenFound`, `Close`, `Read`, `WriteInPlace`, `WriteGrowing`, `Seek`, `Remove`, `Rename`, `MkdirNew`, `MkdirHidden`, `Rmdir`, `Clean`, `Remount`; `SearchAstray` is any call with a path whose search reads what is no directory |

The driver is not correct for every sequence of its calls: opening an existing
one-cluster file with O_TRUNC frees its cluster but keeps its number, an entry opened
twice has two lengths, a removed entry keeps the number of its first cluster. Instead
of leaving these calls out, the model has them all and records the first occurrence of
each as a *mishap*. An invariant says "unless one of these mishaps has happened", so
each property names exactly the calls that break it, and `setup.followed` says
through which mishaps, one in a behaviour, it is followed further; the state right after any
other is still checked.

Directories are modelled as they are on the card, a chain of clusters of two pages with an
entry in each, and not as sequences: `Scan` is `getDirentryFromPath`, `AddObject` walks the
chain and takes clusters as `addObject` and `addPseudoEntries` do, and `Listed` is what
Dread gives. So a link, a length or an entry that does not fit the others shows, as it would
on the card, by entries that are listed and not found (`ListedIsFound`). A removed
folder's pages keep their entries until the clusters are used again, which is
what `Vmc_Mkdir` relies on when the folder is made again.

### Paste

`Paste.tla` is the clipboard, `subfunc_Paste`, the recursive `copy()` in its five modes, and
`delete()` after a cut.

| Model | Code |
|---|---|
| `source` | whether the destination is a memory card, and which save folders of the source are PSU files, with a count of their contents that is right or falls short |
| `src`, `dst` | which nodes the source has; for each node, what there is of it at the destination, under its own name and inside a PSU file: none, old, part, whole |
| `attr` | the nodes recorded in the attribute files mcPaste writes; on a card, those given the attributes they had |
| `clip` | `clipFiles`, as the set of the items taken, which are pasted in the order of the listing (`After`), and `browser_cut` |
| `paste`, `stack` | progress of `subfunc_Paste`, and the levels of `copy()` with `PM_flag` and what is left to do at each |
| `open` | descriptors that are open |
| `moved`, `event`, `mishaps` | history: what a cut has deleted, what just ended, which failures happened that the code goes on from |
| actions | `Select`, `Paste`; `CopyNoSource`, `CopyNoDest`, `CopyShort`, `CopyWhole`, `CopyGarbled` for a file; `EnterFails`, `ClearFails`, `EnterDir`, `SkipPsu`, `PsuFails`, `EnterPsu`, `EnterPsuFile`, `Declined`, `Leave`, `LeaveEmpty` for a folder; `Delete`; `PowerOff` |

A negative result at any level ends all levels of `copy()` without touching a file, so a
failure and its way up are one step (`Aborted`). In three places the code ends
with whatever `ret` last held; the model has both outcomes (`good` in a frame). A
listing may return any subset of the children, because `getDir` does not tell a failure
from the end. A PSU file is read from one descriptor at two levels of `copy()`, and the
number of its entries is what its header counts, so a backup that did not count all it
wrote is restored short. Source and destination are different folders, and a write a
device has accepted is taken to be durable.

### RemoteCalls and HostFile

`RemoteCalls.tla` is the abstract specification of the host: driver: a call is asked,
performed by the PC at most once (a write once per segment), and returns what the PC answered
to that call, or an error. It allows two exceptions, which its comments name: some calls may
return without an exchange (`Skip`), and once a connection has failed a call may return
another call's answer (`Misreport`).

`HostFile.tla` is the driver itself.

| Model | Code |
|---|---|
| `sock` | `pko_fileio_sock` |
| `server` | where the server thread is between accept and the assignment of the socket |
| `sema` | the thread that has `fsys_sema`; SignalSema hands it to one that waits |
| `call[t]` | the call of a thread, at which read of the socket it is, in a read also whether it is after the count or the data, what is left to write |
| `file[t]` | the `iop_file_t` the I/O manager keeps for the thread |
| `flags` | `lastopen_fd`, `renamed_fd`, `remove_flag`, `remove_result` of `net_fsys.c`, which are set outside the semaphore |
| `recv_packet` | what the replies left in the buffer: a result, and what stands where a read looks for its count |
| `link`, `requests`, `replies`, `opened`, `disk` | external: connections, what is under way on them, and the PC's descriptors and names |
| actions | one per call (`fsysOpen` ... `fsysIoctl`, `Dummy`), one per step of an exchange (`Looks`, `Sends`, `SendFails`, `ClosesSocket`, `ClearsSocket`, `Awaits`, `Receives`, `ReceivesCount`, `AwaitsData`, `ReceivesData`, `HeaderFails`, `RestFails`, `Spins`, `Returns`), the server thread (`ServerStarts`, `ServerAccepts`, `ServerInstalls`), and the PC |

A step is what happens between two accesses to the global socket, because the server
thread can replace it at any of them. The I/O manager follows a removal by a call of mkdir for
the same name and a rename by a close; both are steps of the thread, and where another
thread comes in between is one of the three mishaps. A read looks at the socket a third time, for the data
(`net_fio.c:409`), by the count in the buffer, which an earlier reply left there if no header came
(`net_fio.c:396`). Results of -5 are -1; a write of 0 bytes is left out. `fsysDestroy`, `pko_close_fsys` and
`fsysUnmount` have no caller.

### Editor

`Editor.tla` is the text editor: every key of the two keyboards that changes text, cursor or
mark, and the menu (New, Open, Save, Save As, Windows, Close, Exit).

| Model | Code |
|---|---|
| `window[w]` | `Window`, `TextMode`, `TextSize`, `TextBuffer`, `Path`; `extra` is the 1 with which a new window's size starts |
| `active`, `ed`, `mark`, `clip` | `Active_Window`; `Editor_Cur`, `Editor_nChar`, `Editor_Insert`, `Editor_RetMode` and `KeyBoard_Active`; `MARK_ON` and `MARK_IN`; the text that was copied or cut |
| `disk` | external: the files |
| `dropped`, `mishaps` | history: whether a text that differs from its file (`Unheld`) was given up without a question, and which of fourteen unforeseen cases happened |

The text is a sequence of characters and its size is counted apart from it through the
offsets `del1` to `del4` and `ins1` to `ins5`, key by key, as the code does. Eight mishaps (`Ending`)
make an offset wrong, or take what lies beyond the end of the text; the state after one of them is not
followed. The others spoil one thing and are followed. Opening a file fails by the label `fail`, which makes the last open window the active one;
the USB keyboard is read before `Editor_Rules` brings the cursor into its text, and a key that waits there is the cause `unruled`.
An insertion allocates a new buffer and does not free the old one (`editor.c:453`, `editor.c:721`, where
the free is commented out); memory is not modelled.

### Config

`Config.tla` is `config.c` with the parts of `main.c` and `lang.c` that load, use and rename
the settings.

| Model | Code |
|---|---|
| `file`, `skinFile`, `langFile`, `place` | external: the pages in each folder with how much of each the card holds, a skin, whether the language file can be read, which folders are plugged in |
| `start`, `translated` | external: the folder `LaunchElfDir` starts with, and the words the language file translates; the others stay as they are built in (`lang.c:238`) |
| `setting`, `tmpsetting`, `rgb`, `page`, `maxCNF`, `dir`, `lang` | `*setting`, `*tmpsetting`, the copy of the colours in Config_Screen, `numCNF` with the name in `CNF`, `maxCNF`, `LaunchElfDir`, the language of `Lang_String` |
| `opened`, `chosen`, `kept`, `mishaps` | history: settings at the opening of the menu, whether the colour in force is a choice of the user's that is not saved (`menu` in the menu, `held` once an OK could not save it), the colour the user was told is saved, and the causes |
| actions | `Boot`, `Reload` of a page, `ResetConfig`, `SetCNFPath`; in the menus `Bind`, `StepColor`, `LoadSkinBrowser`, `SaveSkinBrowser`, `DefaultScreen`, `MenuTitle`, `ConfigSkin`, `PagesMore`, `PagesLess`, `EditPath`, `ChooseLanguage`; `Cancel`, `Ok`, and a save that has nowhere to go, a full card or the power failing (`OkNowhere`, `OkShort`, `PowerFailsInSave`); `PowerOff`, `Unplug`, `PlugIn`, `MoveLanguageFile` |

A settings record has what the properties tell apart. A file is the record it was written from and
how many of its four parts reached the card. The memory cards are a sequence, searched in its order; an OK that finds no
place to save (`OkNowhere`) leaves the choice in force until the next load, and no history loses it.

The program is started from its own folder, or from a CD, when `LaunchElfDir` is SYS-CONF of the first card, plugged in or not
(`main.c:2320`); so `loadConfig` and `saveConfig` never see a folder on a CD. A key is a program, a MISC
folder name and a program name, each in a language: a file that translates the programs and not the folder makes them differ.

### HddManager

`HddManager.tla` is `hdd.c`, with `hdl_info/` for the headers of games.

| Model | Code |
|---|---|
| `disk` | external: the partitions, each with name, kind, size and the title in its header |
| `party`, `numParty`, `hddUsed`, `hddFormated` | `PartyInfo` and the variables of those names |
| `sel`, `mode` | `browser_sel`, and which loop runs |
| `mounted` | what `pfs0:` and `pfs1:` hold |
| `games` | the list of HDL games: null, live, or freed and kept |
| actions | `BrowserMounts`, `Enter`, `Leave`, `Move`, `MenuParty`, `BackToList`, `CreateParty`, `RemoveParty`, `RemoveFails`, `RenameParty`, `FormatHdd`, `LoadGame`, `UnloadGame`, `GlistFails`, `RenameGame`, `FreedTwice` |

A name is what the user typed and the numbers put behind it. A partition has one size, its subs
included. `SoundDisk` is what the HDD driver keeps true of any disk: `__mbr` is first, no name is there twice, each
partition has a size and together they fit. The disks to start with are sound, and the proofs show that every
operation leaves the disk so; two games of one title are no fault of the disk, and a disk that comes with them is the cause `twins`. A partition that the browser left mounted may refuse to be mounted for the list and is then shown as not accessible (the cause `busy`, `hdd.c:196`). `Expand` is not an action: the menu never enables it (`hdd.c:386`). After a second free of
the list of games the mode is `lost` and nothing follows.

### MC modules and composition

`MCMounts`, `MCFtpServer`, `MCVmc`, `MCPaste`, `MCHostFile`, `MCEditor`, `MCConfig` and
`MCHddManager` add what TLC needs: symmetry sets, the tree of Paste, which thread makes which call, first
files, setups. `HostFile` composes the driver, its server thread, its callers and the PC, and is
composed with `RemoteCalls` by refinement. Otherwise the models do not share state: the one
real coupling, that VMC images, pastes and FTP clients all use PFS units, is inside Mounts, which has
the mounting side of all three.

### Mishaps

Most of the code is not correct for every sequence of legal calls. Instead of leaving such calls out,
six modules have them all and record the first occurrence of each cause in `mishaps`. A property
then says "unless one of these has happened", and so names exactly what can break it; a
mutant that breaks the code elsewhere is found although the causes are excepted. A cause is recorded when a step
does what leads to the failure, never when the failure is seen.

## 3. Runs

| Run | Configuration | What it shows |
|---|---|---|
| `mounts` | `MountsAll.cfg` | The pins cover every open image (`ImagesPinned`); there is always a unit to evict (`VictimExists`); no partition is in the table twice (`OneUnitPerParty`); `copy()` never evicts its own units, at any depth (`CopyUnitsHold`); until the FTP server is loaded the table is true (`TableTrue`) and indexed uses hit the right partition (`IndexedUseRight`). |
| `mounts_ftp_stale` | `MountsFtpStale.cfg` | With the FTP server, the table is not true: counterexample. |
| `ftp` | `FtpServer.cfg` | Nothing is open without a data connection (`HandlesHaveConnection`); no socket has two owners, and none leaks but where getsockname fails (`SocketsAccounted`); the server waits in accept or recv only for the client whose command it has just handled (`WaitFollowsCommand`). |
| `ftp_rounds` | `FtpServerLive.cfg` | Every round ends (`RoundsEnd`), whoever leaves the list in it, unless from some moment on a peer holds the server for ever. |
| `ftp_stale_action` | `FtpStaleAction.cfg` | A data connection without a command starts a transfer: counterexample. |
| `vmc` | `Vmc.cfg` | Chains always end (`ChainsEnd`); files are apart and have the clusters their length needs (`FilesApart`), writes land in their own file (`WritesOwn`), no cluster is lost, also by a write that ran out of them, and no free one is missed (`NothingLost`), what a listing shows is what a path finds (`ListedIsFound`), unless the named mishaps have happened. |
| `paste` | `PasteAll.cfg` | In all five modes, what was cut is complete at the destination (`CutKeeps`) and what `copy()` reports as done is there (`ContentsCopied`), unless the named failures happened; no descriptor stays open but in three named cases (`NothingLeftOpen`). |
| `host` | `HostFile.cfg` | The driver implements `RemoteCalls` (`Implements`); requests and replies stay in step (`InStep`); PC and console agree on descriptors (`DescriptorsAgree`); the mkdir after a removal never reaches the PC (`NoGhosts`); every call returns unless from some moment on one waits for what a PC that has closed the connection, or is gone, will not send (`CallsReturn`). |
| `editor` | `Editor.cfg` | The counted size is that of the text and the cursor is in it (`BufferSound`); no edit parts a CR from its LF (`LineEndsWhole`); a text that its file does not hold is asked for (`EditsAskedFor`), each unless the causes named. |
| `config` | `Config.cfg` | Launch keys keep starting their programs through languages, loads and Cancel (`KeysLive`); what was saved is what the next start loads, each page its own (`ChosenComesBack`); Cancel gives back what there was (`CancelGivesBack`). |
| `hdd` | `HddManager.cfg` | The list that is patched stays that of the disk (`ListMatchesDisk`) and the titles those of the headers (`TitlesAgree`), unless the causes named; nothing is changed while mounted (`IdleWhenChanged`). |
| `hdd_names` | `HddNames.cfg` | The number that keeps a name unique makes it another partition's: counterexample. |

Bounds, and why they are enough:

* **Mounts**: five partitions for four units, so that the fifth mount evicts; two VMCs, as
  in the code, so that two units can be pinned while `copy()` uses two more; FTP clients
  mount at unit 0, which is what CWD does (`SITE MNT` can name any unit; the proofs hold for
  any set of units). The counterexample run needs two partitions. The state space is
  finite without further bounds.
* **FTP**: two clients and five sockets: the listening one and two per client, so that a client's peer can be
  accepted, which takes one more, while the other has no data connection. The round's stale sets are a pairwise effect. One failed login is allowed
  instead of three. The liveness run has four sockets, so that a client finds none left, and
  no anonymous login. Slots are interchangeable, except that the list has its order, which
  is part of the state.
* **VMC**: five clusters, of which the root directory takes up to two, so that two files of up to
  two clusters fill the card; one cluster lies below `FirstAllocatable` as the hint sees it and two
  do not, so that addresses and numbers can be told apart; a cluster has two units, so that a position can be
  inside one. `MaxLength` and `MaxEntries` bound positions and entries in the guards. Each
  setup is about something else: two files and two handles, every pair of calls on one
  file and on two, on the whole card; the same through a mishap on a card one cluster smaller, and with
  one handle on the whole card; a folder and a file in it or beside it; a folder and two files
  that stay empty for lack of clusters, so that the folder has two entries; a card with room for a folder's
  entry and not for the folder; and two files of which
  one's name begins the other's, in the root directory and in a folder, followed through a write that runs out of
  clusters. Names of folders are no file's, and a folder has at most two
  entries, which is two clusters, as many as `Vmc_Mkdir` takes back.
* **Paste**: a file, and a save folder with a file and a folder: one recursion level more than a
  memory card has, items before and after a failing one, and folders that are left empty. All initial
  contents of source and destination are tried, on a card and elsewhere, with the save folder as a folder
  and as a PSU file whose count is right or short.
* **HostFile**: two threads, because the semaphore and the flags are pairwise; one of them calls through
  the I/O manager and the other, as the FTP server does, directly. One name, so that a removal, a folder
  made and a file opened meet; two descriptors, so that one is reused while the other is out; writes of two
  segments; two connections, so that one replaces another. `MaxWork` is six calls, a
  connection counting as two: the shortest mix-up of flags takes three. A count left by an earlier read that sends a
  failed one to receive data is reached on the connection it was asked on; with another connection installed in between it takes seven,
  and only the proofs cover it.
* **Editor**: three windows: mark, copy buffer and mode are carried from one to the other, and an Open that fails
  needs a free one beside them; one file, so that two windows can be saved to it; texts of up to four characters and a paste more, where every offset from
  the cursor (at most two) meets both ends and both halves of a CR LF; seven keys or menu choices, of
  which opening takes two. The run reaches a mark carried into another window, a cursor left beyond its
  text by a failed Open, and a window saved over another's file. First files have no line end and one of each kind.
* **Config**: two pages, so that one can hide the other; the folder started from, two memory cards and a folder named by
  CNF_Path; the second card takes part in one setup, since what is loaded from it or saved there is a cause of its own; colours 0 to 2, so that both ends stop the
  counter. Two languages stand for any two; the words translated are all, the name of the settings menu only, or the folder's and the browser's. `Setups` gives each way the folders can differ its own run of
  edits, saves and failures, up to two of a kind.
* **HddManager**: six disks of up to five partitions and a list of four, so that the list can be full and overflow; names
  of up to four parts with a number appended, and initial disks where the number of one name is another's. Sizes are 1
  and 2 on a disk of 6. Each setup has its budget of operations, two of a kind.

Behaviours end (`Over`) after a mishap that is not followed and after a call that
goes astray, and where a bound on events is used up they may stop there. Deadlock is checked except in the
Mounts counterexample, where it is not the question, and in the HddManager runs, where the program
ends when memory is freed twice.

Fairness is assumed in two places.

* `FairSpec` of FtpServer: `WF_vars(stalled = "no" /\ Serve)`. The server is one
  thread with nothing else to wait for once select has returned: it goes on to the next client. Its sockets are
  blocking, and nothing makes a peer end a wait; so `RoundsEnd` is about behaviours in which no wait lasts for
  ever. Commands, connections and select itself are not fair.
* `FairSpec` of HostFile: weak fairness of each thread's next step within its call, of the PC's serving of
  each connection, and of the server thread's assignment of an accepted socket. Threads of the IOP are
  scheduled by priority and block only where the model's steps wait; a PC whose connection is open answers.
  Nothing has to tell a waiting thread that the PC has closed the connection or is gone (`Unanswered`): recv may wait for ever.
  SignalSema hands the semaphore to a waiter, so that weak fairness is enough to get it. Nobody has to call and no PC
  to connect, and a connection may be closed or lost at any time or never. `Spins` is the loop in which
  recv returns 0: it is a step, so that fairness does not hide that the call never returns.

The refinement `Implements == RC!RCSpec` maps the states of a thread's call to the phases of
`RemoteCalls` (asked, performed, returned). That the PC has performed a call is recorded in the call
(`done`) when the PC serves its request; `broken` is that some connection has failed. That
`Misreport` is only allowed after a failure is what the refinement is about: the buffer and the connection are shared,
and it shows that while connections hold, no call returns what another was answered.

## 4. Proofs

Eight modules of proofs cover the eight models. In each, the theorems rest on an inductive
invariant that TLC checked on the run's instance before it was proved, on lemmas about the model's
operators, and on one lemma for each action or group of actions. They hold for every value of the
constants the model's assumption allows; the bounds of the runs play no part in them.

### Mounts

`MountsProofs.tla` proves all properties of the run `mounts` and two more
(`PinsAgree`, `VmcsEndWithBrowser`), for every set of partitions and every set of units FTP
clients use, from `MountAssumption` only (`None` is no partition, FTP clients use units that exist):

| Theorem | Statement |
|---|---|
| `TypeCorrect` | `Spec => []TypeOK` |
| `PinsAlwaysAgree` | `Spec => []PinsAgree` |
| `TableAlwaysTrue` | `Spec => []TableTrue` |
| `PartiesSingle` | `Spec => []OneUnitPerParty` |
| `VictimAlwaysExists` | `Spec => []VictimExists` |
| `ImagesAlwaysPinned` | `Spec => []ImagesPinned` |
| `VmcsAlwaysEnd` | `Spec => []VmcsEndWithBrowser` |
| `CopyUnitsAlwaysHold` | `Spec => []CopyUnitsHold` |
| `UsesAlwaysRight` | `Spec => []IndexedUseRight` |

The first inductive invariant is

    IInv == TypeOK /\ ListNamesPath /\ PinsAgree /\ TableTrue /\ OneUnitPerParty

`ListNamesPath` (a list with entries is a partition's) lets the actions of the browser, which
mount `path` under the guard that there is a list, use the lemma about `mountParty`, which is
about partitions and not about `None`. `TableTrue` and `OneUnitPerParty` follow from lemmas about table
states, in the order of the code: `LeastIn`, `UnmountSetOK`, `FillOK`, `ReclaimOK`, `MountPartyOK`. A fill
keeps entries single only if the partition was not in the table, which is what the search before it
ensures. `PinsAgree` is inductive with the types and `ListNamesPath`, because `PinsWithout` never unpins
a unit the other VMC names.
Three lemmas go through the actions of `Next`, one for each group of variables: `TableStep`,
`PinsStep` and `UiStep`; `NextIInv` puts them together. `VictimExists` follows
from `PinsAgree` by counting: if no unit can be evicted, three units are pinned by two VMCs.

The last four are about units in use, and need a second invariant on top of the first:

    UseInv == ImagesKnown /\ VmcsInBrowser /\ CopyKnown /\ ListMounted /\ IndexedUseRight

`ImagesPinned` is not inductive: MOUNTVMC opens the image on unit 0 when `genFixPath` could not mount the
partition, and then pins nothing. That never happens because the partition of a readable list is in the
table (`ListMounted`), so that the mount is a hit; a paste can evict it, but leaves the list to be
read again. `CopyKnown` adds to `CopyUnitsHold` that between the two mounts of `copy()` its first unit is
the one used last, which is the one `mountParty` does not evict. What a mount promises its caller
(`Gives`: the unit returned has the partition, and the entry used last is still there) is `MountPartyGives`.

### FtpServer

`FtpProofs.tla` proves all properties of the run `ftp`, for any number of clients and sockets, from
`FtpAssumption` (there is a socket to listen on):

| Theorem | Statement |
|---|---|
| `TypeCorrect` | `Spec => []TypeOK` |
| `SocketsAlwaysAccounted` | `Spec => []SocketsAccounted` |
| `HandlesAlwaysHaveConnection` | `Spec => []HandlesHaveConnection` |
| `WaitsFollowCommands` | `Spec => WaitFollowsCommand` |
| `ListAlwaysSound` | `Spec => []ListSound` |

    IInv == TypeOK /\ SocketsAccounted /\ HandlesHaveConnection
            /\ SessionsSound /\ ListSound /\ RoundSound

`SessionsSound` says that a data socket is there exactly in the states of the data connection that have one,
and that an unused slot holds nothing of a former client: without it a new client would start
with a handle. `ListSound` (the list names the sessions in use, each once) is what keeps the walk over `todo`
on live sessions while clients join and leave. `RoundSound` says that of the clients a round has still to visit
none has a data socket made since select returned, except the one at hand once its command is handled: a number that
was closed goes to a socket of the client that asks for it, and `WaitFollowsCommand` follows. The handlers are proved as the code is layered: what `Cleanup`, `Connect`,
`HandleDataConnect` and the transfers make of a world (`CleanupOK`, `ConnectedOK`, `TransferOK`, ...), that a world
goes back into the server (`HandlerStep`), then one lemma for each group of commands.

### HostFile

`HostProofs.tla` proves the invariants of the run `host` and the safety part of its refinement, for any number of threads, names, descriptors, connections and segments, from
`HostAssumption` (there is a descriptor and a segment, `Nobody` is no thread):

| Theorem | Statement |
|---|---|
| `TypeCorrect` | `Spec => []TypeOK` |
| `AlwaysInStep` | `Spec => []InStep` |
| `DriverImplements` | `Spec => Implements` |
| `NeverGhosts` | `Spec => []NoGhosts` |
| `DescriptorsAlwaysAgree` | `Spec => []DescriptorsAgree` |

    IInv == TypeOK /\ OneAtATime /\ CallsSound /\ FreshSound /\ LinksSound /\ ExchangeSound

Only the holder of the semaphore is between looking at the socket and the end of its exchange (`OneAtATime`);
at each of its stages the request or the reply under way on the connection is its own, and
nobody else has any (`ExchangeSound`), unless the server thread has replaced the connection under it, when the
new one is empty (`FreshSound`: nobody can have used a connection before it is installed).
`InStep` follows at the stages where a reply, or the data of a read, is received.

`DriverImplements` maps each step to one of `RemoteCalls` or a stutter: one lemma for each kind of step
(`EnterMaps`, `ServeMaps`, `ReceiveMaps`, `ReceivesCountMaps`, `ReceivesDataMaps`, `HeaderFailsMaps`, `ReturnMaps`, `GoesOnMaps`, ...) says which. `Misreport` is
the image of `HeaderFails` only, and `LinksSound` gives that a connection has failed by then.

`NoGhosts` and `DescriptorsAgree` are about the flags outside the semaphore, and need a second invariant:

    UseInv == FilesSound /\ (Fine => RemovalsSound /\ UsesSound /\ RequestsSound /\ RenameAlone
                                     /\ RenamedOpen /\ DescriptorsSound)

`Fine` says that none of the mishaps that `DescriptorsAgree` excepts has happened.

`RemovalsSound`: between a removal and the mkdir made of it the flag is set. `DescriptorsSound` says which descriptors
a thread has at the PC at each stage of each kind of call; it is inductive with `RenameAlone` and
`RenamedOpen` (a thread between a rename and its close is alone, and `renamed_fd` is its descriptor, so that a
close that is suppressed is its own), `UsesSound` (a file is used on its own connection) and `RequestsSound`.

### Paste

`PasteProofs.tla` proves all invariants of the run `paste`, for every tree and every list in the
clipboard, from `PasteAssumption` (each set of nodes has one whose parent is outside it, that
is, the nodes are a forest without cycles or infinite ascent; the items are at its top):

| Theorem | Statement |
|---|---|
| `TypeCorrect` | `Spec => []TypeOK` |
| `CutAlwaysKeeps` | `Spec => []CutKeeps` |
| `ContentsAlwaysCopied` | `Spec => []ContentsCopied` |
| `NothingStaysOpen` | `Spec => []NothingLeftOpen` |

    IInv == TypeOK /\ StackSound /\ FlagsSound /\ FoldersMade /\ OpenSound /\ MovedSound
            /\ PsuSound /\ CopiedSoFar /\ CutKeeps /\ ContentsCopied

`CutKeeps` is about files that are gone from the source, and is kept by `Delete` only because what was just
copied is complete: `ContentsCopied`, and `MovedSound`, which says that a deletion follows the copy of the same item at
once. `ContentsCopied` is about the moment `copy()` returns; `CopiedSoFar` carries it through the recursion: at each
level, what is no longer left to do has arrived, with its attributes if the level's `PM_flag` keeps them. That a
level which returns adds its folder to what its caller has done needs the folders to lie in each other
(`StackSound`), to exist at the destination (`FoldersMade`, without which a file's copy would not count as arrived),
and to have the flags mode and depth allow (`FlagsSound`). `PsuSound` is for `SkipPsu`: a PSU file found
complete is not written again. `NothingLeftOpen` follows from `OpenSound`: only the levels of the stack hold
descriptors, so none are held when it is empty.

The lemmas begin with trees (`SubtreesApart`, `MissingBelow`, `SubtreeParts`), for which `Subtree` is defined as a least
closed set, without recursion; go on with the levels (`BackStep`, `PushStep`, `EndsSound`: a level returns, a level
begins, all end) and with the data (`FileStep`, `ClearStep`, `MadeStep`, `PsuStep`: what a file copied, a
destination cleared, a folder or a PSU file made change); then there is one for each action.

### Editor

`EditorProofs.tla` proves all invariants of the run `editor`, for any number of windows, names, files and
lengths, from `EditorAssumption` (there is a window, and no file is at first longer than a text may
be, the bound `MaxLen`):

| Theorem | Statement |
|---|---|
| `TypeCorrect` | `Spec => []TypeOK` |
| `BufferAlwaysSound` | `Spec => []BufferSound` |
| `LineEndsAlwaysWhole` | `Spec => []LineEndsWhole` |
| `EditsAlwaysAskedFor` | `Spec => []EditsAskedFor` |

    IInv == TypeOK /\ BufferSound /\ (~Over => IdleSound /\ FilesSound) /\ LineEndsWhole
            /\ (~Over /\ mishaps \cap Mixing = {} => MarkWhole)
            /\ SavedSound /\ PathsSound /\ EditsAskedFor

`LineEndsWhole` is not inductive: a mark that started between a CR and its LF would part them when it is
cut, which is what `MarkWhole` excludes, and a cursor there is what each key allows for by its own
offsets (`EndsAre`). That a removal or an entry between two such offsets leaves all line ends whole is `SplicedWhole`,
that what a copy takes between them has whole ones is `PartWhole`; both rest on `SplicedIs`, which says
where each character of the new string comes from. `FilesSound` (a zero byte in a file is its last
byte) is why the size of a file that is opened again is that of its string and at most one more, `IdleSound`
that a window that is not open has no mark and its cursor at the start. `SavedSound` (a window counts as saved only while
its file holds its text) is about `Window[SAVED]`, which is all that Close and Exit look at; it is inductive because a save to
another window's file, which does not take back that window's flag, is the cause `overwritten`. `PathsSound` gives the window a file.

The lemmas go from strings (`CharAtIs` to `PartWhole`) to three kinds of steps: the view changes
(`ViewStep`), the active text is edited (`EditsStep`), a window gets another content (`WindowStep`); each action
is then shown to be one of these. Exit, which frees all windows, and the stuttering at the end are proved by themselves.

### Config

`ConfigProofs.tla` proves all properties of the run `config`, for any number of pages, colours and setups and for no, one
or two memory cards, from `ConfigAssumption` (there is a page, a colour besides 0, and no card that lacks the
folder holds a page in it):

| Theorem | Statement |
|---|---|
| `TypeCorrect` | `Spec => []TypeOK` |
| `KeysStayLive` | `Spec => []KeysLive` |
| `SavedComesBack` | `Spec => []ChosenComesBack` |
| `CancelRestores` | `Spec => CancelGivesBack` |

    IInv == TypeInv /\ NamesInv /\ MenuInv /\ TitleInv /\ BareInv /\ ComesBackInv

`KeysLive` speaks of the settings in force in the main menu; it is kept because no settings record anywhere, the
copy behind Cancel and every page on every card included, has a folder or program name of a language other than its own (`NamesInv`); a key bound after a reset has one when the file translates the program and not the folder, which is the cause `half_spoken`.
`ComesBackInv` is what makes a saved page come back, as long as none of the causes has happened: no page is cut and
none names a folder to go on from (`WholeInv`); `LaunchElfDir` stands where page 0 was found, and away from the folder it
started with only while that has no page (`WhereInv`); and what was saved is in the page's home (`Home`: that folder, else
the first card), while what is in force was not changed since or is the user's choice (`KeptInv`). It is not enough
to say this of the page in force: the copy behind Cancel must have the saved colour too, or a Cancel would put another in force that is
then taken for the saved one. `CancelRestores` is an action property from `MenuInv` (the copy
starts what was started when the menu was opened: `Kin`) and from what a renaming there and back does to a record (`RenamedIs`).

### HddManager

`HddProofs.tla` proves all properties of the run `hdd`, for every length of the list and of names, every size of the disk, and all
sound disks to start with, from `HddAssumption` (a formatted disk has room for what formatting makes; what is typed
is not empty and shorter than the limit):

| Theorem | Statement |
|---|---|
| `TypeCorrect` | `Spec => []TypeOK` |
| `ListIsTheDisk` | `Spec => []ListMatchesDisk` |
| `TitlesStayTrue` | `Spec => []TitlesAgree` |
| `ChangesWhileIdle` | `Spec => IdleWhenChanged` |

    IInv == TypeInv /\ SoundDisk(disk) /\ Listed /\ AccessSound /\ CursorSound /\ TopSound
            /\ UsedSound /\ WholeListed /\ TitlesSound /\ ModeInv

`Listed` holds whatever has gone wrong: the entries stand for the first partitions of the disk, in their order, also when
the list is full or its reading failed half way. `AccessSound` is that a partition which can be used is listed so, unless it refused. `WholeListed` and `TitlesSound` hold up to the causes
they name. `UsedSound` (the space counted is at least that of the entries) is what keeps `hddUsed` from going below 0
when a partition is removed from a list that is short, and `TopSound` what keeps Remove and Rename off the first entry of
an empty list. `TitlesSound` says more than `TitlesAgree`: titles on the disk differ, or else the header a renaming
looks up by its title could be another game's.

Sizes and unique names are computed by recursive functions over a sequence, and are had for every length without an induction scheme:
a recursive function of natural numbers exists because the first number up to which it could not be built would have a
predecessor up to which it can (`Iterates`, from `LeastIn`), and what it computes is proved in the same way
(`SumsRise`, `SumsInsert`, `SumsRemove`, `SumsSame`; `UniqueIs`: the name chosen is not empty, and it is the one typed only if no entry has that).

### Vmc

`VmcProofs.tla` is about all invariants of the run `vmc`, for every card, all names and any number of handles, from
`VmcAssumption` and `BlankAssumption` (a page that holds no entry is none):

| Theorem | Statement |
|---|---|
| `VmcAlwaysFits` | `Spec => []AlwaysFits` |
| `TypeCorrect` | `Spec => []TypeOK` |
| `EveryChainEnds` | `Spec => []ChainsEnd` |
| `HintNeverPasses` | `Spec => []HintLow(card)` |
| `FilesStayApart` | `Spec => [](Sound => FilesApart)` |
| `WritesStayOwn` | `Spec => [](Sound => WritesOwn)` |
| `NothingGetsLost` | `Spec => [](Sound => NothingLost)` |
| `ListedStaysFound` | `Spec => [](Sound => ListedIsFound)` |
| `FirstMishapHolds` | `Spec => [][Sound => (FilesApart /\ WritesOwn /\ NothingLost /\ ListedIsFound)']_vars` |

The first four hold through every mishap:

    AlwaysFits == TableOK(card) /\ PagesOK(page) /\ HandlesOK(handle) /\ ...

That chains end is not inductive: a call that links the end of one chain to a cluster closes a cycle if
that cluster is on the chain. `Ranked` is: clusters can be numbered so that every link leads down. Cutting a link
keeps the numbers, and a link to a free cluster that ends its chain allows new ones (`LinkSane`); so the proof shows of every
call that the cluster it links to is one that `getFreeCluster` found and has since marked as an end, or, in a folder made again, the
folder's second cluster. That a walk over ranked links ends is the pigeonhole principle (`Ends`).
`TableOK` also keeps every link off the root directory and the root directory allocated, which is
what keeps file data from being written over it, and has `HintLow`: no free cluster lies below the hint.

The next four are proved up to the first mishap other than a dropped cluster and a seek past the end, and
`FirstMishapHolds` for the call on which that happens:

    Sound == mishaps \subseteq {"dropped", "overrun"}
    Kept  == /\ Image(card, page) /\ Holding(card, page, handle)
             /\ "dropped" \notin mishaps => Lossless(card, page)
             /\ ~event.stray

`Image` is what the calls keep up on the card: a directory's chain is allocated and is as long as its entries need, its first two
entries are the dot entries, its files' clusters are allocated and enough for their length, what a removed entry still names cannot
be mistaken for a live one, and owners have no cluster in common. `Holding` is what a handle keeps of its entry: the first
cluster, the length, a position on a cluster of the file, and nobody else on the file. Without it `Image` is not inductive, because a write
takes the first cluster and the length from the handle. `Lossless`, that every allocated cluster has an owner, is not needed
by the others.

The lemmas follow the data: what a change of the table outside a chain leaves of it (`WalkSame`, ...), what a cluster appended or a
chain freed does to one owner and not to the others (`Grew`, `FileChanged`, `EntryAdded`, `HiddenLossless`), and where a search ends
(`ScanFirst`); then one lemma for each call. `Vmc_Rmdir` removes the files of the folder one by one, and is proved by an induction over how
many are gone (`Emptying`); `Vmc_Write` goes from one cluster to the next, and is proved for one such step at a time.

### Only model-checked

`RoundsEnd` and `CallsReturn`, which are liveness under fairness and beyond the provers used.

Of Vmc, what `FilesApart`, `WritesOwn`, `NothingLost` and `ListedIsFound` claim of the calls after the first mishap
outside `Sound`. `FirstMishapHolds` proves it of the call on which the mishap happens; what follows is checked on the
run's setups, as far as `Usable` lets them go on. That a folder removed after a short write can lose a file's clusters
(`missed`: an empty file comes before it whose name begins its own, and the path ends there) was seen on a card of
eight clusters, larger than the run's.

## 5. What the models found

With a run whose counterexample is the trace, and an entry under `findings`:

* `mountParty` trusts its table after an FTP client took the unit over; no VMC is
  involved, although `docs/changes.txt:226` says conflicts need one.
* FTP: an action outlives its transfer (`FtpClient.c:491`).
* HDD manager: the number that is to keep a name unique is chosen in one pass over the list,
  and can end on a name met earlier (`hdd.c:580`).

As mishaps, each named where a property excepts it:

* Host files: a call in the middle of another thread's rename or removal takes its flags (crossed); a
  connection that replaces another in the middle of a call splits its request and its reply, or the count of a read and its data (replaced); a
  descriptor of a connection that has ended is sent on the next (outlived). Once the PC has closed the connection, a
  waiting call spins with the semaphore held (`net_fio.c:94`), and a broken one returns an older answer (`net_fio.c:188`), a read
  by going on to wait for data that an older count promises (`net_fio.c:403`).
* Editor: keys without any window, Delete at the end, a copy up to a mark that a failed Open carried from a
  longer text (`editor.c:1412`), a mark deleted backwards, half a CR LF overwritten, Return in a
  window that became active by Close, Paste or Delete at a lone LF; a key that is waiting when an
  Open fails, with the cursor of the window left (`editor.c:1450`); text changed after a save is given up
  without a question, and so is one whose save was short or whose file another window was saved to.
* Config: a launch key on SELECT keeps the name of another language (`lang.c:301`); a key bound after a reset is dead if
  the language translates the program and not the MISC folder (`lang.c:238`, `filer.c:3453`); a page found in SYS-CONF hides the
  pages of the folder started from (`config.c:747`); a full card or power failure leaves neither the old nor the new
  page (`config.c:602`); a page saved on a second card does not come back once the first one has it (`config.c:120`).
* FTP: PASV leaves its socket open when getsockname fails (`FtpCommands.c:134`); the sockets are blocking, and one peer
  that does not read, or has nothing to accept, holds all clients.
* HDD manager: a game is shown as renamed when the call failed and the other way round (`hdd.c:659`), a title is checked
  for uniqueness against loaded games only, and looked up among all (`hdl_info/hdd.c:179`).
* VMC: O_TRUNC of a one-cluster file leaves it owning a free cluster (`vmc_io.c:298`); an
  entry opened twice has two lengths; a removed entry keeps its first cluster. A new folder that gets a cluster for its
  entry and none for its own leaves a cluster its parent does not count, behind which the next entry is not found
  (`vmc_misc.c:233`); so does a write to a file removed while open when a folder was made on its clusters. A folder
  made again takes its clusters back from whoever has them (`vmc_io.c:1051`). A file whose path
  ends at an empty one, whose name begins its own, keeps its clusters when their folder is removed (`vmc_misc.c:67`).
* Paste: a PSU file left by an aborted psuPaste counts as a backup (`filer.c:2392`), and after a
  Cut the source is deleted; a listing that fails makes a Cut delete what was not copied; the descriptor of a PSU file
  stays open when its folder is not made (`filer.c:2563`).

Seen while reading, and not followed by a property: a folder removed while empty and made again indexes the FAT by
FREE_CLUSTER (`vmc_io.c:1068`; the model's call goes astray), and so does removing a file that was never written (`vmc_misc.c:304`) or
a folder that holds one; a file whose name begins another's hides it, if it comes first and is not empty (`vmc_misc.c:67`); a skin
read in the colour menu is undone by the next press (`config.c:1310`); `copy()` puts the unpatched source path back for sources
on `hdd0:` (`filer.c:2319`, a missing else); RNFR's name is shared by all clients (`FtpCommands.c:377`);
`last_free_cluster` is written as a number and read as an address (`vmc_fat.c:116`; `NothingLost` shows
that no free cluster is missed for it); `getGameTitle` and
`getExternalFilePath` use unit 0 whatever unit was mounted; RETR ends with 226 after a
read error other than -1; the option "-port" of the FTP server is overwritten after it was read; the last loop
over IPCONFIG.DAT keeps nothing beyond the first line (`config.c:1940`); `hdl_ginfo_write` ignores the result
of its read (`hdl.c:113`); the limit of the partition loop counts games only (`apa.c:169`).

## 6. Not modelled

Within the modelled parts:

* Mounts: the DVRP partition table and `RunLoaderElf` (which does not return). Preemption of
  a uLE call by the FTP thread in the middle of the call, apart from `copy()`.
* FTP: the restart marker, several commands in one segment, reply texts, the name buffer of RNFR, Start and
  Stop.
* VMC: folders in folders, a folder and a file of one name, Getstat and Chstat, which change no more than dates and
  modes, O_APPEND (no caller), formatting an image in use, Recover (uLE does not call it). Page and ECC handling
  (`vmc_ps2.c`) is data without control.
* Paste: Paste with renaming, pasting into the folder being
  pasted (no effect, or a recursion that ends at the 16 elements of `PM_flag`), a card as source of a restore.
* HostFile: replies of a kind the request did not ask for, which a PC that speaks the protocol does not send; the
  arrival of a reply in pieces, apart from a failure between header and body, and a read's data, which come by themselves.
* Editor: rows and columns of the screen, lack of memory, a read that returns less than the file, zero
  bytes typed. Zero bytes of a file end its text.
* Config: swapping of confirm and cancel keys, path padding, titles of launch keys, the
  picture viewer's settings, Config_Network and `saveNetworkSettings`; files are cut at the borders of four
  parts; the reload of skin pictures.
* HddManager: `Expand` (never enabled, `hdd.c:386`), names that are too long at creation (no check), a disk
  that is removed, the count `nparties` (`apa.c`).

Whole parts: drawing, decoding, fonts, icons and the ELF loader are rendering or pure I/O;
of the languages, the names of built-in programs are in Config. `SMB_test.c` is a test menu. Input
and the loading of IOP modules are planned.

## 7. Plan

1. An abstract store for Vmc that maps names to lengths, implemented by Vmc as long as no mishap has happened.
2. `Pad` (edges and repeat of two pads) and `Modules` (order of loading in `main.c` and the reset that forgets).
3. A specification of what mountParty promises (a partition mounted at the unit
   returned, nothing pinned unmounted), with Mounts shown to refine it as long as FTP is
   not loaded.

Proofs: what the four properties of Vmc claim past the call of the first mishap outside `Sound`.
