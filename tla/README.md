# A TLA+ model of BZCC Scanner

BZCC Scanner (`src/`) is a Win32 program in C that shows the open games of
Battlezone Combat Commander. It fetches a JSON list of games (the lobby list)
over HTTP, or from a file when the port is 0, lists the games and their
players, lets the user give players local nicknames, and can scan again at an
interval. This directory holds TLA+ modules translated from its source, the TLC
configurations that check them, and proofs for TLAPS.

- [Inventory](#inventory): the parts, their state, how they interact, what is hard
- [Modules](#modules): what models what, and how it corresponds to the code
- [Runs](#runs), with bounds and fairness
- [Proofs](#proofs)
- [What the code does that its comments do not say](#what-the-code-does-that-its-comments-do-not-say)
- [Not modelled](#not-modelled)
- [Plan](#plan)

`PROJECT.json` lists, for tools, the same components, the runs, the source
lines of every definition, the hazards, and for every property a mutant: a
plausible bug in the code that the property catches.

## Inventory

| Component | State | Operations | Correct when |
|---|---|---|---|
| **Scan lifecycle** (`bzccscanner.c`: `BeginScan`, `EndScan`, `ScanThread`, `WndProc`, `WndProcPrefsDlg`, `UpdateContextMenu`) | `hScan`, `iContinueScan`, `quitting`, the timer and `timer_id`, `auto_scan`, `auto_scan_request_while_busy`, `hInDlg`, `pRdc->pPlayer`, `hMenu`, the Refresh button, the selection | refresh, stop, timer, Auto Scan on/off, delay, select, rename, close; the steps of a scan thread | one scan at a time; the pointers the handlers use are to finished games; auto scan goes on while it is on; a close closes; the idle window offers Refresh |
| **Lobby list parser** (`bzccnet.c`: `parse_data`) | parser state, nesting, `name`/`value` buffers, slots | one byte; end of stream; read error | no array is left whatever arrives; every scalar of a list is delivered once, in order, under its indexes, and whole if it fits |
| **Scan source** (`bzccnet.c`: `ScanHTTP`, `ScanFile`) | socket, address list, WinSock, file | resolve, connect, send, read | a scan ends when its calls do, with nothing held; a stopped one fails |
| **Session table** (`bzccscanner.c`: `ProcessSessionInfo`, `ScanThread`) | `gameinfo`, `gameinfo_prev`, the scan counters, `scan_game`, `scan_player` | a key and value; the terminal call | rows, status bar and notifications match the lists, also after cut-off scans; no array is left |
| **Nickname table** (`bzcchtable.c`) | a linked list on the heap with a first and a last pointer | find, new, set, delete, free | answers what was last set |
| **Player list and nicknames** (`bzccscanner.c`: `UpdatePlayerList`, rename) | `local_name` of players, the table, the registry | import, save, rename, delete, restart | a player is shown as the user named it, also after a restart; saving automatically destroys nothing |
| **Settings** (`bzccsettings.c`) | registry values | load, save, delete | what is loaded is what was saved |
| **Sorting** (`CompareFunc`) | `last_col_sort_index`, `reverse_sort` | compare two games | an order |
| **Text helpers** (`split_raw_mod_ids`, `b64decodeW`, `UserIDIsValid`, CRC32) | none | pure | bounds, and what they decode |
| **Notifications and tray** | `minimized`, `pTray` | balloon on a change | one per change |
| **Windows and layout** | column widths, window size | create, resize | — |

**Interaction.** Two kinds of thread share one `WindowControls` with no lock.
The UI thread runs the handlers; a scan thread runs `ScanThread` →
`ScanHTTP`/`ScanFile` → `parse_data` → `ProcessSessionInfo` (a callback, for
each key and value, and once more at the end) → `EndScan`. The scan thread
writes shared fields directly, and changes windows by sending messages to them,
which the UI thread delivers only while it retrieves messages. `BeginScan` and
the Stop branch test and set the same fields on the UI thread. The timer's
message is handled as a press of the Refresh button. The rename dialog and the
selection hold pointers into the table that a scan thread fills.

**What is hard.** The interleavings of `EndScan` with the handlers (its tail
runs while the next scan begins; `hScan` is assigned after the thread it names
has started); stopping, closing and timing out against a scan that is ending by
itself; message boxes that let other messages in halfway through a handler;
pointers kept across scans; arbitrary bytes from the network in a hand-written
parser with fall-through between its states; a linked list whose last pointer
dangles. `PROJECT.json` lists each of these under "hazards" at its line, with
the properties that cover it.

## Modules

### `ScanLifecycle`, `MCScanLifecycle`, `MCScanUsers`

The UI thread and any number of scan threads. An access to a field that the other
kind of thread writes, or reads what this one writes, is a step of its own:
`BeginScan` is `BeginScan` (the test of `timer_id` and `KillTimer`),
`BeginForgetsTimer` (`timer_id = 0` and what follows, up to `CreateThread`),
`ThreadCreated`, `AssignHandle`, `UiReadsMenu`, `UiAppendsMenu`; `EndScan` is the
eleven `End...` actions; `WM_CLOSE` is `UserCloses` (its first test), `CloseStopsScan`,
`CloseSetsQuitting`, or `CloseWaits` and `WaitReturns`; `ToggleAutoScan` and
`TimerDeferred` end with a step `TimerForgotten`, the `timer_id = 0` that follows
their `KillTimer`.

Accesses are merged into one action only where the other thread's steps commute with
one of them. `EndScan` writes `timer_id` and the timer too (583), but only ever sets
them, as the UI thread's own `SetTimer` does, so its steps between the two halves of that
(`SetTimer`, `ApplyDelay`, `CloseRename`) change nothing. The test of `timer_id` and the
`KillTimer` after it are merged: `EndScan` may set the field between them, but `KillTimer`
is then called with the id it finds, as if the test had come later; and a test that fails
is followed by nothing. Handlers that touch only what the UI thread owns are
one action each (`SelectGame`, `OpenRename`, ...).

`ui` says where the UI thread is; in `"loop"` it retrieves messages, and only
then does a step of a scan thread that sends one take place (`UiPumps`): a row
inserted, a button changed, an error box opened and dismissed, the `WM_CLOSE` of
`EndScan`. `armed` is the timer in the window manager, `timer_id` the field that
`KillTimer` is given: `EndScan` sets the one before the other. `hMenu` is the set of
scan entries in the tray menu, because two threads can rebuild it at once and
leave more than one in it. `gameinfo` keeps, for each slot, whether it is empty, being filled
or done; `hGameList` the slots that are listed; the selection is a slot. The
fetch and the parse are abstracted to the order of callbacks: a game begins, it
gets its last key (or not), the scan completes, fails or is cancelled.

Abstractions: at most `Threads` scan threads exist at once (`ThreadAvailable`);
a `WM_TIMER` that is already in the queue when the timer is killed is not
delivered; `CompareFunc`'s sort and the status bar are left out; the tray menu
pops up and sends in one step, also while the rename dialog is open, because the
tray icon is not disabled; with the error box of a scan up the model lets the
user use the main window (the code sometimes does). `SetTimer` for a window of
another thread (`EndScan`) is taken to work as it does for one's own.

### `NickTable`, `NickMap`, `MCNickTable`

`bzcchtable.c` block by block. The heap is a function from addresses to blocks,
a freed block keeps its content until it is given out again, and the allocator may
return any free block or fail. That is what it takes to say what `HT_Delete`
does: its statement `ht->last;` is no assignment, so `ht->last` goes on
pointing at the freed entry, and the next `HT_New` writes its link there.
`wanted` is auxiliary: the nickname each CRC was last given. `CalcCRC32` is a
constant function, so collisions are a choice of the instance. `Import` is what
`UpdatePlayerList` does when a lookup fails.

`NickMap` is the abstract specification. With `Lossy = FALSE` it is the map
`bzcchtable.h` describes; with `Lossy = TRUE` a cache: a nickname may be dropped
when it is added, but an answer is never stale and no operation disturbs
another entry. `NickTable` implements the second (`IsCache`), under the mapping of `map` to
the lookups, and not the first (`IsReliable`).

### `LobbyParser`, `LobbyDocument`

`parse_data`, one action per byte. A byte is its class (bracket, quote,
white space, ...), a buffer its length: the parser's control depends on nothing
else. The states that fall through to `EXPECT_NEXT` in the code call `ExpectNext`
here. `Deliver` is the callback, called at depth 3 (a game) and 5 (a player);
`Stopped` is a callback that returns non-zero. `json_len` and `content_length`
are one variable, the bytes that remain, which is all their comparison tells.
`is_array` starts `"UNSET"`, as the array does. `copies` is what `strncpy` makes of
`name` and `value` for the callback: `key_str` (32 bytes) and `value_str` (512) are shorter than
the buffers (1024), and a longer text is cut and not terminated. Where `recv` cuts the stream is
left out: all state is kept across buffers.

`LobbyParser` reads arbitrary bytes. `LobbyDocument` adds the writer of a lobby
list: it writes, one byte at a time and in every order its grammar allows,

    { "GET" : [ {game}, ... ] }    a game: scalars and lists of players; a player: scalars

with white space between tokens, keys and values of any length and any escape sequence in a
quoted value; and it knows the length of the key and value it has just completed. Keys have no escape
sequences, which `parse_data` does not know there, and bare values only the characters of
`is_word_char`, as numbers and literals have. The
parser reads each byte as it is written, and the writing ends where the parser fails:
`ListAccepted` says that this happens at a key or value of `GENERIC_BUFLEN` bytes or more and at an escape
sequence other than `\"`, `\\`, `\r`, `\n`, `\t` (`\/`, `\b`, `\f`, `\u` are refused, 315-317), and
at no other byte of a list. `PairsDelivered` says that a scalar is handed over complete when it is shorter
than its copy, and else how much of it. The writer is external (the lobby
server; `src/lobbyServer` is one of its lists).

A stream may also be `NoList`: arbitrary bytes, with or without an HTTP header, which only the
parser's own properties are about.

### `ScanSource`

`ScanHTTP` and `ScanFile`: every path from opening the connection or the file to the
terminal callback, with the resources held. `parse_data` is known by its calls
and its result. A blocking socket takes a request this short whole, so the loop
around `send` is one step. (Were it to take a part, the loop would not end: its
counter is the last result and not a sum.)

### `SessionTable`

`ProcessSessionInfo` and what surrounds its calls. A call is one action, with
four cases: `Refuse` (cancelled, out of range, skipped a game), `SkipsPlayer`,
`PlayerPair`, `ServerPair`; the last includes listing the game
(`GameInfoToRow`), the notification, the sort and the status bar
(`ServerLast`). `ScanThread` copies the table and resets the counters;
`TerminalCall` is the terminal call: the comparison of the two tables and
`EndScan`, which lets the next scan begin. After an error that is not the user's doing
it is `ErrorBox` first: the scan thread waits in `MessageBox`, while the window, the timer
and the tray menu go on, until the user answers (`DismissBox`). Of the user, what touches this state: `StopScan`,
`SelectGame`, `SelectPlayer`, `ColumnClick`, `ApplyHost`.

`scan_game` and `scan_player` are slots; `selected` is `pSelectedPlayerInfo`, with
a memory of whether one was ever selected in this scan. A CRC32 stands for what it
is the CRC of, and `NULL` for 0: collisions are assumed away. A nickname is the text that
`b64decodeW` makes of it (303-306), which 245 compares: whatever cannot be decoded, or is too long,
is one and the same text there, so one name here. Of the keys, those are
told apart that something depends on ("g", "pm", "i" and a player's "n"). `told` is the set of calls of the `Notify...`
functions (a call made twice is not told apart); `NotifyGameOpen` and the case `GAME_QUIT` show nothing yet, the others a
balloon while the window is minimized. `SortItems` gives the rows any order:
`CompareFunc` compares a column by a difference that may overflow, or by texts.

Calls come in the order that `DeliveredInOrder` of `LobbyParser` says, and are otherwise
arbitrary: `SessionTable` alone is what is proved about, for any list.

### `LobbyScan`, `MCLobbyScan`

The composition: `ScanSource` (through `INSTANCE`, sharing `stopped`) makes the
calls, `SessionTable` answers them, and a writer (external, the lobby server)
decides on the list as it is read: games with or without a "g" and in
any number, players with an id and a nickname, empty objects, and the end of the stream
anywhere. That `parse_data` turns the text of such a list into these calls is what
`PairsDelivered` and `DeliveredInOrder` show of the parser. `list` is the list as
written, `list_prev` that of the scan before, `whole` whether a table is that of a
whole list; the properties compare the table, the rows, the status bar and the
notifications with them. `ImplementsTable` is the refinement: hidden writer and source, a
whole scan is a behaviour of `SessionTable`.

### `NickStore`, `MCNickStore`

Nicknames from the rename dialog to the registry and back. `UpdatePlayerList` is a
loop with a step per player (`ListPlayer`: `FromTable`, `FromRegistry`,
`AutoSave` or `NoNick`), which any failing list box insertion may end; `Submit` is the
rename dialog's OK or Delete with its check of the id; `Restart` is a crash or an exit at any
step, also in the middle of the loop, after which only `nicks` and
`stored` are left. The nickname table is `NickMap` with `Lossy = TRUE`, which is
what `NickTable` implements. `due` and `unsaved` are auxiliary: what the user last asked
for, and the ids for which a write failed.

The registry is modelled by what `bzccsettings.c` makes of it: names are stored without
their terminator, Windows stores the one that follows the data, and an empty name
as no bytes at all; `out_len` counts characters and is passed as bytes, so that a
name of 32 characters or more cannot be read back; the result of a value of no bytes is
0xFFFFFFFF and not 0. Writes and deletions may fail, reads do not. Ids have different
CRCs. Nicknames of the empty id, which `UserIDIsValid` accepts, are written under the
empty name and never read.

### `ScanLifecycleProofs`, `NickTableProofs`, `LobbyParserProofs`, `SessionTableProofs`, `LobbyScanProofs`, `LobbyListProofs`, `NickStoreProofs`

Theorems and proofs, see [below](#proofs).

## Runs

All runs are exhaustive for their constants.

| Run | Checks | Instance |
|---|---|---|
| `ScanLifecycleSafety` | type, `SingleScanner`, `HScanMeansScanning`, `SelectionListed`, `QuiescentUi`, `DialogTargetStable` | 2 threads, 2 games, failing `CreateThread`, every user action; 7.6 million states |
| `ScanLifecycleLiveness` | `AutoScanNotLost`, `AutoScanRecurs`, `StopEnds`, `AutoScanSettles`, `SecondCloseExits` | 1 game, 2 threads, three users, fair; 280,000 states |
| `NickTableCache` | type, `WalkIsSafe`, `IsCache` | 3 ids with distinct CRCs, 2 nicknames, 3 blocks, failing allocations |
| `LobbyStream` | type, `NestingInBounds`, `BuffersTerminated`, `DeliveredInOrder`, `PairsDelivered`, `ListAccepted` | lists of 2 games with 2 players, and arbitrary bytes; full `MAX_DEPTH`, buffers of 3, copies of 1 and 2; 1.0 million states |
| `LobbyScan` | types, `TableInBounds`, `NothingHeld`, `RowsMatchList`, `ChangesAreTold`, `NoFalseNews`, `StatusMatches`, `StoppedScanFails`, `ImplementsTable`, `AcceptsLists`, `EveryScanEnds` | 2 scans, 2 games, 3 player slots, 5 objects in all, every user action, fair; 1.06 million states |
| `NickStore` | type, `ShownAsGiven`, `TableAgreesWithRegistry`, `AutoSaveYields` | 2 ids and the empty one, 3 names, 10 lists of players, failing writes, restarts; 910,000 states |
| `ScanLifecycleStaleHandle`, `ScanLifecycleLostClose`, `ScanLifecycleLostTimer`, `ScanLifecycleRenameTail`, `NickTableLost`, `LobbyDocumentLast` | one property each that the code violates, [see below](#what-the-code-does-that-its-comments-do-not-say) | |

What the properties say is stated above each in its module.

**Bounds, and why they are enough.**
Two threads are what it takes for the tail of one `EndScan` to meet the next scan. A
third, for two old threads in their tails at once, is covered by the proofs
of everything but the liveness properties. One game makes the list non-empty;
two make a selection change and the slot being filled differ from the one
selected. Three blocks are a list with a first, a middle and a last entry, and
leave a freed block to be reused or not; lost entries use blocks up, and an
allocation that finds none is a step that does not happen. `MAX_DEPTH` is the code's.
`GENERIC_BUFLEN = 3` lets a buffer be empty, partly filled and full, and
`KEY_SIZE = 1` and `VALUE_SIZE = 2` below it a key that is never terminated unless empty, and a
value that fits or is cut; the proofs cover every size. `MaxLength` (Content-Length) of 2 reaches its end in
every parser state on arbitrary bytes; `MaxListLength` of 24, within a list that has a game with
a player. `MaxSlots` bounds how many objects of a level may be closed: the
parser only counts them.
In `LobbyScan` two scans are what a comparison takes (the table before the
first is empty, which is a third case of it), and the first may be cut off anywhere. Five objects
(`MaxObjects`, games and players of both lists together) are a full game with two players
that is seen again with one of them; a game of three fills `MAX_PLAYERS = 3`, and a third object of
the list goes beyond `MAX_SERVERS = 2`. One id and games without one can be compared with
each other; two players, one with two nicknames, join, leave and are renamed. Two
addresses (`MaxAddrs`) are a first and a last. The proofs have none of these bounds.
In `NickStore` the names are the empty one, a short one and the shortest that cannot be
read back; the lists have each player alone, pairs, and one id twice. The proofs allow
any.

**Fairness.** `Fairness` in `ScanLifecycle` assumes of Windows what it does: a
thread that can run does; network calls end, `recv` by `SO_RCVTIMEO` and
`connect` by its own limit; a message that was sent is delivered if the UI
thread goes on retrieving messages (strong fairness of `ThreadSends`: the UI
thread is busy in between); the window manager goes on posting `WM_TIMER` while
the timer is set (strong fairness of `TimerFires`, for the same reason). It
assumes nothing of the user: an error box may stay for ever, and the
properties say what holds if it does not. One exception: after a quit message
the security box closes, because the box's own loop sees that message.
That "network calls end" hides an assumption: `SO_RCVTIMEO` limits one `recv`, and
`iContinueScan` is read only in the callback, so a host that sends white space now and then
holds a scan, stopped or not, for ever. `StopEnds` and `AutoScanRecurs` assume that no
host does.

`LobbyScan` does not assume it. Weak fairness of `Thread` holds there only outside
`Reading`, the states in which `parse_data` reads on: the scan thread runs, and its other calls into
the system return. `EveryScanEnds` states the rest as conditions: a scan ends if the host does not
keep `parse_data` reading for ever, and if the user answers every error box.
`MaxObjects` bounds the lists and not the time they take: the fairness lets a scan stay in
`parse_data` for ever, whatever has been written.

All that a user can do, times two overlapping scans, is beyond a liveness check (2.2 million
states with one game). `MCScanUsers` has three users instead, one of whom is chosen at the start: one does
everything, but scans do not overlap; one
refreshes, stops and changes the Auto Scan preferences, with overlapping scans; one refreshes, stops
and quits likewise, with Auto Scan off. The fairness is that of `ScanLifecycle`. `AutoScanNotLost` is
checked here too, and proved for all of `ScanLifecycle`.

`EmptyScans = FALSE` says that a scan that completes has listed a game, which
makes it send a message, and so wait for the UI thread to return from
`BeginScan`. Without it `HScanMeansScanning` fails (`ScanLifecycleStaleHandle`),
and with it, after that, auto scan. `CreateThreadFails = FALSE` likewise in
`ScanLifecycleLiveness`: after a failure `BeginScan` leaves auto scan without a timer.

## Proofs

TLAPS proves these for every value of the constants that the modules'
assumptions allow. With them every invariant of a passing run is also a theorem,
but for those of `LobbyDocument`.

`ScanLifecycleProofs` (any set of threads, any `MAX_SERVERS`):

- `TypeCorrect`, `OneScanAtATime`, `SelectionIsListed`, `DialogTargetIsStable`:
  from one inductive invariant `IndInv`. `SingleScanner` alone is not
  inductive: that no thread scans when `BeginScan` creates one is known only
  through `hScan`, which the handler tested some steps earlier and which is
  assigned after the thread has started. `HandleInv` says that a thread that
  scans is the one in `hScan`, or the one just created whose handle is about to
  be assigned, and that `hScan` is `NULL` while `BeginScan` creates one. `ListInv` adds to
  `SelectionListed` that the list is empty from `BeginScan` until the thread has reset the
  counters, stays within the slots filled since, and holds the dialog's game. It
  needs `HandleInv`, because another thread in that code would rewrite a listed
  slot. `DialogTargetIsStable` follows: the dialog's game is
  listed, so it is done, and a step that writes a slot writes one that is being
  filled or lies beyond the listed ones.
- `AutoScanIsNotLost` assumes `CreateThreadFails = FALSE`, and is inductive
  by itself given the types.
- `QuiescentUiIsRight`, from `UiInv`: whoever puts the button or the tray menu into another
  state than that of Refresh leaves someone behind who will undo it, a scan in `hScan` or a thread in
  the tail of `EndScan`, and a scan turns from the one into the other unseen
  by none of the two (`ButtonInv`). Two threads may rebuild the menu at once; `MenuInv` is the
  weaker statement that an entry on its way says Refresh, whichever menu it arrives in.
- `HandleIsLive` assumes `EmptyScans = FALSE`, with `AssignInv`: until the handle
  is assigned, its thread has not got past its first row, because a row waits for the UI thread.

`NickTableProofs` (any number of ids, CRCs and blocks, any `CalcCRC32`): `TableTypeCorrect`,
`WalkAlwaysSafe`, `TableImplementsCache`. The invariant says that there is a list: a
sequence of allocated blocks with different CRCs, from `ht->first`, each pointing to the next
(`Chain`). It holds in spite of the pointer that `HT_Delete` leaves behind, because
`ht->last` may be any block (freed, or given out again) except one in the middle of the list,
so that the link `HT_New` writes there never cuts the list: at worst it is the new
entry that is not in it. With `Chain` a lookup is the entry of the list with that CRC
(`Answers`), and each operation is one of the cache's. What the walk computes, a recursive
function, is shown by exhibiting the list as a function that satisfies
its equation and looking at the least place where another would differ.

`LobbyParserProofs` (any stream, `MAX_DEPTH >= 2`, any `GENERIC_BUFLEN >= 2`):
`NestingIsInBounds`, `BuffersAreTerminated`, `ParserTypeCorrect` from `ParseInv`,
which says what each parser state knows of `depth`, `is_array`, the quote and
the buffers (a value is empty when one is expected, which is why the unchecked
store of its first byte is safe); `DeliveryIsInOrder` with `CallInv`, which
orders the slots and the last call; `RemainingInv` is the range of `remaining`. That the copies handed over
are complete or cut is left to `PairsDelivered`, which TLC checks.

`SessionTableProofs` (any `MAX_SERVERS`, `MAX_PLAYERS`, any calls in order):
`TableTypeCorrect`, `TableStaysInBounds`. The bound on `player_count` is the hard part:
nothing in `ProcessSessionInfo` compares it with anything. `CursorInv` ties `scan_game` and
`scan_player` to the counters, `CallInv` the counters to the indexes of the last
call, and `FillInv` says that once a game has counted all players begun, the
last call has closed the block of the last of them: the order of the calls then makes the
next player to be counted a new one, so the count stays below the
players begun, which `Refused` bounds.

`LobbyScanProofs` (any number of scans, addresses and objects): `ScanImplementsTable`, a
step simulation. A step of the source or the writer is a stutter of `SessionTable` or a
call; that the call is in order (`InOrder`) needs `OrderInv`, which compares the last call
with where the writer is, and `DocInv`, its types. `ScanStaysInBounds` is then `TableStaysInBounds`.
`NothingIsLeftBehind` and `StoppedScansFail` follow from `HeldInv`, what each `pc` of
the source holds, and `StopInv`; `ScanTypeCorrect` from these, `TableTypeCorrect` and `SourceInv`,
by which the list of addresses is not left.

`LobbyListProofs` (any lists, any size of the table, any number of scans): `RowsShowGames`,
`StatusIsRight`, `NewsIsTrue`, `NewsIsWhole`, `ListsAreAccepted`. `MatchInv` relates the
table to the list as it is written, and each part is there for a reason:

- `ListInv`: no two games written have one identifier, no two players of a game one id. Else
  `FindGame` and `FindPlayer` would find the first of them.
- `RowsInv` is `RowsMatchList` without its second half. It is kept by a call for the next game
  because of `CurrentInv`: as long as no call was refused, the game being filled is the last of
  the list, the player being filled the one being written (`FillsThis`), and the games before are
  listed, once each.
- `HoldsInv` is what is left after a call was refused: the table has the beginnings of
  the games that were reached, which is what a cut-off scan is compared by.
- `PrevInv`: after a whole scan, `gameinfo_prev` is the list before. It holds because a scan
  that ends as complete was never refused (`StoppedScanFails` again) and read its list to the end.
- `ToldInv`: what has been told is the notices of the rows and, after the terminal call, of the
  comparison. Between two scans, when the counter has not yet been reset, it carries `NoFalseNews` over.
- `StatusInv`: the count of players is the sum of those of the listed games.

The news are then compared one by one: `GameNoticesAre` and `ComparisonIs` say what the code
tells of a game in terms of the lists, `ChangesAre` and `PlayerNewsAre` what has changed
between them. They assume of `NULL`, as `SessionTable` does, that it is not a record of the table
(`RecordAssumption`). Sums over lists and the first match in an array are again by least
numbers. `ListsAreAccepted` is an action property: `CurrentInv` says of a call at
which index it is made and how far the table is.

`NickStoreProofs` (any ids, names, lengths, lists): `NicknamesAreShown`, `TableIsACache`,
`AutoSaveIsPolite`, `StoreTypeCorrect`. `TableIsACache` compares the table with `LoadNick`: a
name of 1 to 31 characters is what a restart finds, a longer one is in the registry and not
found; a value of no bytes and ids with a failed write are excepted. `StoreInv` says that the table answers what the
registry has, and that the registry has what is due, for every id without a failed
write; `PlayerInv` that a player of the list is already shown right, or has no nickname yet and
will be looked up when the loop gets there. `ShownAsGiven` is what
these leave when the loop is done. `NickStore` uses the nickname table by `NickMap`; that
`NickTable` implements it is `TableImplementsCache`.

Only model-checked: everything temporal under fairness (liveness is out of TLAPS's reach:
`AutoScanRecurs`, `StopEnds`, `AutoScanSettles`, `SecondCloseExits`, `EveryScanEnds`), and
`PairsDelivered` and `ListAccepted` of `LobbyDocument`, which relate the bytes
the writer has written to each state of the parser.

## What the code does that its comments do not say

Each of these is a run that TLC finds violated, with the behaviour in its trace.

- **A stale scan handle** (`ScanLifecycleStaleHandle`, `bzccscanner.c:625`). A
  scan thread that sends no message can finish `EndScan` before `hScan` is
  assigned. From then on every refresh finds a scan to stop ("Already scanning").
- **A forgotten close** (`ScanLifecycleLostClose`, `bzccscanner.c:1493`). `WM_CLOSE`
  leaves the close to `EndScan`, which may have tested `quitting` just before.
- **A timer without an id** (`ScanLifecycleLostTimer`, `bzccscanner.c:967`). Auto Scan is switched
  off while an `EndScan` is past its test of `auto_scan`: `KillTimer`, then `EndScan` sets the timer and
  `timer_id`, then `timer_id = 0`. The timer fires for ever, and no later `BeginScan` kills it, because
  each tests `timer_id`; only switching Auto Scan on again finds it. `AutoScanSettles` shows
  that this is the only way for it to go on.
- **The rename's tail** (`ScanLifecycleRenameTail`, `bzccscanner.c:1198`). The
  security box lets a refresh empty the list before the handler goes on to use
  the selected game.
- **The last entry of the nickname table** (`NickTableLost`,
  `bzcchtable.c:167`). The no-op statement; the entry added next is lost, so the
  nickname is looked up in the registry again each time.
- **`KVI_STATUS_LAST`** (`LobbyDocumentLast`, `bzccnet.c:259`). It is given to a
  bare value before `}` only. A player whose last member is a string is not
  counted, a game whose last member is one is not listed.

Further divergences that the models have and the properties name as exceptions:

- "0-length strings always return 0" (`bzccsettings.h:18`): a value of no bytes makes
  `_LoadSettingString` return 0xFFFFFFFF (line 101), and `UpdatePlayerList` takes what its
  buffer held for the nickname (`LoadNick` of `NickStore`).
- `out_len` (`bzccsettings.c:71`): nicknames of 32 to 63 characters, which the dialog
  accepts, are saved and never found again; automatic saving replaces them
  (`Readable` in `ShownAsGiven`, the `Fits` of `AutoSaveYields` and `TableAgreesWithRegistry`). Until
  the program ends the table still answers them.
- A key of 32 bytes or more, or a value of 512, reaches the callback cut and without a terminator
  (`bzccnet.c:262`, `HandedOver` in `PairsDelivered`).
- A list with an escape sequence that JSON has and `parse_data` does not (`\/`, `\b`, `\f`, `\u`), or with a text
  of 1024 bytes, fails as a whole (`ListAccepted`).
- Deleting a nickname means "always use ingame nick" (`bzccscanner.c:1183`); with automatic
  saving on, the `UpdatePlayerList` that follows saves the name in the game as the nickname.
- Ids are checked before they name a registry value (comment at 1179), but not by automatic saving (529).
- A game of exactly `MAX_PLAYERS` players whose own scalars follow its players is refused as
  out of range (266), and the scan ends there (`AcceptsLists`).
- An object without scalars takes an index: the next object is refused as skipped over (272).
- After an empty list the status bar goes on showing the number of games of the scan before
  (650); it counts no players of games listed while a player is selected (`StatusMatches`).
- A cancelled, failed or cut-off scan calls the games it has not reached closed, and the
  players it has not reached gone; they are new again with the next scan (`NoFalseNews`).
- Games without a "g" share the identifier 0 and are compared with one another.

Also as the models have it, but with no comment that says otherwise: a timer set
while a scan runs stops that scan; the wait of the second `WM_CLOSE` always runs
to its limit when the scan thread is sending a message (the UI thread that
waits is the one to deliver it); a stream cut off in the middle ends as `KVI_STATUS_COMPLETE`;
after a failed `CreateThread` auto scan does not resume; with a stale handle, a
timer that was set goes on firing, to no effect.

## Not modelled

- The order that `CompareFunc` gives the rows, and the settings of a sort: rows may
  come in any order (its integer comparison overflows, its texts are data).
- `split_raw_mod_ids`: text turned into text that is only shown. `b64decodeW` as a computation: a
  nickname is known by its result. CRC32 as a
  computation: an arbitrary function in `NickTable`, without collisions elsewhere.
- What `ProcessSessionInfo` reads beyond a key or value that was cut without a terminator (undefined).
- The type of a game: `GetGameTypeDescription` follows a null pointer for a type above 2
  (155-157).
- Notifications beyond the calls: `minimized`, the texts, the tray icon.
- Settings other than nicknames and `AUTO_CREATE_NICKS`: each is one value, saved by its
  handler and read at the start. Reads that fail: a failed read looks like a
  missing nickname, and automatic saving would replace it (`AutoSaveYields` would not hold). `_LoadSettingDWORD` does not close
  the key of a missing value (35-40).
- Which host is scanned: the preferences write its name, port and file while a scan thread
  may be reading them (993, 705-707).
- `use_local_names`, which decides which of two names is shown.
- The construction and layout of windows (no state that other parts depend on), what a
  scan thread does after `WinMain` has returned (undefined), formatting of texts, build files.

## Plan

1. Done: the lifecycle, the parser with the writer of lists, the sources, the session table,
   whole scans, the nickname table and the store, and the proofs above.
2. To prove next: `PairsDelivered` and `ListAccepted`, with an invariant that gives, for
   each position of the writer in its list, the parser's state, depth and buffers.
3. To model, if they grow beyond data: `CompareFunc` on 32-bit integers,
   `split_raw_mod_ids`, failing reads of the registry.

Runs are kept few: where a module composes others, its run takes over their
properties, as `LobbyScan` and `LobbyStream` do.
