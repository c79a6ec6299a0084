----------------------------- MODULE SessionTable -----------------------------
(***************************************************************************)
(* ProcessSessionInfo and ScanThread (bzccscanner.c): the callback that    *)
(* turns the keys and values of a lobby list into the table of games, and  *)
(* compares the table with that of the scan before.                        *)
(*                                                                         *)
(* Calls arrive in the order parse_data makes them (DeliveredInOrder of    *)
(* LobbyParser) and are otherwise arbitrary here. A CRC32 is known by what *)
(* it is the CRC of; one that was never computed is 0 in the code and NULL *)
(* here. A nickname is known by what b64decodeW makes of it: all that do   *)
(* not decode, or are too long, are the one name "B64 DECODE ERROR". Of    *)
(* the keys, those that something depends on are told apart.               *)
(***************************************************************************)
EXTENDS Integers, Sequences, FiniteSetsExt

CONSTANTS
    MAX_SERVERS, MAX_PLAYERS,
    Ids, Users, Names,   \* values of "g", of "i", and of a player's "n"
    Limits,              \* values of "pm"
    NULL

ASSUME TableAssumption ==
    /\ MAX_SERVERS \in Nat \ {0} /\ MAX_PLAYERS \in Nat \ {0}
    /\ Limits \subseteq Nat
    /\ NULL \notin Nat /\ NULL \notin Nat \X Nat /\ NULL \notin Ids \cup Users

VARIABLES
    gameinfo, scan_count_servers, scan_count_players,
    scan_game,       \* the game being filled: a slot or NULL
    scan_player,     \* the player being filled: slots of game and player, or NULL
    gameinfo_prev, gameinfo_prev_count,
    phase,           \* no scan, a thread created, a scan, or the error box of one
    iContinueScan,
    selected,        \* pSelectedPlayerInfo: none, none any more, or a player
    hGameList,       \* the games listed, from top to bottom
    total_player_count,
    hStatusBar,      \* the numbers of games and players it shows, or NULL for a player's name
    kvi,             \* the last call
    stopped,         \* did it return non-zero?
    told             \* notifications of this scan: the calls of the Notify... functions, of
                     \* which most show a balloon while the window is minimized

table == <<gameinfo, scan_count_servers, scan_count_players, scan_game, scan_player>>
previous == <<gameinfo_prev, gameinfo_prev_count>>
window == <<selected, hGameList, total_player_count, hStatusBar>>
call == <<kvi, stopped>>
vars == <<table, previous, phase, iContinueScan, window, call, told>>

GameSlots == 0 .. MAX_SERVERS - 1
PlayerSlots == 0 .. MAX_PLAYERS - 1

PlayerInfo == [unique_identifier : Users \cup {NULL}, ingame_name : Names \cup {NULL}]
GameInfo ==
    [unique_identifier : Ids \cup {NULL}, playerlimit : Nat, player_count : Nat,
     playerinfo : [PlayerSlots -> PlayerInfo]]

KeyValueInfo ==
    [status : {"KVI_STATUS_NORMAL", "KVI_STATUS_LAST"}, is_player : BOOLEAN,
     server_index : Nat, player_index : Nat,
     key : {"SERVERKEY_G", "SERVERKEY_PLAYERLIMIT", "PLAYERKEY_USERID", "PLAYERKEY_NAME",
            "other"},
     value : Ids \cup Limits \cup Users \cup Names \cup {NULL}]

ASSUME CallAssumption == NULL \notin KeyValueInfo
ASSUME RecordAssumption == NULL \notin GameInfo /\ NULL \notin PlayerInfo

\* A value is of the kind its key asks for.
WellFormed(k) ==
    /\ k.key = "SERVERKEY_G" => ~k.is_player /\ k.value \in Ids
    /\ k.key = "SERVERKEY_PLAYERLIMIT" => ~k.is_player /\ k.value \in Limits
    /\ k.key = "PLAYERKEY_USERID" => k.is_player /\ k.value \in Users
    /\ k.key = "PLAYERKEY_NAME" => k.is_player /\ k.value \in Names

TypeOK ==
    /\ gameinfo \in [GameSlots -> GameInfo] /\ gameinfo_prev \in [GameSlots -> GameInfo]
    /\ scan_count_servers \in Nat /\ scan_count_players \in Nat
    /\ gameinfo_prev_count \in Nat
    /\ scan_game \in GameSlots \cup {NULL}
    /\ scan_player \in (GameSlots \X PlayerSlots) \cup {NULL}
    /\ phase \in {"idle", "created", "scanning", "failed"}
    /\ iContinueScan \in BOOLEAN /\ stopped \in BOOLEAN
    /\ selected \in {"none", "before", "player"}
    /\ hGameList \in Seq(GameSlots)
    /\ total_player_count \in Nat /\ hStatusBar \in [games : Nat, players : Nat] \cup {NULL}
    /\ kvi \in KeyValueInfo \cup {NULL}

-----------------------------------------------------------------------------
(* The scan around the calls.                                               *)

NewPlayer == [unique_identifier |-> NULL, ingame_name |-> NULL]
NewGame ==
    [unique_identifier |-> NULL, playerlimit |-> 0, player_count |-> 0,
     playerinfo |-> [p \in PlayerSlots |-> NewPlayer]]

\* The status bar shows the table, or the player selected.
SetGeneralStatus == hStatusBar' = [games |-> scan_count_servers', players |-> total_player_count']
SetPlayerStatus == hStatusBar' = NULL

\* Mutant: the players of the scan before are not forgotten.
BeginScan_KeepsTotal ==
    /\ phase = "idle"
    /\ phase' = "created"
    /\ iContinueScan' = TRUE
    /\ selected' = "none" /\ hGameList' = <<>> /\ UNCHANGED total_player_count
    /\ UNCHANGED <<table, previous, call, told>>
    /\ SetGeneralStatus

\* The status bar shows the number of games of the scan before until the thread
\* has begun to fill the table.
BeginScan ==
    /\ phase = "idle"
    /\ phase' = "created"
    /\ iContinueScan' = TRUE
    /\ selected' = "none" /\ hGameList' = <<>> /\ total_player_count' = 0
    /\ UNCHANGED <<table, previous, call, told>>
    /\ SetGeneralStatus

\* Mutant: the counter is reset before it is copied.
ScanThread_CountsLate ==
    /\ phase = "created"
    /\ phase' = "scanning"
    /\ scan_count_servers' = 0 /\ scan_count_players' = 0
    /\ gameinfo_prev' = gameinfo /\ gameinfo_prev_count' = scan_count_servers'
    /\ kvi' = NULL /\ stopped' = FALSE /\ told' = {}
    /\ UNCHANGED <<gameinfo, scan_game, scan_player, iContinueScan, window>>

ScanThread ==
    /\ phase = "created"
    /\ phase' = "scanning"
    /\ gameinfo_prev' = gameinfo /\ gameinfo_prev_count' = scan_count_servers
    /\ scan_count_servers' = 0 /\ scan_count_players' = 0
    /\ kvi' = NULL /\ stopped' = FALSE /\ told' = {}
    /\ UNCHANGED <<gameinfo, scan_game, scan_player, iContinueScan, window>>

StopScan ==
    /\ phase # "idle" /\ iContinueScan
    /\ iContinueScan' = FALSE
    /\ UNCHANGED <<table, previous, phase, window, call, told>>

\* A player of a listed game is selected and shown in the status bar, or none is
\* (LB_ERR).
SelectPlayer ==
    /\ \E s \in DOMAIN hGameList : gameinfo[hGameList[s]].player_count > 0
    /\ \/ selected' = "player" /\ SetPlayerStatus
       \/ selected = "player" /\ selected' = "before" /\ UNCHANGED hStatusBar
    /\ UNCHANGED <<hGameList, total_player_count, table, previous, phase, iContinueScan, call, told>>

\* A new row is the first.
GameInfoToRow(rows, game) == <<game>> \o rows

\* ListView_SortItems gives the rows any order. CompareFunc compares a column by
\* a difference of integers that may overflow, or by texts that are not modelled
\* here: it need not be an order, and equal rows have none.
SortItems(rows) ==
    LET Positions == DOMAIN rows
        Orders == {order \in [Positions -> Positions] :
                      \A p \in Positions : \E q \in Positions : order[q] = p}
    IN {[p \in Positions |-> rows[order[p]]] : order \in Orders}

\* The user sorts by a column, also while the scan thread adds rows.
ColumnClick ==
    /\ hGameList' \in SortItems(hGameList)
    /\ UNCHANGED <<selected, total_player_count, hStatusBar>>
    /\ UNCHANGED <<table, previous, phase, iContinueScan, call, told>>

\* Another game is selected, and no player of it.
SelectGame ==
    /\ hGameList # <<>> /\ (selected = "player" => Len(hGameList) > 1)
    /\ selected' = IF selected = "none" THEN "none" ELSE "before"
    /\ UNCHANGED <<hGameList, total_player_count, table, previous, phase, iContinueScan, call, told>>
    /\ SetGeneralStatus

\* Another host, port or file is applied in the preferences: the status bar is
\* written again.
ApplyHost ==
    /\ selected # "player"
    /\ UNCHANGED <<selected, hGameList, total_player_count, table, previous, phase, iContinueScan,
                   call, told>>
    /\ SetGeneralStatus

-----------------------------------------------------------------------------
(* ProcessSessionInfo called with a key and a value.                        *)

\* parse_data calls in the order of the list, and not again for a block after
\* its last.
Before(k, l) ==
    \/ k.server_index < l.server_index
    \/ k.server_index = l.server_index /\ k.player_index < l.player_index

InOrder(k) ==
    kvi # NULL =>
        /\ ~Before(k, kvi)
        /\ kvi.status = "KVI_STATUS_LAST" => Before(kvi, k)

EndsBlock(k) == k.status = "KVI_STATUS_LAST"

\* Mutant: one slot too many.
Refused_OneTooMany(k) ==
    \/ ~iContinueScan
    \/ k.server_index > MAX_SERVERS \/ k.player_index >= MAX_PLAYERS
    \/ k.server_index > scan_count_servers

\* Mutant: the last slot of a game is not used.
Refused_OneTooFew(k) ==
    \/ ~iContinueScan
    \/ k.server_index >= MAX_SERVERS \/ k.player_index + 1 >= MAX_PLAYERS
    \/ k.server_index > scan_count_servers

\* Cancelled by the user, "Player or server index out of range.", or "Data skipped
\* over server index.": the call changes nothing.
Refused(k) ==
    \/ ~iContinueScan
    \/ k.server_index >= MAX_SERVERS \/ k.player_index >= MAX_PLAYERS
    \/ k.server_index > scan_count_servers

\* The first call for a game begins it.
NewServer(k) == k.server_index >= scan_count_servers
Game(k) == IF NewServer(k) THEN k.server_index ELSE scan_game
Games_NotCleared(k) == gameinfo   \* Mutant: no ZeroMemory.
Games(k) == IF NewServer(k) THEN [gameinfo EXCEPT ![k.server_index] = NewGame] ELSE gameinfo
Players(k) == IF NewServer(k) THEN 0 ELSE scan_count_players

ServerBegins(k) ==
    /\ scan_count_servers' = IF NewServer(k) THEN scan_count_servers + 1 ELSE scan_count_servers
    /\ scan_game' = Game(k)

Refuse(k) ==
    /\ Refused(k)
    /\ stopped' = TRUE
    /\ UNCHANGED <<table, window, told>>

\* "Data skipped over player index.": the game has begun by then.
SkipsPlayer(k) ==
    /\ ~Refused(k) /\ k.is_player
    /\ k.player_index > Players(k)
    /\ stopped' = TRUE
    /\ ServerBegins(k)
    /\ gameinfo' = Games(k) /\ scan_count_players' = Players(k)
    /\ UNCHANGED <<scan_player, window, told>>

NewPlayerBegins(k) == k.player_index >= Players(k)

\* The name stored is the one decoded; the comparison of two scans reads it.
StorePlayer(player, k) ==
    [player EXCEPT
       !.unique_identifier = IF k.key = "PLAYERKEY_USERID" THEN k.value ELSE @,
       !.ingame_name = IF k.key = "PLAYERKEY_NAME" THEN k.value ELSE @]

\* The first call for a player begins it; the last one makes the game count it.
PlayerPair(k) ==
    /\ ~Refused(k) /\ k.is_player /\ k.player_index <= Players(k)
    /\ ServerBegins(k)
    /\ scan_count_players' = IF NewPlayerBegins(k) THEN Players(k) + 1 ELSE Players(k)
    /\ scan_player' = IF NewPlayerBegins(k) THEN <<Game(k), k.player_index>> ELSE scan_player
    /\ gameinfo' =
         LET g == scan_player'[1]  p == scan_player'[2]
             before == IF NewPlayerBegins(k) THEN NewPlayer ELSE Games(k)[g].playerinfo[p]
         IN [Games(k) EXCEPT ![g].playerinfo[p] = StorePlayer(before, k),
                             ![Game(k)].player_count = IF EndsBlock(k) THEN @ + 1 ELSE @]
    /\ stopped' = FALSE
    /\ UNCHANGED <<window, told>>

StoreGame(game, k) ==
    [game EXCEPT
       !.unique_identifier = IF k.key = "SERVERKEY_G" THEN k.value ELSE @,
       !.playerlimit = IF k.key = "SERVERKEY_PLAYERLIMIT" THEN k.value ELSE @]

\* FindGame and FindPlayer: the first with the identifier.
FindGame(games, count, id) ==
    LET found == {s \in 0 .. count - 1 : games[s].unique_identifier = id}
    IN IF found = {} THEN NULL ELSE games[Min(found)]

\* Mutant: the last player is not looked at.
FindPlayer_NotLast(game, id) ==
    LET found == {p \in 0 .. game.player_count - 2 : game.playerinfo[p].unique_identifier = id}
    IN IF found = {} THEN NULL ELSE game.playerinfo[Min(found)]

FindPlayer(game, id) ==
    LET found == {p \in 0 .. game.player_count - 1 : game.playerinfo[p].unique_identifier = id}
    IN IF found = {} THEN NULL ELSE game.playerinfo[Min(found)]

Full(game) == game.player_count >= game.playerlimit

Notice(action, game, player) ==
    [action |-> action, game |-> game.unique_identifier,
     player |-> IF player = NULL THEN NULL ELSE player.unique_identifier]

\* What a listed game with an identifier is notified as.
GameNotices(game) ==
    LET old == FindGame(gameinfo_prev, gameinfo_prev_count, game.unique_identifier)
    IN IF game.unique_identifier = NULL THEN {}
       ELSE IF old = NULL THEN {Notice("GAME_NEW", game, NULL)}
       ELSE IF Full(old) /\ ~Full(game) THEN {Notice("GAME_OPEN", game, NULL)}
       ELSE {}

\* The last call for a game lists it on top, notifies of it, and may sort the rows.
ServerLast(k) ==
    /\ hGameList' \in SortItems(GameInfoToRow(hGameList, Game(k)))
    /\ told' = told \cup GameNotices(gameinfo'[Game(k)])
    /\ IF selected = "player" THEN UNCHANGED <<total_player_count, hStatusBar>>
       ELSE /\ total_player_count' = total_player_count + Players(k)
            /\ SetGeneralStatus
    /\ UNCHANGED selected

ServerPair(k) ==
    /\ ~Refused(k) /\ ~k.is_player
    /\ ServerBegins(k)
    /\ scan_count_players' = Players(k)
    /\ gameinfo' = [Games(k) EXCEPT ![Game(k)] = StoreGame(@, k)]
    /\ IF EndsBlock(k) THEN ServerLast(k) ELSE UNCHANGED <<window, told>>
    /\ stopped' = FALSE
    /\ UNCHANGED scan_player

ProcessSessionInfo(k) ==
    /\ phase = "scanning"
    /\ kvi' = k
    /\ Refuse(k) \/ SkipsPlayer(k) \/ PlayerPair(k) \/ ServerPair(k)
    /\ UNCHANGED <<previous, phase, iContinueScan>>

-----------------------------------------------------------------------------
(* The terminal call.                                                       *)

\* Who left an old game that is still there, who joined it or changed nick.
PlayerNotices(old, new) ==
    LET Of(game) == {game.playerinfo[p] : p \in 0 .. game.player_count - 1}
        Nick(player) == FindPlayer(old, player.unique_identifier)
    IN {Notice("PLAYER_QUIT", new, player) :
          player \in {q \in Of(old) : FindPlayer(new, q.unique_identifier) = NULL}}
       \cup {Notice("PLAYER_JOINED", new, player) :
          player \in {q \in Of(new) : Nick(q) = NULL}}
       \cup {Notice("PLAYER_CHANGED_NICK", new, player) :
          player \in {q \in Of(new) : Nick(q) # NULL /\ Nick(q).ingame_name # q.ingame_name}}

Comparison(old) ==
    LET new == FindGame(gameinfo, scan_count_servers, old.unique_identifier)
    IN IF new = NULL THEN {Notice("GAME_QUIT", old, NULL)} ELSE PlayerNotices(old, new)

\* The comparison, and EndScan, which lets the next scan begin.
EndScan ==
    /\ told' = told \cup UNION {Comparison(gameinfo_prev[s]) : s \in 0 .. gameinfo_prev_count - 1}
    /\ phase' = "idle"
    /\ UNCHANGED <<table, previous, iContinueScan, window, call>>

\* An error that is not the user's doing is shown in a box first. The scan thread
\* waits in MessageBox, and the window goes on: a timer, the tray menu and the
\* other windows still work.
ErrorBox ==
    /\ phase' = "failed"
    /\ UNCHANGED <<table, previous, iContinueScan, window, call, told>>

TerminalCall(status) ==
    /\ phase = "scanning"
    /\ IF status = "KVI_STATUS_ERROR" /\ iContinueScan THEN ErrorBox ELSE EndScan

\* The user answers the box.
DismissBox == phase = "failed" /\ EndScan

-----------------------------------------------------------------------------
Init ==
    /\ gameinfo = [s \in GameSlots |-> NewGame] /\ gameinfo_prev = gameinfo
    /\ scan_count_servers = 0 /\ scan_count_players = 0 /\ gameinfo_prev_count = 0
    /\ scan_game = NULL /\ scan_player = NULL
    /\ phase = "idle" /\ iContinueScan = FALSE /\ stopped = FALSE
    /\ selected = "none" /\ hGameList = <<>>
    /\ total_player_count = 0 /\ hStatusBar = [games |-> 0, players |-> 0]
    /\ kvi = NULL /\ told = {}

User == StopScan \/ SelectPlayer \/ SelectGame \/ ColumnClick \/ ApplyHost

\* parse_data calls with pairs in order, until it is told to stop.
Pair ==
    /\ ~stopped
    /\ kvi' \in KeyValueInfo /\ WellFormed(kvi') /\ InOrder(kvi')
    /\ ProcessSessionInfo(kvi')

Terminal == \E status \in {"KVI_STATUS_COMPLETE", "KVI_STATUS_ERROR"} : TerminalCall(status)

Next == BeginScan \/ ScanThread \/ User \/ Pair \/ Terminal \/ DismissBox

Spec == Init /\ [][Next]_vars

-----------------------------------------------------------------------------
\* Whatever is listed, and wherever a scan was cut off: the counts with which
\* FindGame, FindPlayer and UpdatePlayerList go through the games and their
\* players, of this scan and of the one before, stay within the arrays.
TableInBounds ==
    /\ scan_count_servers <= MAX_SERVERS /\ gameinfo_prev_count <= MAX_SERVERS
    /\ scan_count_players <= MAX_PLAYERS
    /\ \A s \in GameSlots :
         gameinfo[s].player_count <= MAX_PLAYERS /\ gameinfo_prev[s].player_count <= MAX_PLAYERS
=============================================================================
