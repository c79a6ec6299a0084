------------------------------ MODULE LobbyScan -------------------------------
(***************************************************************************)
(* Whole scans: ScanThread calls ScanHTTP or ScanFile (ScanSource), whose  *)
(* parse_data gives the keys and values of a lobby list, one by one, to    *)
(* ProcessSessionInfo (SessionTable); what it returns stops the source, and *)
(* the source's terminal call ends the scan, or shows its error first.     *)
(*                                                                         *)
(* The list is written as it is read, in every way the lobby server writes *)
(* one: a game is its first pair, its players, and a bare number; a player *)
(* is an id, a nickname and a bare number (external; src/lobbyServer is    *)
(* such a list). An object may also be empty. That parse_data hands over   *)
(* each pair under its indexes, and whole if its key is shorter than 32    *)
(* bytes and its value than 512, is PairsDelivered of LobbyDocument; the   *)
(* values of a list are taken to be so short. What the stream has between  *)
(* two pairs changes nothing here: it is a stuttering step.                *)
(***************************************************************************)
EXTENDS SessionTable, SequencesExt

CONSTANTS
    Accounts,     \* players: an id and a nickname
    MaxAddrs,     \* bound: addresses of the host
    MaxScans,     \* bound: scans
    MaxObjects    \* bound: games and players in their lists

ASSUME ScanAssumption ==
    /\ Accounts \subseteq [user : Users, name : Names]
    /\ MaxAddrs \in Nat \ {0} /\ MaxScans \in Nat /\ MaxObjects \in Nat

VARIABLES
    pc, file, wsa, addrinfo, ptr, sockets, status,   \* the source
    doc,        \* where the writer is
    list,       \* the games it has written
    whole,      \* is the table that of a whole list?
    list_prev, whole_prev,   \* of the scan before
    scans,
    objects     \* games and players written, in all scans

Source == INSTANCE ScanSource

source == <<pc, file, wsa, addrinfo, ptr, sockets, status>>
tableVars == <<table, previous, phase, iContinueScan, window, told>>
writer == <<doc, list, objects>>
history == <<whole, list_prev, whole_prev, scans>>
scanVars == <<vars, source, writer, history>>

-----------------------------------------------------------------------------
(* The writer. doc.servers and doc.players count the objects written so     *)
(* far, empty ones included, which is how parse_data indexes.               *)

NewPair(last, is_player, key, value) ==
    [status |-> IF last THEN "KVI_STATUS_LAST" ELSE "KVI_STATUS_NORMAL",
     is_player |-> is_player, server_index |-> doc.servers, player_index |-> doc.players,
     key |-> key, value |-> value]

\* The pair is parsed, and the callback called.
Call(k) == Source!Data /\ ProcessSessionInfo(k) /\ UNCHANGED history

WithinBound == objects < MaxObjects /\ objects' = objects + 1

this == list[Len(list)]

\* A game begins with its "g", or without one.
WriteGame(id) ==
    /\ doc.at = "list" /\ doc.servers <= MAX_SERVERS /\ WithinBound
    /\ \A g \in DOMAIN list : list[g].id = id => id = NULL
    /\ Call(IF id = NULL THEN NewPair(FALSE, FALSE, "other", NULL)
            ELSE NewPair(FALSE, FALSE, "SERVERKEY_G", id))
    /\ doc' = [doc EXCEPT !.at = "game"]
    /\ list' = Append(list, [id |-> id, limit |-> 0, players |-> <<>>])

WriteUser(player) ==
    /\ doc.at = "game" /\ doc.players < MAX_PLAYERS /\ WithinBound
    /\ \A p \in DOMAIN this.players : this.players[p].user # player.user
    /\ Call(NewPair(FALSE, TRUE, "PLAYERKEY_USERID", player.user))
    /\ doc' = [doc EXCEPT !.at = "user", !.player = player]
    /\ UNCHANGED list

WriteName ==
    /\ doc.at = "user"
    /\ Call(NewPair(FALSE, TRUE, "PLAYERKEY_NAME", doc.player.name))
    /\ UNCHANGED objects
    /\ doc' = [doc EXCEPT !.at = "name"]
    /\ UNCHANGED list

WriteTeam ==
    /\ doc.at = "name"
    /\ Call(NewPair(TRUE, TRUE, "other", NULL))
    /\ UNCHANGED objects
    /\ doc' = [at |-> "game", servers |-> doc.servers, players |-> doc.players + 1,
               player |-> NULL]
    /\ list' = [list EXCEPT ![Len(list)].players = Append(@, doc.player)]

EndGame(limit) ==
    /\ doc.at = "game"
    /\ Call(NewPair(TRUE, FALSE, "SERVERKEY_PLAYERLIMIT", limit))
    /\ UNCHANGED objects
    /\ doc' = [at |-> "list", servers |-> doc.servers + 1, players |-> 0, player |-> NULL]
    /\ list' = [list EXCEPT ![Len(list)].limit = limit]

\* parse_data counts an object without scalars, and makes no call.
WriteEmpty ==
    /\ pc = "parse_data" /\ ~stopped /\ WithinBound
    /\ \/ doc.at = "list" /\ doc.servers < MAX_SERVERS /\ doc' = [doc EXCEPT !.servers = @ + 1]
       \/ doc.at = "game" /\ doc.players < MAX_PLAYERS /\ doc' = [doc EXCEPT !.players = @ + 1]
    /\ UNCHANGED <<list, source, vars, history>>

Write ==
    \/ \E id \in Ids \cup {NULL} : WriteGame(id)
    \/ \E player \in Accounts : WriteUser(player)
    \/ WriteName \/ WriteTeam
    \/ \E limit \in Limits : EndGame(limit)
    \/ WriteEmpty

-----------------------------------------------------------------------------
(* The scan.                                                                *)

Blank == [at |-> "list", servers |-> 0, players |-> 0, player |-> NULL]

Begin ==
    /\ scans < MaxScans /\ scans' = scans + 1
    /\ BeginScan
    /\ UNCHANGED <<source, writer, whole, list_prev, whole_prev>>

Start ==
    /\ ScanThread
    /\ Source!Start
    /\ doc' = Blank /\ list' = <<>> /\ UNCHANGED objects
    /\ whole' = FALSE /\ whole_prev' = whole
    /\ list_prev' = IF whole THEN list ELSE <<>>
    /\ UNCHANGED scans

\* The stream may end before the list does: parse_data takes that for its end.
Fetch ==
    /\ Source!Step
    /\ IF status' = "none" THEN UNCHANGED <<tableVars, whole>>
       ELSE /\ TerminalCall(status')
            /\ whole' = (status' = "KVI_STATUS_COMPLETE" /\ doc.at = "list")
    /\ UNCHANGED <<kvi, writer, list_prev, whole_prev, scans>>

ByUser == User /\ UNCHANGED <<source, writer, history>>

Dismiss == DismissBox /\ UNCHANGED <<source, writer, history>>

Done == phase = "idle" /\ scans = MaxScans /\ UNCHANGED scanVars

ScanInit ==
    /\ Init
    /\ Source!Init
    /\ doc = Blank /\ list = <<>>
    /\ whole = TRUE /\ list_prev = <<>> /\ whole_prev = FALSE
    /\ scans = 0 /\ objects = 0

Thread == Start \/ Write \/ Fetch

ScanNext == Begin \/ Thread \/ ByUser \/ Dismiss \/ Done

\* parse_data is reading, and may read for ever: SO_RCVTIMEO ends a recv that
\* gets nothing, but each byte that comes, white space too, starts it anew.
Reading == pc = "parse_data" /\ ~stopped

\* The thread runs, and the calls it makes into the system return: connect has
\* a time limit of its own. Nothing makes the host send the rest of a list, or
\* the user answer a box.
ScanSpec == ScanInit /\ [][ScanNext]_scanVars /\ WF_scanVars(~Reading /\ Thread)

-----------------------------------------------------------------------------
(* Properties.                                                              *)

\* The types of the table, of the source (which never goes past the end of the
\* list of addresses) and of the writer.
ScanTypeOK ==
    /\ TypeOK
    /\ Source!TypeOK
    /\ doc.at \in {"list", "game", "user", "name"}
    /\ scans \in 0 .. MaxScans

\* The calls that parse_data makes for a list are those that SessionTable assumes,
\* so what is proved of its Spec holds of whole scans.
ImplementsTable == Spec

\* However the scan fails, by the time the callback is told that it has ended
\* (and lets the next scan begin) ScanHTTP and ScanFile have left no socket,
\* address list, file or use of WinSock behind.
NothingHeld == Source!NothingHeld

\* A game of the table is a game of the list.
Matches(game, listed) ==
    /\ game.unique_identifier = listed.id /\ game.playerlimit = listed.limit
    /\ game.player_count = Len(listed.players)
    /\ \A p \in DOMAIN listed.players :
         game.playerinfo[p - 1] = [unique_identifier |-> listed.players[p].user,
                                   ingame_name |-> listed.players[p].name]

\* Whatever the table held before, however often it was scanned, wherever the
\* scans before were cut off and however the rows are sorted: a row of the game
\* list shows one game of the lobby list, with all its players and nothing of
\* another; and after a whole scan there is one row for each game.
RowsMatchList ==
    /\ \A r \in DOMAIN hGameList :
         hGameList[r] + 1 \in DOMAIN list /\ Matches(gameinfo[hGameList[r]], list[hGameList[r] + 1])
    /\ phase = "idle" /\ whole =>
         /\ Len(hGameList) = Len(list)
         /\ ToSet(hGameList) = {g - 1 : g \in DOMAIN list}
         /\ scan_count_servers = Len(list)

\* What has happened between two lists, in games with an identifier.
Named(games) == {game \in ToSet(games) : game.id # NULL}
Both(old, new) == {pair \in Named(old) \X Named(new) : pair[1].id = pair[2].id}
HasGame(games, game) == \E other \in Named(games) : other.id = game.id
HasPlayer(game, player) == \E p \in ToSet(game.players) : p.user = player.user
IsFull(game) == Len(game.players) >= game.limit
Renamed(game, player) ==
    \E p \in ToSet(game.players) : p.user = player.user /\ p.name # player.name

News(action, game, player) == [action |-> action, game |-> game.id, player |-> player]

GameNews(old, new) ==
    {News("GAME_NEW", game, NULL) : game \in {n \in Named(new) : ~HasGame(old, n)}}
    \cup {News("GAME_QUIT", game, NULL) : game \in {o \in Named(old) : ~HasGame(new, o)}}
    \cup {News("GAME_OPEN", pair[2], NULL) :
            pair \in {b \in Both(old, new) : IsFull(b[1]) /\ ~IsFull(b[2])}}

PlayerNews(old, new) ==
    {News("PLAYER_QUIT", new, player.user) :
       player \in {p \in ToSet(old.players) : ~HasPlayer(new, p)}}
    \cup {News("PLAYER_JOINED", new, player.user) :
       player \in {p \in ToSet(new.players) : ~HasPlayer(old, p)}}
    \cup {News("PLAYER_CHANGED_NICK", new, player.user) :
       player \in {p \in ToSet(new.players) : Renamed(old, p)}}

Changes(old, new) ==
    GameNews(old, new) \cup UNION {PlayerNews(pair[1], pair[2]) : pair \in Both(old, new)}

ToldOfNamed == {n \in told : n.game # NULL}

\* After two whole scans the notifications are exactly what has changed between
\* the lists. (Games without a "g" share the identifier 0 and are confused; a
\* change between two nicknames that do not decode is none; and that each change
\* is told once is not said, since told is a set.)
ChangesAreTold ==
    phase = "idle" /\ whole /\ whole_prev => ToldOfNamed = Changes(list_prev, list)

\* A scan that is cancelled, fails or gets half a list tells nothing false of the
\* games and players it has seen, at any moment. (It does call the games that it
\* has not reached closed, and their players and those it has not reached gone.)
NoFalseNews ==
    whole_prev =>
        {n \in ToldOfNamed : n.action \notin {"GAME_QUIT", "PLAYER_QUIT"}} \subseteq
            Changes(list_prev, list)

\* The players of the first n games of a list.
PlayersIn(games) ==
    LET first[n \in 0 .. Len(games)] ==
          IF n = 0 THEN 0 ELSE first[n - 1] + Len(games[n].players)
    IN first

\* After a whole scan in which no player was selected, the status bar shows the
\* numbers of games and players of the list. (An empty list is an exception:
\* nothing is written over what BeginScan showed, the games of the scan before.)
StatusMatches ==
    phase = "idle" /\ whole /\ selected = "none" /\ list # <<>> =>
        hStatusBar = [games |-> Len(list), players |-> PlayersIn(list)[Len(list)]]

\* ProcessSessionInfo stops a scan that the user lets go on only for a list that
\* is too long for the table, or after an empty object. (A game of MAX_PLAYERS
\* players is too long: the number that ends it comes with index MAX_PLAYERS.)
AcceptsLists ==
    [][stopped' /\ ~stopped /\ iContinueScan =>
         \/ doc.servers >= MAX_SERVERS \/ doc.players >= MAX_PLAYERS
         \/ doc.servers > IF doc.at = "list" THEN Len(list) ELSE Len(list) - 1
         \/ doc.at # "list" /\ doc.players > Len(this.players)]_scanVars

\* "If callback function returns non-zero processing will cease" (bzccnet.h): a
\* scan that was asked to stop does not end as KVI_STATUS_COMPLETE.
StoppedScanFails == phase = "idle" /\ stopped => status = "KVI_STATUS_ERROR"

\* Every scan ends and lets the next begin, however resolving, connecting and
\* sending go and wherever it is stopped, if the host does not keep parse_data
\* reading for ever and the user answers every error box.
EveryScanEnds ==
    []<>~Reading /\ []<>(phase # "failed") => (phase = "created" ~> phase = "idle")
=============================================================================
