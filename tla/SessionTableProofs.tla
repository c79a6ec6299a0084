-------------------------- MODULE SessionTableProofs --------------------------
(***************************************************************************)
(* SessionTable stays within its arrays for every MAX_SERVERS and          *)
(* MAX_PLAYERS and whatever list is read. That a game does not count more  *)
(* players than it has slots rests on the order of the calls: FillInv says *)
(* that once all players begun are counted, the last call has closed the   *)
(* block of the last of them, so that the next to be counted is new.       *)
(***************************************************************************)
EXTENDS SessionTable, TLAPS

\* The pointers point to the game and the player that were begun last.
CursorInv ==
    /\ scan_count_servers <= MAX_SERVERS /\ gameinfo_prev_count <= MAX_SERVERS
    /\ scan_count_servers > 0 => scan_game = scan_count_servers - 1
    /\ scan_count_servers = 0 => scan_count_players = 0
    /\ scan_count_players <= MAX_PLAYERS
    /\ scan_count_players > 0 => scan_player = <<scan_game, scan_count_players - 1>>

\* The last call was for the game being filled, and its last player or later.
CallInv ==
    phase = "scanning" /\ ~stopped /\ scan_count_servers > 0 =>
        /\ kvi \in KeyValueInfo
        /\ kvi.server_index = scan_count_servers - 1
        /\ kvi.player_index + 1 >= scan_count_players

FillInv ==
    scan_count_servers > 0 =>
        LET count == gameinfo[scan_game].player_count
        IN /\ count <= scan_count_players
           /\ phase = "scanning" /\ ~stopped /\ count > 0 /\ count = scan_count_players =>
                \/ kvi.player_index >= scan_count_players
                \/ kvi.status = "KVI_STATUS_LAST"

CountInv ==
    \A s \in GameSlots :
        gameinfo[s].player_count <= MAX_PLAYERS /\ gameinfo_prev[s].player_count <= MAX_PLAYERS

IndInv == TypeOK /\ CursorInv /\ CallInv /\ FillInv /\ CountInv

USE TableAssumption DEF TableAssumption

-----------------------------------------------------------------------------
(* Records and slots.                                                       *)

LEMMA NewGameType == NewGame \in GameInfo /\ NewGame.player_count = 0
  BY DEF NewGame, NewPlayer, GameInfo, PlayerInfo

\* The field of a call that StorePlayer and StoreGame keep.
LEMMA StorePlayerType ==
  ASSUME NEW player \in PlayerInfo, NEW k \in KeyValueInfo, WellFormed(k)
  PROVE  StorePlayer(player, k) \in PlayerInfo
  BY DEF StorePlayer, PlayerInfo, WellFormed

LEMMA StoreGameType ==
  ASSUME NEW game \in GameInfo, NEW k \in KeyValueInfo, WellFormed(k)
  PROVE  /\ StoreGame(game, k) \in GameInfo
         /\ StoreGame(game, k).player_count = game.player_count
  BY DEF StoreGame, GameInfo, WellFormed

\* A game with one player set and another count.
FilledGame(game, p, player, count) ==
    [game EXCEPT !.playerinfo[p] = player, !.player_count = count]

LEMMA FilledGameType ==
  ASSUME NEW game \in GameInfo, NEW p \in PlayerSlots, NEW player \in PlayerInfo,
         NEW count \in Nat
  PROVE  /\ FilledGame(game, p, player, count) \in GameInfo
         /\ FilledGame(game, p, player, count).player_count = count
  BY DEF FilledGame, GameInfo

-----------------------------------------------------------------------------
(* What a call finds once the game it is for has begun.                     *)

LEMMA PairBegins ==
  ASSUME IndInv, phase = "scanning", ~stopped, NEW k \in KeyValueInfo, InOrder(k), ~Refused(k)
  PROVE  /\ Game(k) \in GameSlots /\ Game(k) = k.server_index
         /\ k.server_index \in 0 .. MAX_SERVERS - 1 /\ k.player_index \in 0 .. MAX_PLAYERS - 1
         /\ Players(k) \in 0 .. MAX_PLAYERS
         /\ Games(k) \in [GameSlots -> GameInfo]
         /\ k.player_index + 1 >= Players(k)
         /\ Games(k)[Game(k)].player_count <= Players(k)
         /\ k.player_index < Players(k) =>
              /\ Games(k)[Game(k)].player_count < Players(k)
              /\ scan_player = <<Game(k), k.player_index>>
         /\ \A s \in GameSlots : Games(k)[s].player_count <= MAX_PLAYERS
         /\ (IF NewServer(k) THEN scan_count_servers + 1 ELSE scan_count_servers)
              = k.server_index + 1
<1>1. /\ scan_count_servers \in Nat /\ scan_count_players \in Nat
      /\ scan_count_players <= MAX_PLAYERS
      /\ gameinfo \in [GameSlots -> GameInfo]
      /\ \A s \in GameSlots : gameinfo[s].player_count <= MAX_PLAYERS
  BY DEF IndInv, TypeOK, CursorInv, CountInv
<1>2. /\ k.server_index \in Nat /\ k.player_index \in Nat
      /\ k.server_index < MAX_SERVERS /\ k.player_index < MAX_PLAYERS
      /\ k.server_index <= scan_count_servers
  BY <1>1 DEF KeyValueInfo, Refused
<1>3. k.server_index \in GameSlots
  BY <1>2 DEF GameSlots
<1>4. CASE NewServer(k)
  <2>1. k.server_index = scan_count_servers
    BY <1>1, <1>2, <1>4 DEF NewServer
  <2>2. Games(k) = [gameinfo EXCEPT ![k.server_index] = NewGame]
    BY <1>4 DEF Games
  <2>3. Game(k) = k.server_index /\ Players(k) = 0
    BY <1>4 DEF Game, Players
  <2>4. Games(k)[Game(k)] = NewGame /\ Games(k) \in [GameSlots -> GameInfo]
    BY <1>1, <1>3, <2>2, <2>3, NewGameType
  <2>5. \A s \in GameSlots : Games(k)[s].player_count <= MAX_PLAYERS
    BY <1>1, <2>2, NewGameType
  <2>6. QED
    BY <1>1, <1>2, <1>3, <1>4, <2>1, <2>3, <2>4, <2>5, NewGameType
<1>5. CASE ~NewServer(k)
  <2>1. Game(k) = scan_game /\ Players(k) = scan_count_players /\ Games(k) = gameinfo
    BY <1>5 DEF Game, Players, Games
  <2>2. k.server_index < scan_count_servers
    BY <1>1, <1>2, <1>5 DEF NewServer
  <2>3. /\ kvi # NULL /\ kvi.player_index \in Nat
        /\ kvi.server_index = scan_count_servers - 1
        /\ kvi.player_index + 1 >= scan_count_players
        /\ scan_game = scan_count_servers - 1
    <3>1. scan_count_servers > 0
      BY <1>1, <1>2, <2>2
    <3>2. QED
      BY <3>1, CallAssumption DEF IndInv, CallInv, CursorInv, KeyValueInfo
  <2>4. k.server_index = kvi.server_index /\ k.player_index >= kvi.player_index
    BY <1>1, <1>2, <2>2, <2>3 DEF InOrder, Before
  <2>5. kvi.status = "KVI_STATUS_LAST" => k.player_index > kvi.player_index
    BY <1>2, <2>3, <2>4 DEF InOrder, Before
  <2>6. Game(k) = k.server_index /\ Game(k) \in GameSlots
    BY <1>3, <2>1, <2>3, <2>4
  <2>7. gameinfo[scan_game].player_count \in Nat
    BY <1>1, <2>1, <2>6 DEF GameInfo
  <2>8. /\ gameinfo[scan_game].player_count <= scan_count_players
        /\ gameinfo[scan_game].player_count > 0
            /\ gameinfo[scan_game].player_count = scan_count_players =>
              \/ kvi.player_index >= scan_count_players
              \/ kvi.status = "KVI_STATUS_LAST"
    BY <1>1, <1>2, <2>2 DEF IndInv, FillInv
  <2>9. k.player_index < Players(k) => gameinfo[scan_game].player_count < Players(k)
    BY <1>1, <1>2, <2>1, <2>3, <2>4, <2>5, <2>7, <2>8
  <2>10. k.player_index < Players(k) => scan_player = <<Game(k), k.player_index>>
    <3>1. k.player_index < Players(k) => k.player_index = scan_count_players - 1
      BY <1>1, <1>2, <2>1, <2>3, <2>4
    <3>2. k.player_index < Players(k) => scan_count_players > 0
      BY <1>1, <1>2, <2>1
    <3>3. QED
      BY <2>1, <3>1, <3>2 DEF IndInv, CursorInv
  <2>11. QED
    BY <1>1, <1>2, <1>5, <2>1, <2>2, <2>3, <2>4, <2>6, <2>8, <2>9, <2>10
<1>6. QED
  BY <1>4, <1>5
-----------------------------------------------------------------------------
(* Initial states, and the steps around the calls.                          *)

LEMMA IndInit == Init => IndInv
<1> SUFFICES ASSUME Init PROVE IndInv
  OBVIOUS
<1>1. gameinfo \in [GameSlots -> GameInfo] /\ gameinfo_prev = gameinfo
  BY NewGameType DEF Init
<1>2. \A s \in GameSlots : gameinfo[s].player_count = 0
  BY NewGameType DEF Init
<1>3. hStatusBar \in [games : Nat, players : Nat] /\ hGameList \in Seq(GameSlots)
  BY DEF Init
<1>4. iContinueScan \in BOOLEAN /\ stopped \in BOOLEAN
  BY Zenon DEF Init
<1>5. TypeOK
  BY <1>1, <1>3, <1>4 DEF Init, TypeOK
<1>6. QED
  BY <1>1, <1>2, <1>5 DEF Init, IndInv, CursorInv, CallInv, FillInv, CountInv

\* Sorted rows are rows.
LEMMA SortedRows ==
  ASSUME NEW rows \in Seq(GameSlots), NEW sorted \in SortItems(rows)
  PROVE  sorted \in Seq(GameSlots)
<1>1. PICK order \in [DOMAIN rows -> DOMAIN rows] :
           sorted = [p \in DOMAIN rows |-> rows[order[p]]]
  BY DEF SortItems
<1>2. /\ Len(rows) \in Nat /\ DOMAIN rows = 1 .. Len(rows)
      /\ \A p \in DOMAIN rows : rows[p] \in GameSlots
  OBVIOUS
<1>3. sorted \in [1 .. Len(rows) -> GameSlots]
  BY <1>1, <1>2
<1>4. QED
  BY <1>2, <1>3

\* Steps that leave the table, the calls and the scans alone.
LEMMA WindowStep ==
  ASSUME IndInv, UNCHANGED <<table, previous, phase, call>>,
         iContinueScan' \in BOOLEAN, selected' \in {"none", "before", "player"},
         hGameList' \in Seq(GameSlots), total_player_count' = total_player_count,
         hStatusBar' \in [games : Nat, players : Nat] \cup {NULL}
  PROVE  IndInv'
  BY DEF IndInv, TypeOK, CursorInv, CallInv, FillInv, CountInv, table, previous, call

LEMMA UserStep == IndInv /\ User => IndInv'
<1> SUFFICES ASSUME IndInv, User PROVE IndInv'
  OBVIOUS
<1> USE DEF table, previous, call, window
<1>0. /\ selected \in {"none", "before", "player"} /\ iContinueScan \in BOOLEAN
      /\ hStatusBar \in [games : Nat, players : Nat] \cup {NULL}
      /\ scan_count_servers \in Nat /\ total_player_count \in Nat
      /\ hGameList \in Seq(GameSlots)
  BY DEF IndInv, TypeOK
<1>1. CASE StopScan
  BY <1>0, <1>1, WindowStep DEF StopScan
<1>2. CASE SelectPlayer
  BY <1>0, <1>2, WindowStep DEF SelectPlayer, SetPlayerStatus
<1>3. CASE SelectGame
  BY <1>0, <1>3, WindowStep DEF SelectGame, SetGeneralStatus
<1>4. CASE ColumnClick
  BY <1>0, <1>4, SortedRows, WindowStep DEF ColumnClick
<1>5. CASE ApplyHost
  BY <1>0, <1>5, WindowStep DEF ApplyHost, SetGeneralStatus
<1>6. QED
  BY <1>1, <1>2, <1>3, <1>4, <1>5 DEF User

LEMMA BeginStep == IndInv /\ BeginScan => IndInv'
  BY DEF BeginScan, SetGeneralStatus, IndInv, TypeOK, CursorInv, CallInv, FillInv, CountInv,
         table, previous, call

LEMMA ThreadStep == IndInv /\ ScanThread => IndInv'
<1> SUFFICES ASSUME IndInv, ScanThread PROVE IndInv'
  OBVIOUS
<1> USE DEF ScanThread, window
<1>1. TypeOK'
  BY Zenon DEF IndInv, TypeOK
<1>2. CursorInv'
  BY DEF IndInv, CursorInv
<1>3. CallInv' /\ FillInv'
  BY DEF CallInv, FillInv
<1>4. CountInv'
  BY DEF IndInv, CountInv
<1>5. QED
  BY <1>1, <1>2, <1>3, <1>4 DEF IndInv

LEMMA EndStep == IndInv /\ (Terminal \/ DismissBox) => IndInv'
  BY DEF Terminal, TerminalCall, ErrorBox, DismissBox, EndScan, IndInv, TypeOK, CursorInv, CallInv, FillInv, CountInv, table, previous,
         window, call

-----------------------------------------------------------------------------
(* A call.                                                                  *)

LEMMA RefuseStep ==
  ASSUME IndInv, Pair, Refuse(kvi')
  PROVE  IndInv'
  BY DEF Pair, ProcessSessionInfo, Refuse, IndInv, TypeOK, CursorInv, CallInv, FillInv, CountInv,
         table, previous, window

\* What a call that is not refused leaves of IndInv to be shown.
LEMMA PairStep ==
  ASSUME IndInv, Pair, NEW k, kvi' = k, ~Refused(k), ServerBegins(k),
         gameinfo' \in [GameSlots -> GameInfo],
         scan_count_players' \in 0 .. MAX_PLAYERS,
         k.player_index + 1 >= scan_count_players' \/ stopped',
         scan_count_players' > 0 => scan_player' = <<Game(k), scan_count_players' - 1>>,
         scan_player' \in (GameSlots \X PlayerSlots) \cup {NULL},
         \A s \in GameSlots : gameinfo'[s].player_count <= MAX_PLAYERS,
         gameinfo'[Game(k)].player_count <= scan_count_players',
         ~stopped' /\ gameinfo'[Game(k)].player_count = scan_count_players' =>
             \/ k.player_index >= scan_count_players'
             \/ k.status = "KVI_STATUS_LAST",
         stopped' \in BOOLEAN, selected' = selected,
         hGameList' \in Seq(GameSlots), total_player_count' \in Nat,
         hStatusBar' \in [games : Nat, players : Nat] \cup {NULL}
  PROVE  IndInv'
<1>1. /\ k \in KeyValueInfo /\ InOrder(k) /\ phase = "scanning" /\ phase' = phase /\ ~stopped
      /\ gameinfo_prev' = gameinfo_prev /\ gameinfo_prev_count' = gameinfo_prev_count
      /\ iContinueScan' = iContinueScan
  BY DEF Pair, ProcessSessionInfo, previous
<1>2. /\ Game(k) \in GameSlots /\ Game(k) = k.server_index
      /\ k.server_index \in 0 .. MAX_SERVERS - 1
      /\ scan_count_servers' = k.server_index + 1 /\ scan_game' = Game(k)
  BY <1>1, PairBegins DEF ServerBegins
<1>3. TypeOK'
  BY <1>1, <1>2 DEF IndInv, TypeOK
<1>4. CursorInv'
  BY <1>1, <1>2 DEF IndInv, CursorInv
<1>5. CallInv'
  BY <1>1, <1>2 DEF CallInv
<1>6. FillInv'
  BY <1>1, <1>2 DEF FillInv
<1>7. CountInv'
  BY <1>1 DEF IndInv, CountInv
<1>8. QED
  BY <1>3, <1>4, <1>5, <1>6, <1>7 DEF IndInv

LEMMA SkipsPlayerStep ==
  ASSUME IndInv, Pair, NEW k, kvi' = k, SkipsPlayer(k)
  PROVE  IndInv'
<1>1. k \in KeyValueInfo /\ InOrder(k) /\ phase = "scanning" /\ ~stopped /\ ~Refused(k)
  BY DEF Pair, ProcessSessionInfo, SkipsPlayer
<1>2. scan_count_players' > 0 => scan_player' = <<Game(k), scan_count_players' - 1>>
  BY <1>1, PairBegins DEF SkipsPlayer, Players, Game, IndInv, CursorInv, window
<1>3. QED
  BY <1>1, <1>2, PairBegins, PairStep DEF SkipsPlayer, IndInv, TypeOK, window

LEMMA PlayerPairStep ==
  ASSUME IndInv, Pair, NEW k, kvi' = k, PlayerPair(k)
  PROVE  IndInv'
<1> DEFINE s == Game(k)
           p == k.player_index
           before == IF NewPlayerBegins(k) THEN NewPlayer ELSE Games(k)[s].playerinfo[p]
           count == IF EndsBlock(k) THEN Games(k)[s].player_count + 1
                    ELSE Games(k)[s].player_count
           game == FilledGame(Games(k)[s], p, StorePlayer(before, k), count)
<1>1. /\ k \in KeyValueInfo /\ InOrder(k) /\ WellFormed(k)
      /\ phase = "scanning" /\ ~stopped /\ ~Refused(k)
  BY DEF Pair, ProcessSessionInfo, PlayerPair
<1>2. /\ s \in GameSlots /\ Games(k) \in [GameSlots -> GameInfo]
      /\ Players(k) \in 0 .. MAX_PLAYERS /\ p \in PlayerSlots
  BY <1>1, PairBegins DEF PlayerSlots
<1>3. scan_player' = <<s, p>> /\ scan_player'[1] = s /\ scan_player'[2] = p
  BY <1>1, <1>2, PairBegins DEF PlayerPair, NewPlayerBegins, PlayerSlots
<1>4. gameinfo' = [Games(k) EXCEPT ![s] = game]
  <2>1. gameinfo' = [Games(k) EXCEPT ![s].playerinfo[p] = StorePlayer(before, k),
                                     ![s].player_count = IF EndsBlock(k) THEN @ + 1 ELSE @]
    BY <1>3 DEF PlayerPair
  <2>2. QED
    BY <1>2, <2>1 DEF FilledGame, GameInfo
<1>5. Games(k)[s] \in GameInfo /\ count \in Nat
  BY <1>2 DEF GameInfo
<1>6. before \in PlayerInfo
  BY <1>2, <1>5 DEF GameInfo, NewPlayer, PlayerInfo
<1>7. game \in GameInfo /\ game.player_count = count
  <2>1. StorePlayer(before, k) \in PlayerInfo
    <3> HIDE DEF before
    <3>1. QED
      BY <1>1, <1>6, StorePlayerType
  <2>2. QED
    <3> HIDE DEF before, count
    <3>1. QED
      BY <1>2, <1>5, <2>1, FilledGameType
<1>8. gameinfo' \in [GameSlots -> GameInfo] /\ gameinfo'[s].player_count = count
  BY <1>2, <1>4, <1>7
<1>9. /\ scan_count_players' = p + 1
      /\ scan_count_players' \in 0 .. MAX_PLAYERS
  BY <1>1, <1>2, PairBegins DEF PlayerPair, NewPlayerBegins, PlayerSlots
<1>10. Games(k)[s].player_count \in Nat /\ p \in Nat
  BY <1>2, <1>5 DEF GameInfo, PlayerSlots
<1>11. Games(k)[s].player_count <= p
  BY <1>1, <1>2, <1>10, PairBegins DEF PlayerPair
<1>12. /\ count <= scan_count_players'
       /\ count = scan_count_players' => k.status = "KVI_STATUS_LAST"
  BY <1>9, <1>10, <1>11 DEF EndsBlock
<1>13. \A t \in GameSlots : gameinfo'[t].player_count <= MAX_PLAYERS
  <2>1. count <= MAX_PLAYERS
    BY <1>5, <1>9, <1>12
  <2>2. \A t \in GameSlots : Games(k)[t].player_count <= MAX_PLAYERS
    BY <1>1, PairBegins
  <2>3. QED
    BY <1>2, <1>4, <1>7, <2>1, <2>2
<1>14. /\ hGameList' = hGameList /\ total_player_count' = total_player_count
       /\ hStatusBar' = hStatusBar /\ selected' = selected /\ stopped' = FALSE
       /\ ServerBegins(k)
  BY DEF PlayerPair, window
<1>15. /\ hGameList \in Seq(GameSlots) /\ total_player_count \in Nat
       /\ hStatusBar \in [games : Nat, players : Nat] \cup {NULL}
  BY DEF IndInv, TypeOK
<1>16. scan_player' = <<s, scan_count_players' - 1>> /\ scan_player' \in GameSlots \X PlayerSlots
  BY <1>2, <1>3, <1>9, <1>10
<1>17. k.player_index + 1 >= scan_count_players'
  BY <1>9, <1>10
<1>18. QED
  BY <1>1, <1>8, <1>9, <1>12, <1>13, <1>14, <1>15, <1>16, <1>17, PairStep

LEMMA ServerPairStep ==
  ASSUME IndInv, Pair, NEW k, kvi' = k, ServerPair(k)
  PROVE  IndInv'
<1> DEFINE s == Game(k)
           game == StoreGame(Games(k)[s], k)
<1>1. /\ k \in KeyValueInfo /\ InOrder(k) /\ WellFormed(k)
      /\ phase = "scanning" /\ ~stopped /\ ~Refused(k)
  BY DEF Pair, ProcessSessionInfo, ServerPair
<1>2. /\ s \in GameSlots /\ Games(k) \in [GameSlots -> GameInfo]
      /\ Players(k) \in 0 .. MAX_PLAYERS /\ k.player_index \in Nat
  BY <1>1, PairBegins
<1>3. gameinfo' = [Games(k) EXCEPT ![s] = game]
  BY DEF ServerPair
<1>4. game \in GameInfo /\ game.player_count = Games(k)[s].player_count
  BY <1>1, <1>2, StoreGameType
<1>5. gameinfo' \in [GameSlots -> GameInfo] /\ gameinfo'[s].player_count = game.player_count
  BY <1>2, <1>3, <1>4
<1>6. \A t \in GameSlots : gameinfo'[t].player_count <= MAX_PLAYERS
  BY <1>1, <1>2, <1>3, <1>4, PairBegins
<1>7. scan_count_players' = Players(k) /\ scan_player' = scan_player
  BY DEF ServerPair
<1>8. scan_count_players' > 0 => scan_player' = <<s, scan_count_players' - 1>>
  BY <1>7 DEF Players, Game, IndInv, CursorInv
<1>9. /\ hGameList' \in Seq(GameSlots) /\ total_player_count' \in Nat
      /\ hStatusBar' \in [games : Nat, players : Nat] \cup {NULL}
      /\ selected' = selected
  <2>1. /\ hGameList \in Seq(GameSlots) /\ total_player_count \in Nat
        /\ hStatusBar \in [games : Nat, players : Nat] \cup {NULL}
        /\ scan_count_servers' \in Nat
    BY <1>1, PairBegins DEF IndInv, TypeOK, ServerPair, ServerBegins
  <2>2. GameInfoToRow(hGameList, s) \in Seq(GameSlots)
    BY <1>2, <2>1 DEF GameInfoToRow
  <2>3. total_player_count + Players(k) \in Nat
    BY <1>2, <2>1
  <2>4. CASE EndsBlock(k) /\ selected # "player"
    <3>1. /\ hGameList' \in SortItems(GameInfoToRow(hGameList, s)) /\ selected' = selected
          /\ total_player_count' = total_player_count + Players(k) /\ SetGeneralStatus
      BY <2>4 DEF ServerPair, ServerLast
    <3>2. hStatusBar' \in [games : Nat, players : Nat]
      BY <2>1, <2>3, <3>1 DEF SetGeneralStatus
    <3>3. QED
      BY <2>2, <2>3, <3>1, <3>2, SortedRows
  <2>5. CASE EndsBlock(k) /\ selected = "player"
    BY <2>1, <2>2, <2>5, SortedRows DEF ServerPair, ServerLast
  <2>6. CASE ~EndsBlock(k)
    BY <2>1, <2>6 DEF ServerPair, window
  <2>7. QED
    BY <2>4, <2>5, <2>6
<1>10. gameinfo'[s].player_count = scan_count_players' =>
         k.player_index >= scan_count_players'
  <2>1. k.player_index < Players(k) => Games(k)[s].player_count < Players(k)
    BY <1>1, PairBegins
  <2>2. Games(k)[s].player_count \in Nat
    BY <1>2 DEF GameInfo
  <2>3. QED
    BY <1>2, <1>4, <1>5, <1>7, <2>1, <2>2
<1>11. QED
  BY <1>1, <1>2, <1>4, <1>5, <1>6, <1>7, <1>8, <1>9, <1>10, PairBegins, PairStep
     DEF ServerPair, IndInv, TypeOK

-----------------------------------------------------------------------------
(* Theorems.                                                                *)

LEMMA IndNext == IndInv /\ [Next]_vars => IndInv'
<1> SUFFICES ASSUME IndInv, [Next]_vars PROVE IndInv'
  OBVIOUS
<1>1. CASE UNCHANGED vars
  BY <1>1 DEF IndInv, TypeOK, CursorInv, CallInv, FillInv, CountInv, vars, table, previous,
              window, call
<1>2. CASE Pair
  BY <1>2, RefuseStep, SkipsPlayerStep, PlayerPairStep, ServerPairStep
     DEF Pair, ProcessSessionInfo
<1>3. QED
  BY <1>1, <1>2, BeginStep, ThreadStep, UserStep, EndStep DEF Next

LEMMA IndAlways == Spec => []IndInv
  BY IndInit, IndNext, PTL DEF Spec

\* The table is type correct: every pointer is NULL or into the arrays, for any
\* list, any sizes of the arrays and any interleaving of the user with the scan.
THEOREM TableTypeCorrect == Spec => []TypeOK
<1>1. IndInv => TypeOK
  BY DEF IndInv
<1>2. QED
  BY <1>1, IndAlways, PTL

\* The counts never exceed the arrays: ProcessSessionInfo, FindGame and FindPlayer
\* stay in bounds whatever parse_data hands over in order.
THEOREM TableStaysInBounds == Spec => []TableInBounds
<1>1. IndInv => TableInBounds
  BY DEF IndInv, CursorInv, CountInv, TableInBounds
<1>2. QED
  BY <1>1, IndAlways, PTL
=============================================================================
