--------------------------- MODULE LobbyListProofs ---------------------------
(***************************************************************************)
(* What whole scans make of lobby lists, for every list and every size of  *)
(* the table: the rows and the status bar show the list, and what is told  *)
(* of the games and their players is what has changed since the list       *)
(* before.                                                                 *)
(*                                                                         *)
(* One invariant, MatchInv, relates the table to the list as it is         *)
(* written. There is a lemma for each step of the writer, which says what  *)
(* it makes of the list and what the call makes of the table; a comparison *)
(* of two tables is then one of two lists, notice by notice.               *)
(***************************************************************************)
EXTENDS LobbyScanProofs, WellFoundedInduction

-----------------------------------------------------------------------------
(* The invariant.                                                           *)

\* What the writer writes: games of players, in which no two games have the same
\* identifier and no two players of a game are the same.
Listing == [id : Ids \cup {NULL}, limit : Nat, players : Seq(Accounts)]

IsList(games) ==
    /\ games \in Seq(Listing)
    /\ \A g, h \in DOMAIN games : games[g].id = games[h].id /\ games[g].id # NULL => g = h
    /\ \A g \in DOMAIN games : \A p, q \in DOMAIN games[g].players :
         games[g].players[p].user = games[g].players[q].user => p = q

\* The games written to their end, and the one being written.
Complete == IF doc.at = "list" THEN Len(list) ELSE Len(list) - 1
Writing == doc.at \in {"user", "name"}

ListInv ==
    /\ IsList(list) /\ IsList(list_prev)
    /\ doc.at # "list" => list # <<>>
    /\ Writing =>
         /\ doc.player \in Accounts
         /\ \A p \in DOMAIN this.players : this.players[p].user # doc.player.user

\* What a player of the table should be.
Entry(player) == [unique_identifier |-> player.user, ingame_name |-> player.name]

\* A game of the table has players of a game of the list, and no others.
Holds(game, listed) ==
    /\ game.unique_identifier = listed.id
    /\ game.player_count <= Len(listed.players)
    /\ \A p \in 1 .. game.player_count : game.playerinfo[p - 1] = Entry(listed.players[p])

\* Wherever the scan was cut off.
HoldsInv ==
    /\ scan_count_servers <= Len(list)
    /\ \A g \in 1 .. scan_count_servers : Holds(gameinfo[g - 1], list[g])

\* A row shows a complete game.
RowsInv ==
    /\ \A r \in DOMAIN hGameList :
         /\ hGameList[r] + 1 \in 1 .. Complete /\ hGameList[r] < scan_count_servers
         /\ Matches(gameinfo[hGameList[r]], list[hGameList[r] + 1])
    /\ phase = "created" => hGameList = <<>> /\ total_player_count = 0

\* The table has kept up with the list: it is not stopped, or was read to the end.
Current == IF phase = "scanning" THEN ~stopped ELSE whole

\* The game being filled is the game being written, and so is the player.
FillsThis ==
    LET game == gameinfo[Len(list) - 1]
        count == Len(this.players)
    IN /\ doc.servers = Len(list) - 1
       /\ Holds(game, this) /\ game.player_count = count
       /\ game.playerlimit = 0
       /\ IF Writing
            THEN /\ doc.players = count /\ scan_count_players = count + 1
                 /\ game.playerinfo[count] =
                      [unique_identifier |-> doc.player.user,
                       ingame_name |-> IF doc.at = "name" THEN doc.player.name ELSE NULL]
            ELSE doc.players >= count /\ scan_count_players = count

CurrentInv ==
    Current =>
        /\ scan_count_servers = Len(list)
        /\ \A g \in 1 .. Complete : Matches(gameinfo[g - 1], list[g])
        /\ phase # "scanning" => doc.at = "list"
        /\ phase = "scanning" /\ doc.at = "list" => doc.servers >= Len(list)
        /\ doc.at # "list" => FillsThis
        /\ phase # "created" =>
             Len(hGameList) = Complete /\ ToSet(hGameList) = 0 .. Complete - 1

\* The table of the scan before, if that was read to the end.
PrevInv ==
    whole_prev =>
        /\ gameinfo_prev_count = Len(list_prev)
        /\ \A g \in 1 .. Len(list_prev) : Matches(gameinfo_prev[g - 1], list_prev[g])

\* What has been told: of the games listed and, once the scan has ended, of the
\* comparison of the tables.
ToldOfRows == UNION {GameNotices(gameinfo[g]) : g \in ToSet(hGameList)}
ToldAtEnd == UNION {Comparison(gameinfo_prev[s]) : s \in 0 .. gameinfo_prev_count - 1}

ToldInv ==
    /\ phase \in {"scanning", "failed"} => told = ToldOfRows
    /\ phase = "idle" => told = ToldOfRows \cup ToldAtEnd
    /\ phase = "created" => NoFalseNews

\* The status bar, as long as no player has been selected.
StatusInv ==
    Current /\ phase # "created" /\ selected = "none" =>
        /\ total_player_count = PlayersIn(list)[Complete]
        /\ doc.at = "list" /\ list # <<>> =>
             hStatusBar = [games |-> Len(list), players |-> total_player_count]

MatchInv ==
    ListInv /\ HoldsInv /\ RowsInv /\ CurrentInv /\ PrevInv /\ ToldInv /\ StatusInv

USE TableAssumption, ScanAssumption DEF TableAssumption, ScanAssumption

-----------------------------------------------------------------------------
(* Rows and lists.                                                          *)

LEMMA Rows == ASSUME NEW rows, NEW x PROVE x \in ToSet(rows) <=> \E r \in DOMAIN rows : rows[r] = x
  BY DEF ToSet

\* Sorting loses no row and doubles none.
LEMMA SortedAlike ==
  ASSUME NEW rows \in Seq(GameSlots), NEW sorted \in SortItems(rows)
  PROVE  /\ sorted \in Seq(GameSlots) /\ Len(sorted) = Len(rows)
         /\ ToSet(sorted) = ToSet(rows)
<1> DEFINE P == DOMAIN rows
<1>1. PICK order \in [P -> P] :
           /\ \A p \in P : \E q \in P : order[q] = p
           /\ sorted = [p \in P |-> rows[order[p]]]
  BY DEF SortItems
<1>2. sorted \in Seq(GameSlots)
  BY SortedRows
<1>3. DOMAIN sorted = P /\ P = 1 .. Len(rows) /\ DOMAIN sorted = 1 .. Len(sorted)
  BY <1>1, <1>2
<1>4. Len(sorted) = Len(rows)
  BY <1>2, <1>3
<1>5. ToSet(sorted) = ToSet(rows)
  <2>1. \A p \in P : sorted[p] = rows[order[p]] /\ order[p] \in P
    BY <1>1
  <2>2. \A p \in P : \E q \in P : sorted[q] = rows[p]
    BY <1>1, <2>1
  <2> HIDE DEF P
  <2>3. \A x : x \in ToSet(sorted) <=> x \in ToSet(rows)
    <3>1. \A x : (\E p \in P : sorted[p] = x) <=> (\E p \in P : rows[p] = x)
      BY <2>1, <2>2
    <3>2. P = DOMAIN rows
      BY DEF P
    <3>3. /\ \A x : x \in ToSet(sorted) <=> \E p \in P : sorted[p] = x
          /\ \A x : x \in ToSet(rows) <=> \E p \in P : rows[p] = x
      BY <1>3, <3>2, Rows
    <3>4. QED
      BY <3>1, <3>3
  <2>4. QED
    BY <2>3
<1>6. QED
  BY <1>2, <1>4, <1>5

LEMMA RowAdded ==
  ASSUME NEW rows \in Seq(GameSlots), NEW game \in GameSlots
  PROVE  /\ GameInfoToRow(rows, game) \in Seq(GameSlots)
         /\ Len(GameInfoToRow(rows, game)) = Len(rows) + 1
         /\ ToSet(GameInfoToRow(rows, game)) = ToSet(rows) \cup {game}
<1> DEFINE more == <<game>> \o rows
<1>1. /\ more \in Seq(GameSlots) /\ Len(more) = Len(rows) + 1
      /\ more[1] = game /\ \A r \in 1 .. Len(rows) : more[r + 1] = rows[r]
  OBVIOUS
<1>2. DOMAIN more = 1 .. Len(rows) + 1 /\ DOMAIN rows = 1 .. Len(rows) /\ Len(rows) \in Nat
  BY <1>1
<1>3. \A r \in 1 .. Len(rows) + 1 : r = 1 \/ (r - 1 \in 1 .. Len(rows) /\ r = (r - 1) + 1)
  BY <1>2
<1>4. \A r \in 1 .. Len(rows) + 1 : r = 1 \/ (r - 1 \in 1 .. Len(rows) /\ more[r] = rows[r - 1])
  <2> SUFFICES ASSUME NEW r \in 1 .. Len(rows) + 1, r # 1
               PROVE  r - 1 \in 1 .. Len(rows) /\ more[r] = rows[r - 1]
    OBVIOUS
  <2>1. r - 1 \in 1 .. Len(rows) /\ (r - 1) + 1 = r
    BY <1>3
  <2>2. more[(r - 1) + 1] = rows[r - 1]
    BY <1>1, <2>1
  <2>3. QED
    BY <2>1, <2>2
<1>5. 1 \in DOMAIN more /\ \A r \in 1 .. Len(rows) : r + 1 \in DOMAIN more
  BY <1>2
<1>6. ToSet(more) = ToSet(rows) \cup {game}
  <2> HIDE DEF more
  <2>1. ASSUME NEW x \in ToSet(more) PROVE x \in ToSet(rows) \cup {game}
    <3>1. PICK r \in 1 .. Len(rows) + 1 : more[r] = x
      BY <1>2, Rows
    <3>2. QED
      BY <1>1, <1>2, <1>4, <3>1, Rows
  <2>2. ASSUME NEW x \in ToSet(rows) \cup {game} PROVE x \in ToSet(more)
    BY <1>1, <1>2, <1>5, Rows
  <2>3. QED
    BY <2>1, <2>2
<1>7. QED
  BY <1>1, <1>6 DEF GameInfoToRow

\* The games up to n are the same; the others have the same identifier, the same
\* players and perhaps more.
Continues(old, new, n) ==
    /\ Len(old) <= Len(new)
    /\ \A g \in 1 .. n : new[g] = old[g]
    /\ \A g \in 1 .. Len(old) :
         /\ new[g].id = old[g].id
         /\ Len(old[g].players) <= Len(new[g].players)
         /\ \A p \in 1 .. Len(old[g].players) : new[g].players[p] = old[g].players[p]

LEMMA GameWritten ==
  ASSUME NEW games, IsList(games), NEW id \in Ids \cup {NULL},
         \A g \in DOMAIN games : games[g].id = id => id = NULL
  PROVE  LET new == Append(games, [id |-> id, limit |-> 0, players |-> <<>>])
         IN /\ IsList(new) /\ Len(new) = Len(games) + 1
            /\ new[Len(new)] = [id |-> id, limit |-> 0, players |-> <<>>]
            /\ Continues(games, new, Len(games))
<1> DEFINE game == [id |-> id, limit |-> 0, players |-> <<>>]
           new == Append(games, game)
           n == Len(games)
<1>1. games \in Seq(Listing) /\ n \in Nat /\ DOMAIN games = 1 .. n
  BY DEF IsList
<1>2. game \in Listing
  BY DEF Listing
<1>3. /\ new \in Seq(Listing) /\ Len(new) = n + 1 /\ DOMAIN new = 1 .. n + 1
      /\ new[n + 1] = game /\ \A g \in 1 .. n : new[g] = games[g]
  BY <1>1, <1>2
<1>4. \A g \in 1 .. n + 1 : g \in 1 .. n \/ g = n + 1
  BY <1>1
<1>5. game.id = id /\ DOMAIN game.players = {}
  OBVIOUS
<1> HIDE DEF new, game, n
<1>6. ASSUME NEW g \in 1 .. n + 1, NEW h \in 1 .. n + 1, new[g].id = new[h].id, new[g].id # NULL
      PROVE  g = h
  BY <1>1, <1>3, <1>4, <1>5, <1>6 DEF IsList
<1>7. ASSUME NEW g \in 1 .. n + 1, NEW p \in DOMAIN new[g].players, NEW q \in DOMAIN new[g].players,
             new[g].players[p].user = new[g].players[q].user
      PROVE  p = q
  BY <1>1, <1>3, <1>4, <1>5, <1>7 DEF IsList
<1>8. IsList(new)
  BY <1>3, <1>6, <1>7 DEF IsList
<1>9. Continues(games, new, n)
  <2>1. \A g \in 1 .. n : Len(games[g].players) \in Nat
    BY <1>1 DEF Listing
  <2>2. n <= Len(new) /\ Len(games) = n
    BY <1>1, <1>3 DEF n
  <2>3. QED
    BY <1>3, <2>1, <2>2 DEF Continues
<1>10. Len(new) = Len(games) + 1 /\ new[Len(new)] = game /\ Len(games) = n
  BY <1>3 DEF n
<1>11. QED
  BY <1>8, <1>9, <1>10 DEF new, game

\* The last game changes.
LEMMA LastWritten ==
  ASSUME NEW games, IsList(games), games # <<>>, NEW game \in Listing,
         LET last == games[Len(games)]
         IN /\ game.id = last.id
            /\ Len(last.players) <= Len(game.players)
            /\ \A p \in 1 .. Len(last.players) : game.players[p] = last.players[p],
         \A p, q \in DOMAIN game.players : game.players[p].user = game.players[q].user => p = q
  PROVE  LET new == [games EXCEPT ![Len(games)] = game]
         IN /\ IsList(new) /\ Len(new) = Len(games) /\ new[Len(games)] = game
            /\ Continues(games, new, Len(games) - 1)
<1> DEFINE n == Len(games)
           new == [games EXCEPT ![n] = game]
<1>1. games \in Seq(Listing) /\ n \in Nat /\ n > 0 /\ n \in 1 .. n /\ DOMAIN games = 1 .. n
  BY DEF IsList
<1>2. /\ new \in Seq(Listing) /\ Len(new) = n /\ DOMAIN new = 1 .. n
      /\ \A g \in 1 .. n : new[g] = IF g = n THEN game ELSE games[g]
  BY <1>1
<1>3. \A g \in 1 .. n : new[g].id = games[g].id
  BY <1>1, <1>2
<1>4. IsList(new)
  <2> HIDE DEF new, n
  <2>1. ASSUME NEW g \in 1 .. n, NEW p \in DOMAIN new[g].players, NEW q \in DOMAIN new[g].players,
               new[g].players[p].user = new[g].players[q].user
        PROVE  p = q
    BY <1>1, <1>2, <2>1 DEF IsList
  <2>2. QED
    BY <1>1, <1>2, <1>3, <2>1 DEF IsList
<1>5. Continues(games, new, n - 1)
  <2>1. \A g \in 1 .. n - 1 : g \in 1 .. n /\ g # n
    BY <1>1
  <2>2. \A g \in 1 .. n : Len(games[g].players) \in Nat
    BY <1>1 DEF Listing
  <2>3. Len(games) <= Len(new) /\ Len(games) = n
    BY <1>1, <1>2
  <2> HIDE DEF new, n
  <2>4. ASSUME NEW g \in 1 .. n
        PROVE  /\ new[g].id = games[g].id
               /\ Len(games[g].players) <= Len(new[g].players)
               /\ \A p \in 1 .. Len(games[g].players) : new[g].players[p] = games[g].players[p]
    <3>1. CASE g = n
      BY <1>2, <1>3, <3>1 DEF n
    <3>2. CASE g # n
      BY <1>2, <2>2, <3>2
    <3>3. QED
      BY <3>1, <3>2
  <2>5. QED
    BY <1>2, <2>1, <2>3, <2>4 DEF Continues
<1>6. QED
  BY <1>1, <1>2, <1>4, <1>5

LEMMA PlayerWritten ==
  ASSUME NEW games, IsList(games), games # <<>>, NEW player \in Accounts,
         LET players == games[Len(games)].players
         IN \A p \in DOMAIN players : players[p].user # player.user
  PROVE  LET new == [games EXCEPT ![Len(games)].players = Append(@, player)]
         IN /\ IsList(new) /\ Len(new) = Len(games)
            /\ new[Len(games)] = [games[Len(games)] EXCEPT !.players = Append(@, player)]
            /\ Continues(games, new, Len(games) - 1)
<1> DEFINE n == Len(games)
           last == games[n]
           m == Len(last.players)
           game == [last EXCEPT !.players = Append(@, player)]
<1>1. games \in Seq(Listing) /\ n \in Nat /\ n > 0 /\ n \in 1 .. n /\ DOMAIN games = 1 .. n
  BY DEF IsList
<1>2. last \in Listing /\ last.players \in Seq(Accounts) /\ m \in Nat /\ DOMAIN last.players = 1 .. m
  <2>1. last \in Listing
    BY <1>1
  <2>2. last.players \in Seq(Accounts)
    BY <2>1 DEF Listing
  <2>3. QED
    BY <2>1, <2>2
<1>3. Append(last.players, player) \in Seq(Accounts)
  BY <1>2
<1>4. /\ game \in Listing /\ game.id = last.id /\ game.players = Append(last.players, player)
  BY <1>2, <1>3 DEF Listing
<1>5. /\ Len(game.players) = m + 1 /\ DOMAIN game.players = 1 .. m + 1
      /\ game.players[m + 1] = player
      /\ \A p \in 1 .. m : game.players[p] = last.players[p]
  BY <1>2, <1>4
<1>6. \A p \in 1 .. m + 1 : p \in 1 .. m \/ p = m + 1
  BY <1>2
<1> HIDE DEF game, m, n
<1>7. ASSUME NEW p \in 1 .. m + 1, NEW q \in 1 .. m + 1,
             game.players[p].user = game.players[q].user
      PROVE  p = q
  <2>1. \A r, t \in 1 .. m : last.players[r].user = last.players[t].user => r = t
    BY <1>1, <1>2 DEF IsList
  <2>2. \A r \in 1 .. m : last.players[r].user # player.user
    BY <1>2 DEF n
  <2>3. QED
    BY <1>5, <1>6, <1>7, <2>1, <2>2
<1>8. m <= m + 1
  BY <1>2
<1>9. [games EXCEPT ![n].players = Append(@, player)] = [games EXCEPT ![n] = game]
  BY <1>1 DEF game
<1>10. QED
  BY <1>2, <1>4, <1>5, <1>7, <1>8, <1>9, LastWritten DEF game, m, n

LEMMA LimitWritten ==
  ASSUME NEW games, IsList(games), games # <<>>, NEW limit \in Limits
  PROVE  LET new == [games EXCEPT ![Len(games)].limit = limit]
         IN /\ IsList(new) /\ Len(new) = Len(games)
            /\ new[Len(games)] = [games[Len(games)] EXCEPT !.limit = limit]
            /\ Continues(games, new, Len(games) - 1)
<1> DEFINE n == Len(games)
           last == games[n]
           game == [last EXCEPT !.limit = limit]
<1>1. games \in Seq(Listing) /\ n \in Nat /\ n > 0 /\ n \in 1 .. n /\ DOMAIN games = 1 .. n
  BY DEF IsList
<1>2. last \in Listing /\ last.players \in Seq(Accounts) /\ Len(last.players) \in Nat
  <2>1. last \in Listing
    BY <1>1
  <2>2. QED
    BY <2>1 DEF Listing
<1>3. game \in Listing /\ game.id = last.id /\ game.players = last.players
  BY <1>2 DEF Listing
<1>4. \A p, q \in DOMAIN last.players : last.players[p].user = last.players[q].user => p = q
  BY <1>1 DEF IsList
<1>5. [games EXCEPT ![n].limit = limit] = [games EXCEPT ![n] = game]
  BY <1>1
<1>6. Len(last.players) <= Len(last.players)
  BY <1>2
<1> HIDE DEF game
<1>7. QED
  BY <1>2, <1>3, <1>4, <1>5, <1>6, LastWritten DEF game

-----------------------------------------------------------------------------
(* The players of a list.                                                   *)

\* The least element of a set of numbers: induction over a list is by its first
\* counterexample.
LEMMA LeastNumber ==
  ASSUME NEW T, T \subseteq Nat, T # {}
  PROVE  \E x \in T : \A y \in T : x <= y
<1>1. \E R : IsWellFoundedOn(R, Nat) /\ \A x, y \in Nat : y < x => <<y, x>> \in R
  <2>1. \A x, y \in Nat : y < x => <<y, x>> \in OpToRel(<, Nat)
    BY DEF OpToRel
  <2>2. QED
    BY <2>1, NatLessThanWellFounded, Zenon
<1>2. PICK R : IsWellFoundedOn(R, Nat) /\ \A x, y \in Nat : y < x => <<y, x>> \in R
  BY <1>1
<1>3. PICK x \in T : \A y \in T : ~ (<<y, x>> \in R)
  BY <1>2, WFMin, Zenon
<1>4. \A y \in T : ~ (y < x)
  BY <1>2, <1>3
<1>5. QED
  BY <1>4

\* The equation of PlayersIn, up to a game.
Sums(f, games, m) ==
    f = [n \in 0 .. m |-> IF n = 0 THEN 0 ELSE f[n - 1] + Len(games[n].players)]

LEMMA SumsExist ==
  ASSUME NEW games \in Seq(Listing)
  PROVE  \A m \in 0 .. Len(games) : \E f : Sums(f, games, m) /\ f \in [0 .. m -> Nat]
<1> DEFINE T == {m \in 0 .. Len(games) : ~ \E f : Sums(f, games, m) /\ f \in [0 .. m -> Nat]}
<1> SUFFICES ASSUME T # {} PROVE FALSE
  OBVIOUS
<1>1. Len(games) \in Nat /\ \A n \in 1 .. Len(games) : Len(games[n].players) \in Nat
  <2>1. \A n \in 1 .. Len(games) : games[n] \in Listing
    OBVIOUS
  <2>2. \A n \in 1 .. Len(games) : games[n].players \in Seq(Accounts)
    BY <2>1 DEF Listing
  <2>3. QED
    BY <2>2
<1>2. PICK m \in T : \A n \in T : m <= n
  <2>1. T \subseteq Nat
    BY <1>1
  <2>2. QED
    BY <2>1, LeastNumber
<1>3. m \in 0 .. Len(games) /\ m \in Nat
  BY <1>1, <1>2
<1>4. m # 0
  <2>1. Sums([n \in 0 .. 0 |-> 0], games, 0)
    BY DEF Sums
  <2>2. [n \in 0 .. 0 |-> 0] \in [0 .. 0 -> Nat]
    OBVIOUS
  <2>3. QED
    BY <1>2, <2>1, <2>2
<1>5. m - 1 \in 0 .. Len(games) /\ m - 1 \notin T /\ m \in 1 .. Len(games)
  <2>1. m - 1 \in 0 .. Len(games) /\ m \in 1 .. Len(games) /\ ~ (m <= m - 1)
    BY <1>1, <1>3, <1>4
  <2> HIDE DEF T
  <2>2. QED
    BY <1>2, <2>1
<1>6. PICK f : Sums(f, games, m - 1) /\ f \in [0 .. m - 1 -> Nat]
  BY <1>5
<1> DEFINE g == [n \in 0 .. m |-> IF n = m THEN f[m - 1] + Len(games[m].players) ELSE f[n]]
<1>7. \A n \in 0 .. m : n = m \/ n \in 0 .. m - 1
  BY <1>3
<1>8. g \in [0 .. m -> Nat]
  BY <1>1, <1>3, <1>4, <1>5, <1>6, <1>7
<1>9. Sums(g, games, m)
  <2>1. \A n \in 0 .. m - 1 : f[n] = IF n = 0 THEN 0 ELSE f[n - 1] + Len(games[n].players)
    BY <1>6 DEF Sums
  <2>2. ASSUME NEW n \in 0 .. m
        PROVE  g[n] = IF n = 0 THEN 0 ELSE g[n - 1] + Len(games[n].players)
    <3>1. CASE n = m
      BY <1>3, <1>4, <3>1
    <3>2. CASE n # m
      <4>1. n \in 0 .. m - 1 /\ (n # 0 => n - 1 \in 0 .. m /\ n - 1 # m)
        BY <1>3, <3>2
      <4>2. QED
        BY <2>1, <3>2, <4>1
    <3>3. QED
      BY <3>1, <3>2
  <2>3. g = [n \in 0 .. m |-> g[n]]
    OBVIOUS
  <2> HIDE DEF g
  <2>4. QED
    BY <2>2, <2>3 DEF Sums
<1>10. QED
  BY <1>2, <1>8, <1>9

LEMMA PlayersInSums ==
  ASSUME NEW games \in Seq(Listing)
  PROVE  /\ PlayersIn(games)[0] = 0
         /\ \A n \in 1 .. Len(games) :
              PlayersIn(games)[n] = PlayersIn(games)[n - 1] + Len(games[n].players)
         /\ \A n \in 0 .. Len(games) : PlayersIn(games)[n] \in Nat
<1> DEFINE m == Len(games)
<1>1. m \in Nat
  OBVIOUS
<1>2. PICK f : Sums(f, games, m) /\ f \in [0 .. m -> Nat]
  BY <1>1, SumsExist
<1>3. Sums(PlayersIn(games), games, m)
  BY <1>2 DEF Sums, PlayersIn
<1>4. \A n \in 0 .. m : PlayersIn(games)[n] =
         IF n = 0 THEN 0 ELSE PlayersIn(games)[n - 1] + Len(games[n].players)
  BY <1>3 DEF Sums
<1> DEFINE T == {n \in 0 .. m : PlayersIn(games)[n] # f[n]}
<1>5. T = {}
  <2>1. SUFFICES ASSUME T # {} PROVE FALSE
    OBVIOUS
  <2>2. PICK n \in T : \A l \in T : n <= l
    <3>1. T \subseteq Nat
      BY <1>1
    <3>2. QED
      BY <2>1, <3>1, LeastNumber
  <2>3. n \in 0 .. m /\ f[n] = IF n = 0 THEN 0 ELSE f[n - 1] + Len(games[n].players)
    BY <1>2, <2>2 DEF Sums
  <2>4. n # 0 => n - 1 \in 0 .. m /\ n - 1 \notin T
    BY <1>1, <2>2
  <2>5. QED
    BY <1>4, <2>2, <2>3, <2>4
<1>6. \A n \in 0 .. m : PlayersIn(games)[n] = f[n] /\ f[n] \in Nat
  BY <1>2, <1>5
<1>7. 0 \in 0 .. m /\ \A n \in 1 .. m : n \in 0 .. m /\ n # 0
  BY <1>1
<1>8. QED
  BY <1>4, <1>6, <1>7

LEMMA SamePlayers ==
  ASSUME NEW old \in Seq(Listing), NEW new \in Seq(Listing), NEW m \in Nat,
         m <= Len(old), m <= Len(new), \A g \in 1 .. m : new[g] = old[g]
  PROVE  PlayersIn(new)[m] = PlayersIn(old)[m]
<1> DEFINE T == {n \in 0 .. m : PlayersIn(new)[n] # PlayersIn(old)[n]}
<1> SUFFICES ASSUME T # {} PROVE FALSE
  OBVIOUS
<1>1. Len(old) \in Nat /\ Len(new) \in Nat
  OBVIOUS
<1>2. PICK n \in T : \A l \in T : n <= l
  <2>1. T \subseteq Nat
    OBVIOUS
  <2>2. QED
    BY <2>1, LeastNumber
<1>3. n # 0
  BY <1>2, PlayersInSums
<1>4. n \in 1 .. Len(old) /\ n \in 1 .. Len(new) /\ n \in 1 .. m /\ n - 1 \in 0 .. m /\ n - 1 \notin T
  BY <1>1, <1>2, <1>3
<1>5. /\ PlayersIn(old)[n] = PlayersIn(old)[n - 1] + Len(old[n].players)
      /\ PlayersIn(new)[n] = PlayersIn(new)[n - 1] + Len(new[n].players)
  BY <1>4, PlayersInSums
<1>6. QED
  BY <1>2, <1>4, <1>5

-----------------------------------------------------------------------------
(* What the writer does to the list.                                        *)

LEMMA CompleteType ==
  ASSUME ListInv
  PROVE  /\ Len(list) \in Nat /\ Complete \in Nat /\ Complete <= Len(list)
         /\ list \in Seq(Listing) /\ DOMAIN list = 1 .. Len(list)
         /\ doc.at # "list" => Len(list) > 0 /\ Complete = Len(list) - 1
         /\ doc.at = "list" => Complete = Len(list)
<1>1. list \in Seq(Listing)
  BY DEF ListInv, IsList
<1>2. QED
  BY <1>1 DEF ListInv, Complete

LEMMA SameList ==
  ASSUME ListInv, NEW n \in Nat
  PROVE  Continues(list, list, n)
<1>1. list \in Seq(Listing) /\ Len(list) \in Nat
  BY CompleteType
<1>2. ASSUME NEW g \in 1 .. Len(list) PROVE Len(list[g].players) \in Nat
  <2>1. list[g] \in Listing
    BY <1>1
  <2>2. list[g].players \in Seq(Accounts)
    BY <2>1 DEF Listing
  <2>3. QED
    BY <2>2
<1>3. QED
  BY <1>1, <1>2 DEF Continues

LEMMA GameList ==
  ASSUME ScanInv, ListInv, NEW id \in Ids \cup {NULL}, WriteGame(id)
  PROVE  /\ ListInv' /\ UNCHANGED history /\ Continues(list, list', Complete)
         /\ Len(list') = Len(list) + 1
         /\ list'[Len(list')] = [id |-> id, limit |-> 0, players |-> <<>>]
         /\ doc.at = "list" /\ doc'.at = "game"
         /\ doc'.servers = doc.servers /\ doc'.players = doc.players
<1>1. /\ UNCHANGED history /\ doc.at = "list" /\ doc' = [doc EXCEPT !.at = "game"]
      /\ list' = Append(list, [id |-> id, limit |-> 0, players |-> <<>>])
      /\ \A g \in DOMAIN list : list[g].id = id => id = NULL
  BY DEF WriteGame, Call
<1>2. doc'.at = "game" /\ doc'.servers = doc.servers /\ doc'.players = doc.players
  BY <1>1 DEF ScanInv, DocInv
<1>3. IsList(list)
  BY DEF ListInv
<1>4. /\ IsList(list') /\ Len(list') = Len(list) + 1
      /\ list'[Len(list')] = [id |-> id, limit |-> 0, players |-> <<>>]
      /\ Continues(list, list', Len(list))
  BY <1>1, <1>3, GameWritten
<1>5. list' # <<>>
  BY <1>4, CompleteType
<1>6. ListInv'
  BY <1>1, <1>2, <1>4, <1>5 DEF ListInv, Writing, history
<1>7. QED
  BY <1>1, <1>2, <1>4, <1>6 DEF Complete

LEMMA UserList ==
  ASSUME ScanInv, ListInv, NEW player \in Accounts, WriteUser(player)
  PROVE  /\ ListInv' /\ UNCHANGED <<list, history>>
         /\ doc.at = "game" /\ doc'.at = "user" /\ doc'.player = player
         /\ doc'.servers = doc.servers /\ doc'.players = doc.players
<1>1. /\ UNCHANGED <<list, history>> /\ doc.at = "game"
      /\ doc' = [doc EXCEPT !.at = "user", !.player = player]
      /\ \A p \in DOMAIN this.players : this.players[p].user # player.user
  BY DEF WriteUser, Call
<1>2. doc'.at = "user" /\ doc'.player = player /\ doc'.servers = doc.servers /\ doc'.players = doc.players
  BY <1>1 DEF ScanInv, DocInv
<1>3. ListInv'
  BY <1>1, <1>2 DEF ListInv, Writing, history, this
<1>4. QED
  BY <1>1, <1>2, <1>3

LEMMA NameList ==
  ASSUME ScanInv, ListInv, WriteName
  PROVE  /\ ListInv' /\ UNCHANGED <<list, history>>
         /\ doc.at = "user" /\ doc'.at = "name" /\ doc'.player = doc.player
         /\ doc'.servers = doc.servers /\ doc'.players = doc.players
<1>1. UNCHANGED <<list, history>> /\ doc.at = "user" /\ doc' = [doc EXCEPT !.at = "name"]
  BY DEF WriteName, Call
<1>2. doc'.at = "name" /\ doc'.player = doc.player /\ doc'.servers = doc.servers /\ doc'.players = doc.players
  BY <1>1 DEF ScanInv, DocInv
<1>3. ListInv'
  BY <1>1, <1>2 DEF ListInv, Writing, history, this
<1>4. QED
  BY <1>1, <1>2, <1>3

LEMMA TeamList ==
  ASSUME ScanInv, ListInv, WriteTeam
  PROVE  /\ ListInv' /\ UNCHANGED history /\ Continues(list, list', Complete)
         /\ Len(list') = Len(list)
         /\ list'[Len(list)] = [this EXCEPT !.players = Append(@, doc.player)]
         /\ doc.at = "name" /\ doc'.at = "game"
         /\ doc'.servers = doc.servers /\ doc'.players = doc.players + 1
<1>1. /\ UNCHANGED history /\ doc.at = "name"
      /\ doc' = [at |-> "game", servers |-> doc.servers, players |-> doc.players + 1, player |-> NULL]
      /\ list' = [list EXCEPT ![Len(list)].players = Append(@, doc.player)]
  BY DEF WriteTeam, Call
<1>2. doc'.at = "game" /\ doc'.servers = doc.servers /\ doc'.players = doc.players + 1
  BY <1>1
<1>3. /\ IsList(list) /\ list # <<>> /\ doc.player \in Accounts
      /\ \A p \in DOMAIN list[Len(list)].players : list[Len(list)].players[p].user # doc.player.user
  BY <1>1 DEF ListInv, Writing, this
<1>4. /\ IsList(list') /\ Len(list') = Len(list)
      /\ list'[Len(list)] = [list[Len(list)] EXCEPT !.players = Append(@, doc.player)]
      /\ Continues(list, list', Len(list) - 1)
  BY <1>1, <1>3, PlayerWritten
<1>5. list' # <<>>
  BY <1>1, <1>4, CompleteType
<1>6. ListInv'
  BY <1>1, <1>2, <1>4, <1>5 DEF ListInv, Writing, history
<1>7. QED
  BY <1>1, <1>2, <1>4, <1>6 DEF Complete, this

LEMMA EndList ==
  ASSUME ScanInv, ListInv, NEW limit \in Limits, EndGame(limit)
  PROVE  /\ ListInv' /\ UNCHANGED history /\ Continues(list, list', Complete)
         /\ Len(list') = Len(list)
         /\ list'[Len(list)] = [this EXCEPT !.limit = limit]
         /\ doc.at = "game" /\ doc'.at = "list" /\ doc'.servers = doc.servers + 1
<1>1. /\ UNCHANGED history /\ doc.at = "game"
      /\ doc' = [at |-> "list", servers |-> doc.servers + 1, players |-> 0, player |-> NULL]
      /\ list' = [list EXCEPT ![Len(list)].limit = limit]
  BY DEF EndGame, Call
<1>2. doc'.at = "list" /\ doc'.servers = doc.servers + 1
  BY <1>1
<1>3. IsList(list) /\ list # <<>>
  BY <1>1 DEF ListInv
<1>4. /\ IsList(list') /\ Len(list') = Len(list)
      /\ list'[Len(list)] = [list[Len(list)] EXCEPT !.limit = limit]
      /\ Continues(list, list', Len(list) - 1)
  BY <1>1, <1>3, LimitWritten
<1>5. ListInv'
  BY <1>1, <1>2, <1>4 DEF ListInv, Writing, history
<1>6. QED
  BY <1>1, <1>2, <1>4, <1>5 DEF Complete, this

-----------------------------------------------------------------------------
(* A call, by what it leaves alone.                                         *)

LEMMA NoticesKept ==
  ASSUME UNCHANGED previous, NEW rows, \A g \in rows : gameinfo'[g] = gameinfo[g]
  PROVE  UNION {GameNotices(gameinfo[g])' : g \in rows} = UNION {GameNotices(gameinfo[g]) : g \in rows}
<1>1. ASSUME NEW g \in rows PROVE GameNotices(gameinfo[g])' = GameNotices(gameinfo[g])
  <2>1. gameinfo'[g] = gameinfo[g]
    BY <1>1
  <2>2. FindGame(gameinfo_prev, gameinfo_prev_count, gameinfo[g].unique_identifier)'
          = FindGame(gameinfo_prev, gameinfo_prev_count, gameinfo[g].unique_identifier)
    BY <2>1 DEF FindGame, previous
  <2>3. QED
    BY <2>1, <2>2 DEF GameNotices, Notice, Full
<1>2. QED
  BY <1>1

LEMMA RowsTold ==
  ASSUME UNCHANGED previous, ToSet(hGameList') = ToSet(hGameList),
         \A g \in ToSet(hGameList) : gameinfo'[g] = gameinfo[g]
  PROVE  ToldOfRows' = ToldOfRows
<1>1. ToldOfRows' = UNION {GameNotices(gameinfo[g])' : g \in ToSet(hGameList)}
  BY DEF ToldOfRows
<1>2. QED
  BY <1>1, NoticesKept DEF ToldOfRows

\* What is told of a game depends on the table of the scan before.
LEMMA NoticesNow ==
  ASSUME UNCHANGED previous
  PROVE  \A s : GameNotices(gameinfo[s])' = GameNotices(gameinfo'[s])
<1> SUFFICES ASSUME NEW s PROVE GameNotices(gameinfo[s])' = GameNotices(gameinfo'[s])
  OBVIOUS
<1>1. FindGame(gameinfo_prev, gameinfo_prev_count, gameinfo[s].unique_identifier)'
        = FindGame(gameinfo_prev, gameinfo_prev_count, gameinfo'[s].unique_identifier)
  BY DEF FindGame, previous
<1>2. QED
  BY <1>1 DEF GameNotices, Notice, Full

\* A game of the list, or of the table, that has not changed.
LEMMA RowSlots ==
  ASSUME IndInv, ListInv, RowsInv, NEW g \in ToSet(hGameList)
  PROVE  g \in GameSlots /\ g + 1 \in 1 .. Complete
<1>1. hGameList \in Seq(GameSlots)
  BY DEF IndInv, TypeOK
<1>2. PICK r \in DOMAIN hGameList : hGameList[r] = g
  BY Rows
<1>3. QED
  BY <1>1, <1>2 DEF RowsInv

\* A row keeps its game: neither the table nor the list changes where it is.
LEMMA RowsKept ==
  ASSUME IndInv, ListInv, ListInv', RowsInv, phase' # "created",
         Continues(list, list', Complete), Complete <= Complete',
         hGameList' = hGameList, scan_count_servers \in Nat, scan_count_servers' \in Nat,
         scan_count_servers <= scan_count_servers',
         \A g \in 1 .. Complete : gameinfo'[g - 1] = gameinfo[g - 1]
  PROVE  RowsInv'
<1>1. hGameList \in Seq(GameSlots) /\ \A r \in DOMAIN hGameList : hGameList[r] \in Nat
  BY DEF IndInv, TypeOK, GameSlots
<1>2. Complete \in Nat /\ Complete' \in Nat
  <2>1. Complete \in Nat
    BY CompleteType
  <2>2. (ListInv => Complete \in Nat)'
    BY CompleteType, PTL
  <2>3. QED
    BY <2>1, <2>2
<1>3. ASSUME NEW r \in DOMAIN hGameList
      PROVE  /\ hGameList[r] + 1 \in 1 .. Complete' /\ hGameList[r] < scan_count_servers'
             /\ Matches(gameinfo'[hGameList[r]], list'[hGameList[r] + 1])
  <2> DEFINE g == hGameList[r] + 1
  <2>1. /\ g \in 1 .. Complete /\ g - 1 = hGameList[r] /\ hGameList[r] < scan_count_servers
        /\ Matches(gameinfo[g - 1], list[g])
    BY <1>1, <1>3 DEF RowsInv
  <2>2. list'[g] = list[g] /\ gameinfo'[g - 1] = gameinfo[g - 1]
    BY <2>1 DEF Continues
  <2>3. QED
    BY <1>1, <1>2, <1>3, <2>1, <2>2
<1>4. QED
  BY <1>3 DEF RowsInv, Matches

LEMMA StoppedStep ==
  ASSUME IndInv, MatchInv, phase = "scanning", phase' = phase, stopped',
         UNCHANGED <<gameinfo, scan_count_servers, window, told, previous, history>>,
         ListInv', Continues(list, list', Complete), Complete <= Complete'
  PROVE  MatchInv'
<1>1. scan_count_servers \in Nat /\ Len(list) \in Nat /\ Len(list) <= Len(list')
  BY CompleteType DEF IndInv, TypeOK, MatchInv, Continues
<1>2. HoldsInv'
  <2>1. /\ scan_count_servers <= Len(list)
        /\ \A g \in 1 .. scan_count_servers : Holds(gameinfo[g - 1], list[g])
    BY DEF MatchInv, HoldsInv
  <2>2. Len(list') \in Nat
    BY DEF ListInv, IsList
  <2>3. ASSUME NEW g \in 1 .. scan_count_servers PROVE Holds(gameinfo[g - 1], list'[g])
    <3>1. /\ Holds(gameinfo[g - 1], list[g])
          /\ list'[g].id = list[g].id
          /\ Len(list[g].players) <= Len(list'[g].players)
          /\ \A p \in 1 .. Len(list[g].players) : list'[g].players[p] = list[g].players[p]
      <4>1. g \in 1 .. Len(list)
        BY <1>1, <2>1
      <4>2. QED
        BY <2>1, <4>1 DEF Continues
    <3>2. Len(list[g].players) \in Nat /\ Len(list'[g].players) \in Nat
      <4>1. list[g] \in Listing /\ list'[g] \in Listing
        BY <1>1, <2>1, <2>2, CompleteType DEF MatchInv, ListInv, IsList
      <4>2. list[g].players \in Seq(Accounts) /\ list'[g].players \in Seq(Accounts)
        BY <4>1 DEF Listing
      <4>3. QED
        BY <4>2
    <3>3. gameinfo[g - 1].player_count \in Nat
      <4>1. g - 1 \in GameSlots
        BY <1>1 DEF IndInv, CursorInv, GameSlots
      <4>2. gameinfo[g - 1] \in GameInfo
        BY <4>1 DEF IndInv, TypeOK
      <4>3. QED
        BY <4>2 DEF GameInfo
    <3>4. QED
      BY <3>1, <3>2, <3>3 DEF Holds
  <2>4. QED
    BY <1>1, <2>1, <2>2, <2>3 DEF HoldsInv, Holds, Entry
<1>3. RowsInv'
  BY <1>1, RowsKept DEF MatchInv, window
<1>4. CurrentInv' /\ StatusInv'
  BY DEF CurrentInv, StatusInv, Current
<1>5. PrevInv'
  BY DEF MatchInv, PrevInv, Matches, previous, history
<1>6. ToldInv'
  <2>1. ToldOfRows' = ToldOfRows
    BY RowsTold DEF window
  <2>2. QED
    BY <2>1 DEF MatchInv, ToldInv
<1>7. QED
  BY <1>2, <1>3, <1>4, <1>5, <1>6 DEF MatchInv

\* The game being written is filled.
LEMMA FilledStep ==
  ASSUME IndInv, MatchInv, phase = "scanning", phase' = phase, ~stopped, ~stopped',
         UNCHANGED <<window, told, previous, history>>,
         ListInv', Continues(list, list', Complete), Complete' = Complete,
         doc'.at # "list", scan_count_servers' = Len(list'), Len(list) <= Len(list'),
         \A g \in 1 .. Complete : gameinfo'[g - 1] = gameinfo[g - 1],
         FillsThis'
  PROVE  MatchInv'
<1>1. /\ scan_count_servers = Len(list) /\ Len(list) \in Nat /\ Complete \in Nat
      /\ Len(list') \in Nat /\ Complete = Len(list') - 1
      /\ \A g \in 1 .. Complete : Matches(gameinfo[g - 1], list[g])
  <2>1. (ListInv => Len(list) \in Nat /\ (doc.at # "list" => Complete = Len(list) - 1))'
    BY CompleteType, PTL
  <2>2. QED
    BY <2>1, CompleteType DEF MatchInv, CurrentInv, Current
<1>2. \A g \in 1 .. Complete : Matches(gameinfo'[g - 1], list'[g])
  BY <1>1 DEF Continues
<1>3. HoldsInv'
  <2>1. ASSUME NEW g \in 1 .. Len(list') PROVE Holds(gameinfo'[g - 1], list'[g])
    <3>1. CASE g \in 1 .. Complete
      <4>1. Matches(gameinfo'[g - 1], list'[g])
        BY <1>2, <3>1
      <4>2. list'[g].players \in Seq(Accounts)
        <5>1. list'[g] \in Listing
          BY DEF ListInv, IsList
        <5>2. QED
          BY <5>1 DEF Listing
      <4>3. Len(list'[g].players) \in Nat /\ DOMAIN list'[g].players = 1 .. Len(list'[g].players)
        BY <4>2
      <4>4. /\ gameinfo'[g - 1].unique_identifier = list'[g].id
            /\ gameinfo'[g - 1].player_count = Len(list'[g].players)
            /\ \A p \in 1 .. Len(list'[g].players) :
                 gameinfo'[g - 1].playerinfo[p - 1] = Entry(list'[g].players[p])
        BY <4>1, <4>3 DEF Matches, Entry
      <4>5. QED
        BY <4>3, <4>4 DEF Holds
    <3>2. CASE g = Len(list')
      BY <3>2 DEF FillsThis, Holds, this, Entry
    <3>3. QED
      BY <1>1, <3>1, <3>2
  <2>2. Len(list') <= Len(list')
    BY <1>1
  <2>3. QED
    BY <2>1, <2>2 DEF HoldsInv, Holds, Entry
<1>4. RowsInv'
  BY <1>1, RowsKept DEF MatchInv, window
<1>5. CurrentInv'
  BY <1>1, <1>2 DEF MatchInv, CurrentInv, Current, window, Matches
<1>6. PrevInv'
  BY DEF MatchInv, PrevInv, Matches, previous, history
<1>7. ToldInv'
  <2>1. \A g \in ToSet(hGameList) : gameinfo'[g] = gameinfo[g]
    <3>1. ASSUME NEW g \in ToSet(hGameList) PROVE gameinfo'[g] = gameinfo[g]
      <4>1. g \in Nat /\ g + 1 \in 1 .. Complete
        BY RowSlots DEF MatchInv, GameSlots
      <4>2. (g + 1) - 1 = g
        BY <4>1
      <4>3. QED
        BY <4>1, <4>2
    <3>2. QED
      BY <3>1
  <2>2. ToldOfRows' = ToldOfRows
    BY <2>1, RowsTold DEF window
  <2>3. QED
    BY <2>2 DEF MatchInv, ToldInv
<1>8. StatusInv'
  <2>1. PlayersIn(list')[Complete] = PlayersIn(list)[Complete]
    <3>1. list \in Seq(Listing) /\ list' \in Seq(Listing) /\ Complete <= Len(list)
      BY CompleteType DEF MatchInv, ListInv, IsList
    <3>2. \A g \in 1 .. Complete : list'[g] = list[g]
      BY <1>1 DEF Continues
    <3>3. Len(list') \in Nat /\ Complete = Len(list') - 1
      BY <1>1, <3>1
    <3>4. Complete <= Len(list')
      BY <3>3
    <3>5. QED
      BY <1>1, <3>1, <3>2, <3>4, SamePlayers
  <2>2. PlayersIn(list)' = PlayersIn(list')
    BY DEF PlayersIn
  <2>3. QED
    BY <2>1, <2>2 DEF MatchInv, StatusInv, Current, window
<1>9. QED
  BY <1>3, <1>4, <1>5, <1>6, <1>7, <1>8 DEF MatchInv

-----------------------------------------------------------------------------
(* The calls of the writer.                                                 *)

LEMMA CallCases ==
  ASSUME ScanInv, NEW k, Call(k), CallFits(k)
  PROVE  /\ phase = "scanning" /\ phase' = phase /\ ~stopped
         /\ UNCHANGED <<previous, iContinueScan, history>>
         /\ k \in KeyValueInfo /\ InOrder(k) /\ WellFormed(k)
         /\ Refuse(k) \/ SkipsPlayer(k) \/ PlayerPair(k) \/ ServerPair(k)
<1>1. ProcessSessionInfo(k) /\ UNCHANGED history /\ ~stopped
  BY DEF Call, Source!Data
<1>2. InOrder(k)
  BY <1>1, CallInOrder DEF ProcessSessionInfo
<1>3. QED
  BY <1>1, <1>2 DEF ProcessSessionInfo, CallFits

\* Where the writer is, and which game the table fills.
LEMMA Position ==
  ASSUME IndInv, MatchInv, phase = "scanning", ~stopped, NEW k, CallFits(k), InOrder(k), ~Refused(k)
  PROVE  /\ Len(list) \in Nat /\ scan_count_servers = Len(list)
         /\ Game(k) = doc.servers /\ Game(k) \in GameSlots /\ k.player_index = doc.players
         /\ k.player_index \in PlayerSlots
         /\ gameinfo \in [GameSlots -> GameInfo]
         /\ doc.at = "list" =>
              /\ NewServer(k) /\ Game(k) = Len(list) /\ Players(k) = 0
              /\ Games(k) = [gameinfo EXCEPT ![Len(list)] = NewGame]
         /\ doc.at # "list" =>
              /\ ~NewServer(k) /\ Game(k) = Len(list) - 1 /\ Players(k) = scan_count_players
              /\ Games(k) = gameinfo /\ FillsThis
<1>1. /\ scan_count_servers = Len(list) /\ Len(list) \in Nat
      /\ doc.at = "list" => doc.servers >= Len(list)
      /\ doc.at # "list" => FillsThis /\ doc.servers = Len(list) - 1
  BY CompleteType DEF MatchInv, CurrentInv, Current, FillsThis
<1>2. /\ k \in KeyValueInfo /\ k.server_index = doc.servers /\ k.player_index = doc.players
      /\ k.server_index \in Nat
  BY DEF CallFits, KeyValueInfo
<1>3. /\ Game(k) \in GameSlots /\ Game(k) = k.server_index /\ k.player_index \in PlayerSlots
  BY <1>2, PairBegins DEF PlayerSlots
<1>4. k.server_index <= scan_count_servers
  BY <1>1, <1>2 DEF Refused
<1>5. gameinfo \in [GameSlots -> GameInfo]
  BY DEF IndInv, TypeOK
<1>6. CASE doc.at = "list"
  <2>1. k.server_index = Len(list) /\ k.server_index >= scan_count_servers
    BY <1>1, <1>2, <1>4, <1>6
  <2>2. NewServer(k) /\ Players(k) = 0 /\ Games(k) = [gameinfo EXCEPT ![Len(list)] = NewGame]
    BY <2>1 DEF NewServer, Games, Players
  <2>3. QED
    BY <1>1, <1>2, <1>3, <1>5, <1>6, <2>1, <2>2
<1>7. CASE doc.at # "list"
  BY <1>1, <1>2, <1>3, <1>4, <1>5, <1>7 DEF NewServer, Games, Players
<1>8. QED
  BY <1>6, <1>7

LEMMA GameStep ==
  ASSUME ScanInv, IndInv, MatchInv, NEW id \in Ids \cup {NULL}, WriteGame(id)
  PROVE  MatchInv'
<1> DEFINE key == IF id = NULL THEN "other" ELSE "SERVERKEY_G"
           k == NewPair(FALSE, FALSE, key, id)
<1>1. /\ ListInv' /\ UNCHANGED history /\ Continues(list, list', Complete)
      /\ Len(list') = Len(list) + 1
      /\ list'[Len(list')] = [id |-> id, limit |-> 0, players |-> <<>>]
      /\ doc.at = "list" /\ doc'.at = "game"
      /\ doc'.servers = doc.servers /\ doc'.players = doc.players
  BY GameList DEF MatchInv
<1>2. doc.servers \in Nat /\ doc.players \in Nat
  BY DEF ScanInv, DocInv
<1>3. Call(k) /\ CallFits(k) /\ ~EndsBlock(k) /\ ~k.is_player
  BY <1>2 DEF WriteGame, NewPair, WellFormed, CallFits, KeyValueInfo, EndsBlock
<1>4. k.key = key /\ k.value = id
  BY DEF NewPair
<1> HIDE DEF k
<1>5. Len(list) \in Nat /\ Complete = Len(list) /\ Complete' = Len(list)
  BY <1>1, CompleteType DEF Complete, MatchInv
<1>6. CASE Refuse(k)
  BY <1>1, <1>3, <1>5, <1>6, CallCases, StoppedStep DEF Refuse, table
<1>7. CASE ServerPair(k)
  <2>1. /\ NewServer(k) /\ Game(k) = Len(list) /\ Players(k) = 0 /\ Game(k) \in GameSlots
        /\ doc.servers = Len(list) /\ scan_count_servers = Len(list)
        /\ Games(k) = [gameinfo EXCEPT ![Len(list)] = NewGame]
        /\ gameinfo \in [GameSlots -> GameInfo]
    BY <1>1, <1>3, <1>7, CallCases, Position DEF ServerPair
  <2>2. /\ gameinfo' = [Games(k) EXCEPT ![Len(list)] = StoreGame(Games(k)[Len(list)], k)]
        /\ scan_count_players' = 0 /\ UNCHANGED <<window, told>> /\ ~stopped'
        /\ scan_count_servers' = Len(list) + 1
    BY <1>3, <1>7, <2>1 DEF ServerPair, ServerBegins
  <2>3. /\ gameinfo'[Len(list)] = StoreGame(NewGame, k)
        /\ \A s \in GameSlots : s # Len(list) => gameinfo'[s] = gameinfo[s]
    BY <2>1, <2>2
  <2>4. /\ StoreGame(NewGame, k).unique_identifier = id
        /\ StoreGame(NewGame, k).playerlimit = 0 /\ StoreGame(NewGame, k).player_count = 0
    BY <1>4 DEF StoreGame, NewGame
  <2>5. \A g \in 1 .. Complete : gameinfo'[g - 1] = gameinfo[g - 1]
    <3>1. \A g \in 1 .. Complete : g - 1 \in GameSlots /\ g - 1 # Len(list)
      BY <1>5, <2>1 DEF GameSlots
    <3>2. QED
      BY <2>3, <3>1
  <2>6. FillsThis'
    <3>1. Len(list') - 1 = Len(list) /\ ~Writing'
      BY <1>1, <1>5 DEF Writing
    <3>2. this' = [id |-> id, limit |-> 0, players |-> <<>>]
      BY <1>1 DEF this
    <3>3. Holds(gameinfo'[Len(list)], this')
      BY <2>3, <2>4, <3>2 DEF Holds
    <3>4. Len(this'.players) = 0
      BY <3>2
    <3>5. doc'.players >= 0 /\ doc'.servers = Len(list') - 1
      BY <1>1, <1>2, <1>5, <2>1
    <3>6. QED
      BY <2>2, <2>3, <2>4, <3>1, <3>3, <3>4, <3>5 DEF FillsThis, Holds, Entry, this
  <2>7. QED
    BY <1>1, <1>3, <1>5, <2>2, <2>5, <2>6, CallCases, FilledStep
<1>8. QED
  BY <1>3, <1>6, <1>7, CallCases DEF SkipsPlayer, PlayerPair

\* What a pair of a player does to the game being filled.
LEMMA PlayerStored ==
  ASSUME ScanInv, IndInv, MatchInv, NEW k, Call(k), CallFits(k), doc.at # "list", PlayerPair(k)
  PROVE  LET g == Len(list) - 1
             p == doc.players
             before == IF p >= scan_count_players THEN NewPlayer ELSE gameinfo[g].playerinfo[p]
         IN /\ g \in GameSlots /\ p \in PlayerSlots /\ p <= scan_count_players
            /\ gameinfo'[g].unique_identifier = gameinfo[g].unique_identifier
            /\ gameinfo'[g].playerlimit = gameinfo[g].playerlimit
            /\ gameinfo'[g].player_count = IF EndsBlock(k) THEN gameinfo[g].player_count + 1
                                           ELSE gameinfo[g].player_count
            /\ gameinfo'[g].playerinfo[p] = StorePlayer(before, k)
            /\ \A q \in PlayerSlots : q # p =>
                 gameinfo'[g].playerinfo[q] = gameinfo[g].playerinfo[q]
            /\ \A s \in GameSlots : s # g => gameinfo'[s] = gameinfo[s]
            /\ scan_count_players' = IF p >= scan_count_players THEN scan_count_players + 1
                                     ELSE scan_count_players
            /\ scan_count_servers' = Len(list) /\ ~stopped' /\ UNCHANGED <<window, told>>
<1> DEFINE g == Len(list) - 1
           p == doc.players
           before == IF p >= scan_count_players THEN NewPlayer ELSE gameinfo[g].playerinfo[p]
           count == IF EndsBlock(k) THEN gameinfo[g].player_count + 1
                    ELSE gameinfo[g].player_count
           game == FilledGame(gameinfo[g], p, StorePlayer(before, k), count)
<1>1. /\ phase = "scanning" /\ ~stopped /\ k \in KeyValueInfo /\ InOrder(k) /\ ~Refused(k)
      /\ k.player_index <= Players(k)
  BY CallCases DEF PlayerPair
<1>2. /\ Game(k) = g /\ g \in GameSlots /\ p \in PlayerSlots /\ k.player_index = p
      /\ Players(k) = scan_count_players /\ Games(k) = gameinfo
      /\ ~NewServer(k) /\ scan_count_servers = Len(list)
      /\ gameinfo \in [GameSlots -> GameInfo]
  BY <1>1, Position
<1>3. scan_count_players \in Nat /\ p \in Nat
  BY <1>2 DEF IndInv, TypeOK, PlayerSlots
<1>4. scan_player' = <<g, p>> /\ scan_player'[1] = g /\ scan_player'[2] = p
  BY <1>1, <1>2, <1>3, PairBegins DEF PlayerPair, NewPlayerBegins
<1>5. gameinfo' = [gameinfo EXCEPT ![g] = game]
  <2>1. gameinfo' = [gameinfo EXCEPT ![g].playerinfo[p] = StorePlayer(before, k),
                                     ![g].player_count = IF EndsBlock(k) THEN @ + 1 ELSE @]
    BY <1>2, <1>4 DEF PlayerPair, NewPlayerBegins
  <2>2. QED
    BY <1>2, <2>1 DEF FilledGame, GameInfo
<1>6. /\ gameinfo[g] \in GameInfo
      /\ gameinfo'[g] = game /\ \A s \in GameSlots : s # g => gameinfo'[s] = gameinfo[s]
  BY <1>2, <1>5
<1>7. /\ game.unique_identifier = gameinfo[g].unique_identifier
      /\ game.playerlimit = gameinfo[g].playerlimit
      /\ game.player_count = count
      /\ game.playerinfo = [gameinfo[g].playerinfo EXCEPT ![p] = StorePlayer(before, k)]
  <2> HIDE DEF before, count
  <2>1. QED
    BY <1>2, <1>6 DEF FilledGame, GameInfo
<1>8. gameinfo[g].playerinfo \in [PlayerSlots -> PlayerInfo]
  BY <1>6 DEF GameInfo
<1>9. /\ game.playerinfo[p] = StorePlayer(before, k)
      /\ \A q \in PlayerSlots : q # p => game.playerinfo[q] = gameinfo[g].playerinfo[q]
  <2> HIDE DEF before, game
  <2>1. QED
    BY <1>2, <1>7, <1>8
<1>10. /\ scan_count_players' = IF p >= scan_count_players THEN scan_count_players + 1
                                ELSE scan_count_players
       /\ scan_count_servers' = Len(list) /\ ~stopped' /\ UNCHANGED <<window, told>>
  BY <1>2 DEF PlayerPair, NewPlayerBegins, ServerBegins
<1> HIDE DEF game
<1>11. QED
  BY <1>1, <1>2, <1>6, <1>7, <1>9, <1>10

\* The player that is skipped.
LEMMA SkippedStep ==
  ASSUME ScanInv, IndInv, MatchInv, NEW k, Call(k), CallFits(k), doc.at # "list",
         Refuse(k) \/ SkipsPlayer(k),
         ListInv', Continues(list, list', Complete), Complete <= Complete'
  PROVE  MatchInv'
<1>1. /\ phase = "scanning" /\ phase' = phase /\ ~stopped /\ UNCHANGED <<previous, history>>
      /\ k \in KeyValueInfo /\ InOrder(k)
  BY CallCases
<1>2. stopped' /\ UNCHANGED <<gameinfo, scan_count_servers, window, told>>
  <2>1. CASE Refuse(k)
    BY <2>1 DEF Refuse, table
  <2>2. CASE SkipsPlayer(k)
    <3>1. ~NewServer(k) /\ Games(k) = gameinfo
      BY <1>1, <2>2, Position DEF SkipsPlayer
    <3>2. QED
      BY <2>2, <3>1 DEF SkipsPlayer, ServerBegins
  <2>3. QED
    BY <2>1, <2>2
<1>3. QED
  BY <1>1, <1>2, StoppedStep

LEMMA SlotsKept ==
  ASSUME IndInv, MatchInv, doc.at # "list", Len(list) - 1 \in GameSlots,
         \A s \in GameSlots : s # Len(list) - 1 => gameinfo'[s] = gameinfo[s]
  PROVE  \A g \in 1 .. Complete : gameinfo'[g - 1] = gameinfo[g - 1]
<1>1. Len(list) \in Nat /\ Complete = Len(list) - 1
  BY CompleteType DEF MatchInv
<1>2. \A g \in 1 .. Complete : g - 1 \in GameSlots /\ g - 1 # Len(list) - 1
  BY <1>1 DEF GameSlots
<1>3. QED
  BY <1>2

LEMMA ThisType ==
  ASSUME ListInv, list # <<>>
  PROVE  /\ this \in Listing /\ this.players \in Seq(Accounts) /\ Len(this.players) \in Nat
         /\ DOMAIN this.players = 1 .. Len(this.players)
<1>1. list \in Seq(Listing) /\ Len(list) > 0
  BY DEF ListInv, IsList
<1>2. this \in Listing
  BY <1>1 DEF this
<1>3. this.players \in Seq(Accounts)
  BY <1>2 DEF Listing
<1>4. QED
  BY <1>2, <1>3

\* The players already counted stay.
LEMMA StillHolds ==
  ASSUME NEW game, NEW filled, NEW listed, Holds(game, listed), NEW p \in PlayerSlots,
         game.player_count \in Nat, game.player_count <= p,
         filled.unique_identifier = game.unique_identifier,
         filled.player_count = game.player_count,
         \A q \in PlayerSlots : q # p => filled.playerinfo[q] = game.playerinfo[q]
  PROVE  Holds(filled, listed)
<1>1. \A q \in 1 .. game.player_count : q - 1 \in PlayerSlots /\ q - 1 # p
  BY DEF PlayerSlots
<1>2. QED
  BY <1>1 DEF Holds

LEMMA PlayerStep ==
  ASSUME ScanInv, IndInv, MatchInv, NEW player \in Accounts, WriteUser(player)
  PROVE  MatchInv'
<1> DEFINE k == NewPair(FALSE, TRUE, "PLAYERKEY_USERID", player.user)
           g == Len(list) - 1
           count == Len(this.players)
<1>1. /\ ListInv' /\ UNCHANGED <<list, history>>
      /\ doc.at = "game" /\ doc'.at = "user" /\ doc'.player = player
      /\ doc'.servers = doc.servers /\ doc'.players = doc.players
  BY UserList DEF MatchInv
<1>2. doc.servers \in Nat /\ doc.players \in Nat /\ player.user \in Users
  BY DEF ScanInv, DocInv
<1>3. Call(k) /\ CallFits(k) /\ ~EndsBlock(k) /\ k.is_player
  BY <1>2 DEF WriteUser, NewPair, WellFormed, CallFits, KeyValueInfo, EndsBlock
<1>4. StorePlayer(NewPlayer, k) = [unique_identifier |-> player.user, ingame_name |-> NULL]
  <2>1. k.key = "PLAYERKEY_USERID" /\ k.value = player.user
    BY DEF NewPair
  <2> HIDE DEF k
  <2>2. StorePlayer(NewPlayer, k) \in PlayerInfo
    <3>1. NewPlayer \in PlayerInfo
      BY DEF NewPlayer, PlayerInfo
    <3>2. QED
      BY <1>3, <3>1, StorePlayerType DEF CallFits
  <2>3. /\ StorePlayer(NewPlayer, k).unique_identifier = player.user
        /\ StorePlayer(NewPlayer, k).ingame_name = NULL
    BY <2>1 DEF StorePlayer, NewPlayer
  <2>4. QED
    BY <2>2, <2>3 DEF PlayerInfo
<1> HIDE DEF k
<1>5. /\ Len(list) \in Nat /\ Complete \in Nat /\ Complete = g /\ Complete' = Complete
      /\ Continues(list, list', Complete) /\ list # <<>> /\ this' = this /\ count \in Nat
  BY <1>1, CompleteType, SameList, ThisType DEF Complete, MatchInv, ListInv, this
<1>6. CASE Refuse(k) \/ SkipsPlayer(k)
  BY <1>1, <1>3, <1>5, <1>6, SkippedStep
<1>7. CASE PlayerPair(k)
  <2>1. /\ phase = "scanning" /\ phase' = phase /\ ~stopped /\ UNCHANGED previous
        /\ scan_count_servers = Len(list) /\ FillsThis
    BY <1>1, <1>3, CallCases DEF MatchInv, CurrentInv, Current
  <2>2. /\ doc.servers = g /\ Holds(gameinfo[g], this) /\ gameinfo[g].player_count = count
        /\ gameinfo[g].playerlimit = 0 /\ doc.players >= count /\ scan_count_players = count
    BY <1>1, <2>1 DEF FillsThis, Writing
  <2>3. g \in GameSlots /\ doc.players \in PlayerSlots /\ doc.players = count
    BY <1>1, <1>2, <1>3, <1>5, <1>7, <2>2, PlayerStored
  <2>4. /\ gameinfo'[g].unique_identifier = gameinfo[g].unique_identifier
        /\ gameinfo'[g].playerlimit = 0 /\ gameinfo'[g].player_count = count
        /\ gameinfo'[g].playerinfo[count] = StorePlayer(NewPlayer, k)
        /\ \A q \in PlayerSlots : q # count => gameinfo'[g].playerinfo[q] = gameinfo[g].playerinfo[q]
        /\ \A s \in GameSlots : s # g => gameinfo'[s] = gameinfo[s]
        /\ scan_count_players' = count + 1
        /\ scan_count_servers' = Len(list) /\ ~stopped' /\ UNCHANGED <<window, told>>
    BY <1>1, <1>3, <1>5, <1>7, <2>2, <2>3, PlayerStored
  <2>5. Holds(gameinfo'[g], this)
    BY <1>5, <2>2, <2>3, <2>4, StillHolds
  <2>6. FillsThis'
    BY <1>1, <1>4, <1>5, <2>2, <2>3, <2>4, <2>5 DEF FillsThis, Writing, Holds, Entry
  <2>7. \A h \in 1 .. Complete : gameinfo'[h - 1] = gameinfo[h - 1]
    BY <1>1, <2>3, <2>4, SlotsKept
  <2>8. QED
    BY <1>1, <1>5, <2>1, <2>4, <2>6, <2>7, FilledStep
<1>8. QED
  BY <1>3, <1>6, <1>7, CallCases DEF ServerPair

LEMMA NickStep ==
  ASSUME ScanInv, IndInv, MatchInv, WriteName
  PROVE  MatchInv'
<1> DEFINE k == NewPair(FALSE, TRUE, "PLAYERKEY_NAME", doc.player.name)
           g == Len(list) - 1
           count == Len(this.players)
<1>1. /\ ListInv' /\ UNCHANGED <<list, history>>
      /\ doc.at = "user" /\ doc'.at = "name" /\ doc'.player = doc.player
      /\ doc'.servers = doc.servers /\ doc'.players = doc.players
  BY NameList DEF MatchInv
<1>2. /\ doc.servers \in Nat /\ doc.players \in Nat
      /\ doc.player.user \in Users /\ doc.player.name \in Names
  BY <1>1 DEF ScanInv, DocInv
<1>3. Call(k) /\ CallFits(k) /\ ~EndsBlock(k) /\ k.is_player
  BY <1>2 DEF WriteName, NewPair, WellFormed, CallFits, KeyValueInfo, EndsBlock
<1>4. k.key = "PLAYERKEY_NAME" /\ k.value = doc.player.name
  BY DEF NewPair
<1> HIDE DEF k
<1>5. /\ Len(list) \in Nat /\ Complete \in Nat /\ Complete = g /\ Complete' = Complete
      /\ Continues(list, list', Complete) /\ list # <<>> /\ this' = this /\ count \in Nat
  BY <1>1, CompleteType, SameList, ThisType DEF Complete, MatchInv, ListInv, this
<1>6. CASE Refuse(k) \/ SkipsPlayer(k)
  BY <1>1, <1>3, <1>5, <1>6, SkippedStep
<1>7. CASE PlayerPair(k)
  <2>1. /\ phase = "scanning" /\ phase' = phase /\ ~stopped /\ UNCHANGED previous
        /\ scan_count_servers = Len(list) /\ FillsThis
    BY <1>1, <1>3, CallCases DEF MatchInv, CurrentInv, Current
  <2>2. /\ doc.servers = g /\ Holds(gameinfo[g], this) /\ gameinfo[g].player_count = count
        /\ gameinfo[g].playerlimit = 0 /\ doc.players = count /\ scan_count_players = count + 1
        /\ gameinfo[g].playerinfo[count] = [unique_identifier |-> doc.player.user, ingame_name |-> NULL]
    BY <1>1, <2>1 DEF FillsThis, Writing
  <2>3. g \in GameSlots /\ doc.players \in PlayerSlots
    BY <1>1, <1>3, <1>7, PlayerStored
  <2>4. /\ gameinfo'[g].unique_identifier = gameinfo[g].unique_identifier
        /\ gameinfo'[g].playerlimit = 0 /\ gameinfo'[g].player_count = count
        /\ gameinfo'[g].playerinfo[count] = StorePlayer(gameinfo[g].playerinfo[count], k)
        /\ \A q \in PlayerSlots : q # count => gameinfo'[g].playerinfo[q] = gameinfo[g].playerinfo[q]
        /\ \A s \in GameSlots : s # g => gameinfo'[s] = gameinfo[s]
        /\ scan_count_players' = count + 1
        /\ scan_count_servers' = Len(list) /\ ~stopped' /\ UNCHANGED <<window, told>>
    <3>1. ~(count >= scan_count_players)
      BY <1>5, <2>2
    <3>2. QED
      BY <1>1, <1>3, <1>5, <1>7, <2>2, <2>3, <3>1, PlayerStored
  <2>5. StorePlayer(gameinfo[g].playerinfo[count], k) =
          [unique_identifier |-> doc.player.user, ingame_name |-> doc.player.name]
    <3>1. gameinfo[g].playerinfo[count] \in PlayerInfo
      <4>1. gameinfo[g] \in GameInfo
        BY <2>3 DEF IndInv, TypeOK
      <4>2. QED
        BY <2>2, <2>3, <4>1 DEF GameInfo
    <3>2. StorePlayer(gameinfo[g].playerinfo[count], k) \in PlayerInfo
      BY <1>3, <3>1, StorePlayerType DEF CallFits
    <3>3. /\ StorePlayer(gameinfo[g].playerinfo[count], k).unique_identifier = doc.player.user
          /\ StorePlayer(gameinfo[g].playerinfo[count], k).ingame_name = doc.player.name
      BY <1>4, <2>2, <3>1 DEF StorePlayer, PlayerInfo
    <3>4. QED
      BY <3>2, <3>3 DEF PlayerInfo
  <2>6. Holds(gameinfo'[g], this)
    BY <1>5, <2>2, <2>3, <2>4, StillHolds
  <2>7. FillsThis'
    BY <1>1, <1>5, <2>2, <2>4, <2>5, <2>6 DEF FillsThis, Writing, Holds, Entry
  <2>8. \A h \in 1 .. Complete : gameinfo'[h - 1] = gameinfo[h - 1]
    BY <1>1, <2>3, <2>4, SlotsKept
  <2>9. QED
    BY <1>1, <1>5, <2>1, <2>4, <2>7, <2>8, FilledStep
<1>8. QED
  BY <1>3, <1>6, <1>7, CallCases DEF ServerPair

LEMMA TeamStep ==
  ASSUME ScanInv, IndInv, MatchInv, WriteTeam
  PROVE  MatchInv'
<1> DEFINE k == NewPair(TRUE, TRUE, "other", NULL)
           g == Len(list) - 1
           count == Len(this.players)
<1>1. /\ ListInv' /\ UNCHANGED history /\ Continues(list, list', Complete)
      /\ Len(list') = Len(list)
      /\ list'[Len(list)] = [this EXCEPT !.players = Append(@, doc.player)]
      /\ doc.at = "name" /\ doc'.at = "game"
      /\ doc'.servers = doc.servers /\ doc'.players = doc.players + 1
  BY TeamList DEF MatchInv
<1>2. doc.servers \in Nat /\ doc.players \in Nat
  BY DEF ScanInv, DocInv
<1>3. Call(k) /\ CallFits(k) /\ EndsBlock(k) /\ k.is_player
  BY <1>2 DEF WriteTeam, NewPair, WellFormed, CallFits, KeyValueInfo, EndsBlock
<1>4. k.key = "other"
  BY DEF NewPair
<1> HIDE DEF k
<1>5. /\ Len(list) \in Nat /\ Complete \in Nat /\ Complete = g /\ Complete' = Complete
      /\ list # <<>> /\ count \in Nat
  BY <1>1, CompleteType, ThisType DEF Complete, MatchInv, ListInv
<1>6. CASE Refuse(k) \/ SkipsPlayer(k)
  BY <1>1, <1>3, <1>5, <1>6, SkippedStep
<1>7. CASE PlayerPair(k)
  <2>1. /\ phase = "scanning" /\ phase' = phase /\ ~stopped /\ UNCHANGED previous
        /\ scan_count_servers = Len(list) /\ FillsThis
    BY <1>1, <1>3, CallCases DEF MatchInv, CurrentInv, Current
  <2>2. /\ doc.servers = g /\ Holds(gameinfo[g], this) /\ gameinfo[g].player_count = count
        /\ gameinfo[g].playerlimit = 0 /\ doc.players = count /\ scan_count_players = count + 1
        /\ gameinfo[g].playerinfo[count] = Entry(doc.player)
    BY <1>1, <2>1 DEF FillsThis, Writing, Entry
  <2>3. g \in GameSlots /\ doc.players \in PlayerSlots
    BY <1>1, <1>3, <1>7, PlayerStored
  <2>4. /\ gameinfo'[g].unique_identifier = gameinfo[g].unique_identifier
        /\ gameinfo'[g].playerlimit = 0 /\ gameinfo'[g].player_count = count + 1
        /\ gameinfo'[g].playerinfo[count] = StorePlayer(gameinfo[g].playerinfo[count], k)
        /\ \A q \in PlayerSlots : q # count => gameinfo'[g].playerinfo[q] = gameinfo[g].playerinfo[q]
        /\ \A s \in GameSlots : s # g => gameinfo'[s] = gameinfo[s]
        /\ scan_count_players' = count + 1
        /\ scan_count_servers' = Len(list) /\ ~stopped' /\ UNCHANGED <<window, told>>
    <3>1. ~(count >= scan_count_players)
      BY <1>5, <2>2
    <3>2. QED
      BY <1>1, <1>3, <1>5, <1>7, <2>2, <2>3, <3>1, PlayerStored
  <2>5. StorePlayer(gameinfo[g].playerinfo[count], k) = gameinfo[g].playerinfo[count]
    <3>1. gameinfo[g].playerinfo[count] \in PlayerInfo
      <4>1. gameinfo[g] \in GameInfo
        BY <2>3 DEF IndInv, TypeOK
      <4>2. QED
        BY <2>2, <2>3, <4>1 DEF GameInfo
    <3>2. QED
      BY <1>4, <3>1 DEF StorePlayer, PlayerInfo
  <2>6. /\ this' = [this EXCEPT !.players = Append(@, doc.player)]
        /\ this'.id = this.id /\ Len(this'.players) = count + 1
        /\ this'.players[count + 1] = doc.player
        /\ \A p \in 1 .. count : this'.players[p] = this.players[p]
    <3>1. this \in Listing /\ this.players \in Seq(Accounts) /\ doc.player \in Accounts
      BY <1>1, <1>5, ThisType DEF MatchInv, ListInv, Writing
    <3>2. this' = [this EXCEPT !.players = Append(@, doc.player)]
      BY <1>1 DEF this
    <3>3. this'.id = this.id /\ this'.players = Append(this.players, doc.player)
      BY <3>1, <3>2 DEF Listing
    <3>4. QED
      BY <3>1, <3>2, <3>3
  <2>7. Holds(gameinfo'[g], this')
    <3>1. \A p \in 1 .. count + 1 : p \in 1 .. count \/ p = count + 1
      BY <1>5
    <3>2. \A p \in 1 .. count : p - 1 \in PlayerSlots /\ p - 1 # count
      BY <1>5, <2>2, <2>3 DEF PlayerSlots
    <3>3. \A p \in 1 .. count : gameinfo[g].playerinfo[p - 1] = Entry(this.players[p])
      BY <2>2 DEF Holds
    <3>4. \A p \in 1 .. count : gameinfo'[g].playerinfo[p - 1] = Entry(this'.players[p])
      BY <2>4, <2>6, <3>2, <3>3
    <3>5. (count + 1) - 1 = count
      BY <1>5
    <3>6. \A p \in 1 .. count + 1 : gameinfo'[g].playerinfo[p - 1] = Entry(this'.players[p])
      BY <2>2, <2>4, <2>5, <2>6, <3>1, <3>4, <3>5
    <3>7. gameinfo'[g].unique_identifier = this'.id /\ count + 1 <= count + 1
      BY <1>5, <2>2, <2>4, <2>6 DEF Holds
    <3>8. QED
      BY <2>4, <2>6, <3>6, <3>7 DEF Holds
  <2>8. FillsThis'
    <3>1. doc'.players >= count + 1 /\ ~Writing' /\ Len(list') - 1 = g
      BY <1>1, <1>5, <2>2 DEF Writing
    <3>2. QED
      BY <1>1, <2>2, <2>4, <2>6, <2>7, <3>1 DEF FillsThis, Holds, Entry
  <2>9. \A h \in 1 .. Complete : gameinfo'[h - 1] = gameinfo[h - 1]
    BY <1>1, <2>3, <2>4, SlotsKept
  <2>10. QED
    BY <1>1, <1>5, <2>1, <2>4, <2>8, <2>9, FilledStep
<1>8. QED
  BY <1>3, <1>6, <1>7, CallCases DEF ServerPair

\* The last pair of a game: it is listed, told of and counted.
LEMMA EndGameStep ==
  ASSUME ScanInv, IndInv, MatchInv, NEW limit \in Limits, EndGame(limit)
  PROVE  MatchInv'
<1> DEFINE k == NewPair(TRUE, FALSE, "SERVERKEY_PLAYERLIMIT", limit)
           g == Len(list) - 1
           count == Len(this.players)
<1>1. /\ ListInv' /\ UNCHANGED history /\ Continues(list, list', Complete)
      /\ Len(list') = Len(list)
      /\ list'[Len(list)] = [this EXCEPT !.limit = limit]
      /\ doc.at = "game" /\ doc'.at = "list" /\ doc'.servers = doc.servers + 1
  BY EndList DEF MatchInv
<1>2. doc.servers \in Nat /\ doc.players \in Nat
  BY DEF ScanInv, DocInv
<1>3. Call(k) /\ CallFits(k) /\ EndsBlock(k) /\ ~k.is_player
  BY <1>2 DEF EndGame, NewPair, WellFormed, CallFits, KeyValueInfo, EndsBlock
<1>4. k.key = "SERVERKEY_PLAYERLIMIT" /\ k.value = limit
  BY DEF NewPair
<1> HIDE DEF k
<1>5. /\ Len(list) \in Nat /\ Complete \in Nat /\ Complete = g /\ Complete' = g + 1
      /\ Len(list) = g + 1 /\ list # <<>> /\ count \in Nat /\ this \in Listing
      /\ DOMAIN this.players = 1 .. count
  BY <1>1, CompleteType, ThisType DEF Complete, MatchInv, ListInv
<1>6. CASE Refuse(k)
  <2>1. Complete <= Complete'
    BY <1>5
  <2>2. QED
    BY <1>1, <1>3, <1>6, <2>1, SkippedStep
<1>7. CASE ServerPair(k)
  <2>1. /\ phase = "scanning" /\ phase' = phase /\ ~stopped /\ UNCHANGED previous
        /\ scan_count_servers = Len(list) /\ FillsThis
        /\ InOrder(k) /\ ~Refused(k)
    BY <1>1, <1>3, <1>7, CallCases DEF MatchInv, CurrentInv, Current, ServerPair
  <2>2. /\ Holds(gameinfo[g], this) /\ gameinfo[g].player_count = count
        /\ doc.servers = g /\ scan_count_players = count
    BY <1>1, <2>1 DEF FillsThis, Writing
  <2>3. /\ Game(k) = g /\ g \in GameSlots /\ Players(k) = count /\ Games(k) = gameinfo
        /\ ~NewServer(k) /\ gameinfo \in [GameSlots -> GameInfo]
    BY <1>1, <1>3, <2>1, <2>2, Position
  <2>4. /\ gameinfo' = [gameinfo EXCEPT ![g] = StoreGame(gameinfo[g], k)]
        /\ scan_count_servers' = Len(list) /\ ~stopped' /\ ServerLast(k)
    BY <1>3, <1>7, <2>1, <2>3 DEF ServerPair, ServerBegins
  <2>5. /\ gameinfo'[g] = StoreGame(gameinfo[g], k)
        /\ \A s \in GameSlots : s # g => gameinfo'[s] = gameinfo[s]
    BY <2>3, <2>4
  <2>6. /\ gameinfo'[g].unique_identifier = gameinfo[g].unique_identifier
        /\ gameinfo'[g].playerlimit = limit
        /\ gameinfo'[g].player_count = count
        /\ gameinfo'[g].playerinfo = gameinfo[g].playerinfo
    <3>1. gameinfo[g] \in GameInfo
      BY <2>3
    <3>2. QED
      BY <1>4, <2>2, <2>5, <3>1 DEF StoreGame, GameInfo
  <2>7. /\ list'[Len(list)].id = this.id /\ list'[Len(list)].players = this.players
        /\ list'[Len(list)].limit = limit
    BY <1>1, <1>5 DEF Listing
  <2>8. Matches(gameinfo'[g], list'[g + 1])
    <3>1. gameinfo[g].unique_identifier = this.id
      BY <2>2 DEF Holds
    <3>2. \A p \in 1 .. count : gameinfo[g].playerinfo[p - 1] =
            [unique_identifier |-> this.players[p].user, ingame_name |-> this.players[p].name]
      BY <2>2 DEF Holds, Entry
    <3>3. QED
      BY <1>5, <2>6, <2>7, <3>1, <3>2 DEF Matches
  <2>9. \A h \in 1 .. Complete : gameinfo'[h - 1] = gameinfo[h - 1] /\ list'[h] = list[h]
    <3>1. \A h \in 1 .. Complete : gameinfo'[h - 1] = gameinfo[h - 1]
      BY <1>1, <2>3, <2>5, SlotsKept
    <3>2. QED
      BY <1>1, <3>1 DEF Continues
  <2>10. \A h \in 1 .. Len(list') : Matches(gameinfo'[h - 1], list'[h])
    <3>1. \A h \in 1 .. Complete : Matches(gameinfo[h - 1], list[h])
      BY <2>1 DEF MatchInv, CurrentInv, Current
    <3>2. \A h \in 1 .. Len(list') : h \in 1 .. Complete \/ h = g + 1
      BY <1>1, <1>5
    <3>3. (g + 1) - 1 = g
      BY <1>5
    <3>4. QED
      BY <2>8, <2>9, <3>1, <3>2, <3>3
  <2>11. HoldsInv'
    <3>1. ASSUME NEW h \in 1 .. Len(list') PROVE Holds(gameinfo'[h - 1], list'[h])
      <4>1. list'[h].players \in Seq(Accounts)
        <5>1. list'[h] \in Listing
          BY <1>1 DEF ListInv, IsList
        <5>2. QED
          BY <5>1 DEF Listing
      <4>2. Len(list'[h].players) \in Nat /\ DOMAIN list'[h].players = 1 .. Len(list'[h].players)
        BY <4>1
      <4>3. /\ gameinfo'[h - 1].unique_identifier = list'[h].id
            /\ gameinfo'[h - 1].player_count = Len(list'[h].players)
            /\ \A p \in 1 .. Len(list'[h].players) :
                 gameinfo'[h - 1].playerinfo[p - 1] = Entry(list'[h].players[p])
        BY <2>10, <4>2 DEF Matches, Entry
      <4>4. QED
        BY <4>2, <4>3 DEF Holds
    <3>2. scan_count_servers' = Len(list') /\ Len(list') <= Len(list')
      BY <1>1, <1>5, <2>4
    <3>3. QED
      BY <3>1, <3>2 DEF HoldsInv, Holds, Entry
  <2>12. /\ hGameList' \in Seq(GameSlots) /\ Len(hGameList') = Len(hGameList) + 1
         /\ ToSet(hGameList') = ToSet(hGameList) \cup {g}
         /\ Len(hGameList) = Complete /\ ToSet(hGameList) = 0 .. Complete - 1
    <3>1. hGameList \in Seq(GameSlots)
      BY DEF IndInv, TypeOK
    <3>2. hGameList' \in SortItems(GameInfoToRow(hGameList, g))
      BY <2>3, <2>4 DEF ServerLast
    <3>3. Len(hGameList) = Complete /\ ToSet(hGameList) = 0 .. Complete - 1
      BY <2>1 DEF MatchInv, CurrentInv, Current
    <3>4. QED
      BY <2>3, <3>1, <3>2, <3>3, RowAdded, SortedAlike
  <2>13. RowsInv'
    <3>1. ASSUME NEW r \in DOMAIN hGameList'
          PROVE  /\ hGameList'[r] + 1 \in 1 .. Complete' /\ hGameList'[r] < scan_count_servers'
                 /\ Matches(gameinfo'[hGameList'[r]], list'[hGameList'[r] + 1])
      <4>1. hGameList'[r] \in ToSet(hGameList')
        BY Rows
      <4>2. hGameList'[r] \in 0 .. g
        BY <1>5, <2>12, <4>1
      <4>3. /\ hGameList'[r] + 1 \in 1 .. Len(list')
            /\ (hGameList'[r] + 1) - 1 = hGameList'[r]
        BY <1>1, <1>5, <4>2
      <4>4. hGameList'[r] + 1 \in 1 .. Complete' /\ hGameList'[r] < scan_count_servers'
        BY <1>1, <1>5, <2>4, <4>2
      <4>5. QED
        BY <2>10, <4>3, <4>4
    <3>2. QED
      BY <2>1, <3>1 DEF RowsInv, Matches
  <2>14. CurrentInv'
    <3>1. doc'.servers >= Len(list')
      BY <1>1, <1>5, <2>2
    <3>2. ToSet(hGameList') = 0 .. Complete' - 1 /\ Len(hGameList') = Complete'
      BY <1>5, <2>12
    <3>3. Complete' = Len(list') /\ scan_count_servers' = Len(list')
      BY <1>1, <1>5, <2>4
    <3>4. QED
      BY <1>1, <2>1, <2>10, <3>1, <3>2, <3>3 DEF CurrentInv, Current, Matches
  <2>15. PrevInv'
    BY <1>1, <2>1 DEF MatchInv, PrevInv, Matches, previous, history
  <2>16. ToldInv'
    <3>1. told' = ToldOfRows \cup GameNotices(gameinfo'[g])
      BY <2>1, <2>3, <2>4 DEF ServerLast, MatchInv, ToldInv
    <3>2. \A s \in ToSet(hGameList) : gameinfo'[s] = gameinfo[s]
      <4>1. \A s \in ToSet(hGameList) : s \in GameSlots /\ s # g
        BY <1>5, <2>3, <2>12 DEF GameSlots
      <4>2. QED
        BY <2>5, <4>1
    <3>3. ToldOfRows' = UNION {GameNotices(gameinfo'[s]) : s \in ToSet(hGameList')}
      <4>1. ToldOfRows' = UNION {GameNotices(gameinfo[s])' : s \in ToSet(hGameList')}
        BY DEF ToldOfRows
      <4>2. \A s : GameNotices(gameinfo[s])' = GameNotices(gameinfo'[s])
        BY <2>1, NoticesNow
      <4>3. QED
        BY <4>1, <4>2
    <3>4. ToldOfRows = UNION {GameNotices(gameinfo'[s]) : s \in ToSet(hGameList)}
      BY <3>2 DEF ToldOfRows
    <3>5. \A n : n \in ToldOfRows' <=> n \in ToldOfRows \cup GameNotices(gameinfo'[g])
      <4> HIDE DEF g
      <4>1. \A n : n \in ToldOfRows' <=>
                     \E s \in ToSet(hGameList) \cup {g} : n \in GameNotices(gameinfo'[s])
        BY <2>12, <3>3
      <4>2. \A n : n \in ToldOfRows <=> \E s \in ToSet(hGameList) : n \in GameNotices(gameinfo'[s])
        BY <3>4
      <4>3. QED
        BY <4>1, <4>2
    <3>6. ToldOfRows' = ToldOfRows \cup GameNotices(gameinfo'[g])
      BY <3>5
    <3>7. told' = ToldOfRows'
      BY <3>1, <3>6
    <3>8. QED
      BY <2>1, <3>7 DEF ToldInv
  <2>17. StatusInv'
    <3>1. SUFFICES ASSUME selected' = "none"
                   PROVE  /\ total_player_count' = PlayersIn(list')[Len(list')]
                          /\ hStatusBar' = [games |-> Len(list'), players |-> total_player_count']
      <4>1. Complete' = Len(list') /\ PlayersIn(list)' = PlayersIn(list')
        BY <1>1, <1>5 DEF PlayersIn
      <4>2. QED
        BY <4>1 DEF StatusInv
    <3>2. /\ selected = "none" /\ total_player_count' = total_player_count + count
          /\ hStatusBar' = [games |-> scan_count_servers', players |-> total_player_count']
      BY <2>3, <2>4, <3>1 DEF ServerLast, SetGeneralStatus
    <3>3. total_player_count = PlayersIn(list)[g]
      BY <1>5, <2>1, <3>2 DEF MatchInv, StatusInv, Current
    <3>4. list \in Seq(Listing) /\ list' \in Seq(Listing)
      BY <1>1 DEF MatchInv, ListInv, IsList
    <3>5. PlayersIn(list')[g] = PlayersIn(list)[g]
      <4>1. g \in Nat /\ g <= Len(list) /\ g <= Len(list') /\ \A h \in 1 .. g : list'[h] = list[h]
        BY <1>1, <1>5, <2>9
      <4>2. QED
        BY <3>4, <4>1, SamePlayers
    <3>6. PlayersIn(list')[g + 1] = PlayersIn(list')[g] + count
      <4>1. g + 1 \in 1 .. Len(list') /\ (g + 1) - 1 = g /\ Len(list'[g + 1].players) = count
        <5>1. g + 1 \in 1 .. Len(list') /\ (g + 1) - 1 = g
          BY <1>1, <1>5
        <5>2. Len(list'[g + 1].players) = count
          BY <1>5, <2>7
        <5>3. QED
          BY <5>1, <5>2
      <4>2. PlayersIn(list')[g + 1] = PlayersIn(list')[(g + 1) - 1] + Len(list'[g + 1].players)
        BY <3>4, <4>1, PlayersInSums
      <4>3. QED
        BY <4>1, <4>2
    <3>7. QED
      BY <1>1, <1>5, <2>4, <3>2, <3>3, <3>5, <3>6
  <2>18. QED
    BY <1>1, <2>11, <2>13, <2>14, <2>15, <2>16, <2>17 DEF MatchInv
<1>8. QED
  BY <1>3, <1>6, <1>7, CallCases DEF SkipsPlayer, PlayerPair

-----------------------------------------------------------------------------
(* The other steps.                                                         *)

LEMMA EmptyObject ==
  ASSUME ScanInv, IndInv, MatchInv, WriteEmpty
  PROVE  MatchInv'
<1>1. /\ UNCHANGED <<list, gameinfo, scan_count_servers, scan_count_players, previous, phase, window,
                     stopped, told, history>>
      /\ \/ doc.at = "list" /\ doc' = [doc EXCEPT !.servers = @ + 1]
         \/ doc.at = "game" /\ doc' = [doc EXCEPT !.players = @ + 1]
  BY DEF WriteEmpty, vars, table, call
<1>2. doc.servers \in Nat /\ doc.players \in Nat
  BY DEF ScanInv, DocInv
<1>3. /\ doc'.at = doc.at /\ doc.at \in {"list", "game"}
      /\ doc.at = "list" => doc'.servers = doc.servers + 1
      /\ doc.at = "game" => doc'.servers = doc.servers /\ doc'.players = doc.players + 1
  BY <1>1 DEF ScanInv, DocInv
<1>4. ~Writing /\ ~Writing' /\ this' = this /\ Complete' = Complete
  BY <1>1, <1>3 DEF Writing, this, Complete
<1>5. ListInv'
  BY <1>1, <1>3, <1>4 DEF MatchInv, ListInv, history
<1>6. HoldsInv' /\ RowsInv'
  BY <1>1, <1>4 DEF MatchInv, HoldsInv, RowsInv, Holds, Entry, Matches, window
<1>7. CurrentInv'
  <2>1. SUFFICES ASSUME Current PROVE CurrentInv'
    BY <1>1 DEF CurrentInv, Current, history
  <2>2. Len(list) \in Nat
    BY CompleteType DEF MatchInv
  <2>3. doc.at = "game" => FillsThis'
    <3>1. SUFFICES ASSUME doc.at = "game" PROVE FillsThis'
      OBVIOUS
    <3>2. FillsThis /\ list # <<>>
      BY <2>1, <3>1 DEF MatchInv, CurrentInv, ListInv
    <3>3. Len(this.players) \in Nat
      BY <3>2, ThisType DEF MatchInv
    <3>4. doc'.players >= Len(this.players)
      BY <1>2, <1>3, <1>4, <3>1, <3>2, <3>3 DEF FillsThis
    <3>5. QED
      BY <1>1, <1>3, <1>4, <3>1, <3>2, <3>4 DEF FillsThis, Holds, Entry
  <2>4. phase = "scanning" /\ doc.at = "list" => doc'.servers >= Len(list)
    BY <1>2, <1>3, <2>1, <2>2 DEF MatchInv, CurrentInv
  <2>5. QED
    BY <1>1, <1>3, <1>4, <2>1, <2>3, <2>4 DEF MatchInv, CurrentInv, Current, Matches, window, history
<1>8. PrevInv'
  BY <1>1 DEF MatchInv, PrevInv, Matches, previous, history
<1>9. ToldInv'
  <2>1. ToldOfRows' = ToldOfRows
    BY <1>1, RowsTold DEF window
  <2>2. phase = "scanning"
    BY DEF WriteEmpty, ScanInv, PhaseInv
  <2>3. QED
    BY <1>1, <2>1, <2>2 DEF MatchInv, ToldInv
<1>10. StatusInv'
  BY <1>1, <1>3, <1>4 DEF MatchInv, StatusInv, Current, PlayersIn, window, history
<1>11. QED
  BY <1>5, <1>6, <1>7, <1>8, <1>9, <1>10 DEF MatchInv

\* What is told at the end depends on the tables.
LEMMA EndTold ==
  ASSUME UNCHANGED <<gameinfo, scan_count_servers, previous>>
  PROVE  ToldAtEnd' = ToldAtEnd
<1>1. ASSUME NEW s PROVE Comparison(gameinfo_prev[s])' = Comparison(gameinfo_prev[s])
  <2>1. FindGame(gameinfo, scan_count_servers, gameinfo_prev[s].unique_identifier)'
          = FindGame(gameinfo, scan_count_servers, gameinfo_prev[s].unique_identifier)
    BY DEF FindGame, previous
  <2>2. gameinfo_prev'[s] = gameinfo_prev[s]
    BY DEF previous
  <2>3. QED
    BY <2>1, <2>2 DEF Comparison
<1>2. QED
  BY <1>1 DEF ToldAtEnd, previous

\* Steps of the user, which leave the table and the list alone.
LEMMA WindowKept ==
  ASSUME IndInv, MatchInv,
         UNCHANGED <<gameinfo, scan_count_servers, scan_count_players, previous, phase, stopped, told,
                     doc, list, history>>,
         hGameList' \in Seq(GameSlots), Len(hGameList') = Len(hGameList),
         ToSet(hGameList') = ToSet(hGameList), total_player_count' = total_player_count,
         selected' = "none" =>
           /\ selected = "none"
           /\ \/ hStatusBar' = hStatusBar
              \/ hStatusBar' = [games |-> scan_count_servers, players |-> total_player_count]
  PROVE  MatchInv'
<1>1. Complete' = Complete /\ Current' = Current /\ this' = this /\ Writing' = Writing
  BY DEF Complete, Current, this, Writing, history
<1>2. ListInv' /\ HoldsInv'
  BY <1>1 DEF MatchInv, ListInv, HoldsInv, Holds, Entry, history
<1>3. RowsInv'
  <2>1. ASSUME NEW r \in DOMAIN hGameList'
        PROVE  /\ hGameList'[r] + 1 \in 1 .. Complete /\ hGameList'[r] < scan_count_servers
               /\ Matches(gameinfo[hGameList'[r]], list[hGameList'[r] + 1])
    <3>1. hGameList'[r] \in ToSet(hGameList)
      BY Rows
    <3>2. PICK q \in DOMAIN hGameList : hGameList[q] = hGameList'[r]
      BY <3>1, Rows
    <3>3. QED
      BY <3>2 DEF MatchInv, RowsInv
  <2>2. phase = "created" => hGameList' = <<>> /\ total_player_count' = 0
    <3>1. Len(hGameList') = 0 => hGameList' = <<>>
      OBVIOUS
    <3>2. QED
      BY <3>1 DEF MatchInv, RowsInv
  <2>3. QED
    BY <1>1, <2>1, <2>2 DEF RowsInv, Matches
<1>4. CurrentInv'
  <2>1. Current /\ doc.at # "list" => FillsThis'
    BY <1>1 DEF MatchInv, CurrentInv, FillsThis, Holds, Entry
  <2>2. QED
    BY <1>1, <2>1 DEF MatchInv, CurrentInv, Matches
<1>5. PrevInv'
  BY DEF MatchInv, PrevInv, Matches, previous, history
<1>6. ToldInv'
  <2>1. ToldOfRows' = ToldOfRows /\ ToldAtEnd' = ToldAtEnd
    BY RowsTold, EndTold
  <2>2. NoFalseNews' = NoFalseNews
    BY DEF NoFalseNews, history, ToldOfNamed
  <2>3. QED
    BY <2>1, <2>2 DEF MatchInv, ToldInv
<1>7. StatusInv'
  <2>1. PlayersIn(list)' = PlayersIn(list)
    BY DEF PlayersIn
  <2>2. Current => scan_count_servers = Len(list)
    BY DEF MatchInv, CurrentInv
  <2>3. QED
    BY <1>1, <2>1, <2>2 DEF MatchInv, StatusInv
<1>8. QED
  BY <1>2, <1>3, <1>4, <1>5, <1>6, <1>7 DEF MatchInv

LEMMA ByUserStep ==
  ASSUME IndInv, MatchInv, ByUser
  PROVE  MatchInv'
<1>1. /\ hGameList \in Seq(GameSlots)
      /\ UNCHANGED <<doc, list, history>>
      /\ User
  BY DEF IndInv, TypeOK, ByUser, writer
<1> USE DEF table, call
<1>2. CASE StopScan
  BY <1>1, <1>2, WindowKept DEF StopScan, window
<1>3. CASE SelectPlayer
  BY <1>1, <1>3, WindowKept DEF SelectPlayer, SetPlayerStatus
<1>4. CASE SelectGame
  BY <1>1, <1>4, WindowKept DEF SelectGame, SetGeneralStatus
<1>5. CASE ColumnClick
  BY <1>1, <1>5, SortedAlike, WindowKept DEF ColumnClick
<1>6. CASE ApplyHost
  BY <1>1, <1>6, WindowKept DEF ApplyHost, SetGeneralStatus
<1>7. QED
  BY <1>1, <1>2, <1>3, <1>4, <1>5, <1>6 DEF User

\* The news of the scan before stay true while the next one has not begun.
LEMMA BeginMatches ==
  ASSUME IndInv, MatchInv, NoFalseNews, Begin
  PROVE  MatchInv'
<1>1. /\ phase' = "created" /\ hGameList' = <<>> /\ total_player_count' = 0
      /\ phase = "idle"
      /\ UNCHANGED <<gameinfo, scan_count_servers, previous, stopped, told>>
  BY DEF Begin, BeginScan, table, call
<1>2. UNCHANGED <<doc, list, whole, list_prev, whole_prev>>
  BY DEF Begin, writer
<1>3. Complete' = Complete /\ this' = this /\ Writing' = Writing
  BY <1>2 DEF Complete, this, Writing
<1>4. ListInv' /\ HoldsInv'
  BY <1>1, <1>2, <1>3 DEF MatchInv, ListInv, HoldsInv, Holds, Entry
<1>5. RowsInv' /\ StatusInv'
  BY <1>1 DEF RowsInv, StatusInv
<1>6. CurrentInv'
  <2>1. Current' = Current
    BY <1>1, <1>2 DEF Current
  <2>2. QED
    BY <1>1, <1>2, <1>3, <2>1 DEF MatchInv, CurrentInv, Matches
<1>7. PrevInv'
  BY <1>1, <1>2 DEF MatchInv, PrevInv, Matches, previous
<1>8. ToldInv'
  <2>1. NoFalseNews'
    BY <1>1, <1>2 DEF NoFalseNews, ToldOfNamed
  <2>2. QED
    BY <1>1, <2>1 DEF ToldInv
<1>9. QED
  BY <1>4, <1>5, <1>6, <1>7, <1>8 DEF MatchInv

LEMMA EmptyList == IsList(<<>>) /\ PlayersIn(<<>>)[0] = 0 /\ ToSet(<<>>) = {}
<1>1. <<>> \in Seq(Listing) /\ DOMAIN <<>> = {}
  OBVIOUS
<1>2. IsList(<<>>)
  BY <1>1 DEF IsList
<1>3. \A x : x \notin ToSet(<<>>)
  BY <1>1, Rows
<1>4. QED
  BY <1>1, <1>2, <1>3, PlayersInSums

LEMMA StartMatches ==
  ASSUME IndInv, MatchInv, Start
  PROVE  MatchInv'
<1>1. /\ phase = "created" /\ phase' = "scanning" /\ ~stopped' /\ told' = {}
      /\ gameinfo_prev' = gameinfo /\ gameinfo_prev_count' = scan_count_servers
      /\ scan_count_servers' = 0 /\ scan_count_players' = 0
      /\ UNCHANGED <<gameinfo, hGameList, selected, total_player_count, hStatusBar>>
  BY DEF Start, ScanThread, window
<1>2. /\ doc'.at = "list" /\ doc'.servers = 0 /\ list' = <<>>
      /\ whole_prev' = whole /\ list_prev' = IF whole THEN list ELSE <<>>
  BY DEF Start, Blank
<1>3. hGameList' = <<>> /\ total_player_count' = 0
  BY <1>1 DEF MatchInv, RowsInv
<1>4. Len(list') = 0 /\ Complete' = 0 /\ ~Writing'
  BY <1>2 DEF Complete, Writing
<1>5. ListInv'
  BY <1>2, <1>4, EmptyList DEF MatchInv, ListInv
<1>6. HoldsInv' /\ RowsInv'
  BY <1>1, <1>3, <1>4 DEF HoldsInv, RowsInv
<1>7. CurrentInv'
  <2>1. ToSet(hGameList') = {} /\ Len(hGameList') = 0 /\ 0 .. 0 - 1 = {}
    BY <1>3, EmptyList
  <2>2. \A g \in 1 .. 0 : FALSE
    OBVIOUS
  <2>3. QED
    BY <1>1, <1>2, <1>4, <2>1, <2>2 DEF CurrentInv
<1>8. PrevInv'
  <2>1. SUFFICES ASSUME whole
                 PROVE  /\ gameinfo_prev_count' = Len(list_prev')
                        /\ \A g \in 1 .. Len(list_prev') : Matches(gameinfo_prev'[g - 1], list_prev'[g])
    BY <1>2 DEF PrevInv, Matches
  <2>2. /\ list_prev' = list /\ doc.at = "list" /\ scan_count_servers = Len(list)
        /\ \A g \in 1 .. Complete : Matches(gameinfo[g - 1], list[g])
    BY <1>1, <1>2, <2>1 DEF MatchInv, CurrentInv, Current
  <2>3. QED
    BY <1>1, <2>2 DEF Complete
<1>9. ToldInv'
  <2>1. ToldOfRows' = {}
    BY <1>3, EmptyList DEF ToldOfRows
  <2>2. QED
    BY <1>1, <2>1 DEF ToldInv
<1>10. StatusInv'
  <2>1. PlayersIn(list)' = PlayersIn(<<>>)
    BY <1>2 DEF PlayersIn
  <2>2. QED
    BY <1>2, <1>3, <1>4, <2>1, EmptyList DEF StatusInv
<1>11. QED
  BY <1>5, <1>6, <1>7, <1>8, <1>9, <1>10 DEF MatchInv

\* The end of a scan: its error box, and the comparison.
LEMMA EndMatches ==
  ASSUME IndInv, MatchInv,
         phase \in {"scanning", "failed"},
         \/ phase' = "idle" /\ told' = told \cup ToldAtEnd
         \/ phase' = "failed" /\ told' = told,
         UNCHANGED <<table, previous, window>>,
         UNCHANGED <<doc, list, list_prev, whole_prev>>,
         Current' => Current /\ doc.at = "list"
  PROVE  MatchInv'
<1>1. Complete' = Complete /\ this' = this /\ Writing' = Writing
  BY DEF Complete, this, Writing
<1>2. ListInv' /\ HoldsInv'
  BY <1>1 DEF MatchInv, ListInv, HoldsInv, Holds, Entry, table
<1>3. RowsInv'
  BY <1>1 DEF MatchInv, RowsInv, Matches, table, window
<1>4. CurrentInv'
  BY <1>1 DEF MatchInv, CurrentInv, Matches, table, window
<1>5. PrevInv'
  BY DEF MatchInv, PrevInv, Matches, previous
<1>6. ToldInv'
  <2>1. ToldOfRows' = ToldOfRows /\ ToldAtEnd' = ToldAtEnd
    BY RowsTold, EndTold DEF table, window
  <2>2. QED
    BY <2>1 DEF MatchInv, ToldInv
<1>7. StatusInv'
  <2>1. PlayersIn(list)' = PlayersIn(list)
    BY DEF PlayersIn
  <2>2. QED
    BY <1>1, <2>1 DEF MatchInv, StatusInv, window
<1>8. QED
  BY <1>2, <1>3, <1>4, <1>5, <1>6, <1>7 DEF MatchInv

LEMMA FetchMatches ==
  ASSUME ScanInv, IndInv, MatchInv, Fetch
  PROVE  MatchInv'
<1>1. /\ stopped' = stopped
      /\ status' # "none" => pc' = "returned"
      /\ pc' = "returned" /\ stopped => status' = "KVI_STATUS_ERROR"
  BY SourceStep DEF ScanInv, Fetch
<1>2. UNCHANGED <<doc, list, list_prev, whole_prev, scans>>
  BY DEF Fetch, writer
<1>3. CASE status' = "none"
  <2>1. /\ UNCHANGED <<table, previous, phase, window, told>>
        /\ UNCHANGED history
    BY <1>2, <1>3 DEF Fetch, tableVars, history
  <2>2. hGameList \in Seq(GameSlots)
    BY DEF IndInv, TypeOK
  <2>3. QED
    BY <1>1, <1>2, <2>1, <2>2, WindowKept DEF window, table
<1>4. CASE status' # "none"
  <2>1. /\ phase = "scanning" /\ UNCHANGED <<table, previous, window>>
        /\ whole' = (status' = "KVI_STATUS_COMPLETE" /\ doc.at = "list")
        /\ \/ phase' = "idle" /\ told' = told \cup ToldAtEnd
           \/ phase' = "failed" /\ told' = told
    BY <1>4 DEF Fetch, TerminalCall, ErrorBox, EndScan, ToldAtEnd
  <2>2. Current' => Current /\ doc.at = "list"
    BY <1>1, <1>4, <2>1 DEF Current
  <2>3. QED
    BY <1>2, <2>1, <2>2, EndMatches
<1>5. QED
  BY <1>3, <1>4

LEMMA DismissMatches ==
  ASSUME IndInv, MatchInv, Dismiss
  PROVE  MatchInv'
<1>1. /\ phase = "failed" /\ phase' = "idle" /\ told' = told \cup ToldAtEnd
      /\ UNCHANGED <<table, previous, window>>
      /\ UNCHANGED <<doc, list, list_prev, whole, whole_prev>>
  BY DEF Dismiss, DismissBox, EndScan, ToldAtEnd, writer, history
<1>2. Current' => Current /\ doc.at = "list"
  BY <1>1 DEF MatchInv, CurrentInv, Current
<1>3. QED
  BY <1>1, <1>2, EndMatches

-----------------------------------------------------------------------------
(* Finding a game or a player again.                                        *)

LEMMA LeastSlot ==
  ASSUME NEW S, S \subseteq Nat, S # {}
  PROVE  Min(S) \in S
<1>1. \E x \in S : \A y \in S : x <= y
  BY LeastNumber
<1>2. QED
  BY <1>1 DEF Min

LEMMA OnlySlot == ASSUME NEW s \in Nat PROVE Min({s}) = s
  BY LeastSlot

\* The first n games of a table have the identifiers of a list's.
SameIds(slots, games, n) ==
  \A g \in 1 .. n : slots[g - 1].unique_identifier = games[g].id

\* One of the first n games of a list has an identifier.
Has(games, n, id) == \E g \in 1 .. n : games[g].id = id

\* A table of n games, with the identifiers of a list in which none occurs twice.
LEMMA GameFound ==
  ASSUME NEW games, IsList(games), NEW n \in Nat, n <= Len(games), NEW slots,
         SameIds(slots, games, n), NEW id, id # NULL
  PROVE  /\ ~Has(games, n, id) => FindGame(slots, n, id) = NULL
         /\ \A g \in 1 .. n : games[g].id = id => FindGame(slots, n, id) = slots[g - 1]
<1> DEFINE found == {s \in 0 .. n - 1 : slots[s].unique_identifier = id}
<1>1. \A s \in 0 .. n - 1 : s + 1 \in 1 .. n /\ (s + 1) - 1 = s
  OBVIOUS
<1>2. \A s \in 0 .. n - 1 : slots[s].unique_identifier = games[s + 1].id
  <2>1. ASSUME NEW s \in 0 .. n - 1 PROVE slots[s].unique_identifier = games[s + 1].id
    <3>1. slots[(s + 1) - 1].unique_identifier = games[s + 1].id
      BY <1>1 DEF SameIds
    <3>2. QED
      BY <1>1, <3>1
  <2>2. QED
    BY <2>1
<1>3. ASSUME NEW g \in 1 .. n, games[g].id = id PROVE FindGame(slots, n, id) = slots[g - 1]
  <2>1. g \in Nat /\ g - 1 \in 0 .. n - 1 /\ g - 1 \in Nat /\ g \in DOMAIN games
    BY DEF IsList
  <2>2. \A s \in 0 .. n - 1 : s + 1 \in DOMAIN games
    BY DEF IsList
  <2>3. ASSUME NEW s \in found PROVE s = g - 1
    <3>1. s \in 0 .. n - 1 /\ slots[s].unique_identifier = id
      OBVIOUS
    <3>2. s + 1 \in DOMAIN games /\ games[s + 1].id = games[g].id /\ games[s + 1].id # NULL
      BY <1>2, <1>3, <2>2, <3>1
    <3>3. s + 1 = g
      BY <2>1, <3>2 DEF IsList
    <3>4. QED
      BY <2>1, <3>1, <3>3
  <2>4. g - 1 \in found
    BY <1>3, <2>1 DEF SameIds
  <2>5. found = {g - 1}
    BY <2>3, <2>4
  <2>6. Min(found) = g - 1
    BY <2>1, <2>5, OnlySlot
  <2>7. QED
    BY <2>4, <2>6 DEF FindGame
<1>4. ASSUME ~Has(games, n, id) PROVE FindGame(slots, n, id) = NULL
  <2>1. found = {}
    BY <1>1, <1>2, <1>4 DEF Has
  <2>2. QED
    BY <2>1 DEF FindGame
<1>5. QED
  BY <1>3, <1>4

\* What is found has the identifier looked for.
LEMMA FoundHasId ==
  ASSUME NEW slots, NEW n \in Nat, NEW id, FindGame(slots, n, id) # NULL
  PROVE  FindGame(slots, n, id).unique_identifier = id
<1> DEFINE found == {s \in 0 .. n - 1 : slots[s].unique_identifier = id}
<1>1. found # {} /\ found \subseteq Nat
  BY DEF FindGame
<1>2. Min(found) \in found
  BY <1>1, LeastSlot
<1>3. QED
  BY <1>1, <1>2 DEF FindGame

LEMMA PlayerFound ==
  ASSUME NEW game, NEW listed \in Listing, Holds(game, listed), game.player_count \in Nat,
         \A p, q \in DOMAIN listed.players :
            listed.players[p].user = listed.players[q].user => p = q,
         NEW id
  PROVE  /\ \A p \in 1 .. game.player_count :
              listed.players[p].user = id => FindPlayer(game, id) = Entry(listed.players[p])
         /\ (\A p \in 1 .. game.player_count : listed.players[p].user # id)
              => FindPlayer(game, id) = NULL
<1> DEFINE n == game.player_count
           found == {p \in 0 .. n - 1 : game.playerinfo[p].unique_identifier = id}
<1>0. n \in Nat /\ n <= Len(listed.players) /\ listed.players \in Seq(Accounts)
  BY DEF Holds, Listing
<1>1. \A s \in 0 .. n - 1 : s + 1 \in 1 .. n /\ (s + 1) - 1 = s
  BY <1>0
<1>2. /\ \A p \in 1 .. n : game.playerinfo[p - 1] = Entry(listed.players[p])
      /\ \A s \in 0 .. n - 1 : game.playerinfo[s].unique_identifier = listed.players[s + 1].user
  <2>1. \A p \in 1 .. n : game.playerinfo[p - 1] = Entry(listed.players[p])
    BY DEF Holds
  <2>2. ASSUME NEW s \in 0 .. n - 1
        PROVE  game.playerinfo[s].unique_identifier = listed.players[s + 1].user
    <3>1. game.playerinfo[(s + 1) - 1] = Entry(listed.players[s + 1])
      BY <1>1, <2>1
    <3>2. QED
      BY <1>1, <3>1 DEF Entry
  <2>3. QED
    BY <2>1, <2>2
<1>3. ASSUME NEW p \in 1 .. n, listed.players[p].user = id
      PROVE  FindPlayer(game, id) = Entry(listed.players[p])
  <2>1. p \in Nat /\ p - 1 \in 0 .. n - 1 /\ p - 1 \in Nat /\ p \in DOMAIN listed.players
        /\ (p - 1) + 1 = p
    BY <1>0
  <2>2. \A s \in 0 .. n - 1 : s + 1 \in DOMAIN listed.players
    BY <1>0
  <2>3. \A s \in found : s = p - 1
    BY <1>2, <1>3, <2>1, <2>2
  <2>4. p - 1 \in found
    BY <1>2, <1>3, <2>1
  <2>5. found = {p - 1}
    BY <2>3, <2>4
  <2>6. Min(found) = p - 1
    BY <2>1, <2>5, OnlySlot
  <2>7. QED
    BY <1>2, <2>4, <2>6 DEF FindPlayer
<1>4. ASSUME \A p \in 1 .. n : listed.players[p].user # id PROVE FindPlayer(game, id) = NULL
  <2>1. found = {}
    BY <1>1, <1>2, <1>4
  <2>2. QED
    BY <2>1 DEF FindPlayer
<1>5. QED
  BY <1>3, <1>4

-----------------------------------------------------------------------------
(* What has become of the players of a game.                                *)

\* Between two states of a game of which m players of the later one are known.
QuitOf(a, b, m, n) ==
    \E p \in 1 .. Len(a.players) :
        /\ \A q \in 1 .. m : b.players[q].user # a.players[p].user
        /\ n = News("PLAYER_QUIT", b, a.players[p].user)
JoinedOf(a, b, m, n) ==
    \E q \in 1 .. m :
        /\ \A p \in 1 .. Len(a.players) : a.players[p].user # b.players[q].user
        /\ n = News("PLAYER_JOINED", b, b.players[q].user)
ChangedOf(a, b, m, n) ==
    \E q \in 1 .. m : \E p \in 1 .. Len(a.players) :
        /\ a.players[p].user = b.players[q].user /\ a.players[p].name # b.players[q].name
        /\ n = News("PLAYER_CHANGED_NICK", b, b.players[q].user)

Distinct(listed) ==
    \A p, q \in DOMAIN listed.players :
        listed.players[p].user = listed.players[q].user => p = q

LEMMA PlayersOf ==
  ASSUME NEW a \in Listing
  PROVE  /\ Len(a.players) \in Nat /\ DOMAIN a.players = 1 .. Len(a.players)
         /\ \A p \in 1 .. Len(a.players) :
              /\ a.players[p] \in Accounts
              /\ Entry(a.players[p]) \in PlayerInfo /\ Entry(a.players[p]) # NULL
              /\ Entry(a.players[p]).unique_identifier = a.players[p].user
              /\ Entry(a.players[p]).ingame_name = a.players[p].name
         /\ \A x : x \in ToSet(a.players) <=> \E p \in 1 .. Len(a.players) : a.players[p] = x
<1>1. a.players \in Seq(Accounts)
  BY DEF Listing
<1>2. ASSUME NEW p \in 1 .. Len(a.players)
      PROVE  /\ a.players[p] \in Accounts
             /\ Entry(a.players[p]) \in PlayerInfo /\ Entry(a.players[p]) # NULL
             /\ Entry(a.players[p]).unique_identifier = a.players[p].user
             /\ Entry(a.players[p]).ingame_name = a.players[p].name
  <2>1. a.players[p] \in Accounts
    BY <1>1
  <2>2. a.players[p].user \in Users /\ a.players[p].name \in Names
    BY <2>1
  <2>3. Entry(a.players[p]) \in PlayerInfo
    BY <2>2 DEF Entry, PlayerInfo
  <2>4. QED
    BY <2>1, <2>3, RecordAssumption DEF Entry
<1>3. DOMAIN a.players = 1 .. Len(a.players)
  BY <1>1
<1>4. QED
  BY <1>1, <1>2, <1>3, Rows

\* The entries that a game of the table counts, and those of the first n players.
Counted(game, x) == \E s \in 0 .. game.player_count - 1 : x = game.playerinfo[s]
Written(listed, n, x) == \E p \in 1 .. n : x = Entry(listed.players[p])

LEMMA EntriesOf ==
  ASSUME NEW game, NEW listed, Holds(game, listed), game.player_count \in Nat
  PROVE  \A x : Counted(game, x) <=> Written(listed, game.player_count, x)
<1> DEFINE n == game.player_count
<1>1. \A p \in 1 .. n : p - 1 \in 0 .. n - 1 /\ game.playerinfo[p - 1] = Entry(listed.players[p])
  BY DEF Holds
<1>2. \A s \in 0 .. n - 1 : s + 1 \in 1 .. n /\ game.playerinfo[s] = Entry(listed.players[s + 1])
  <2>1. ASSUME NEW s \in 0 .. n - 1
        PROVE  s + 1 \in 1 .. n /\ game.playerinfo[s] = Entry(listed.players[s + 1])
    <3>1. s + 1 \in 1 .. n /\ (s + 1) - 1 = s
      OBVIOUS
    <3>2. game.playerinfo[(s + 1) - 1] = Entry(listed.players[s + 1])
      BY <1>1, <3>1
    <3>3. QED
      BY <3>1, <3>2
  <2>2. QED
    BY <2>1
<1> HIDE DEF n
<1>3. \A x : (\E s \in 0 .. n - 1 : x = game.playerinfo[s]) <=>
             (\E p \in 1 .. n : x = Entry(listed.players[p]))
  BY <1>1, <1>2
<1>4. QED
  BY <1>3 DEF n, Counted, Written

LEMMA PlayerNoticesAre ==
  ASSUME NEW a \in Listing, NEW b \in Listing, Distinct(a), Distinct(b), NEW old, NEW new,
         Holds(old, a), old.player_count = Len(a.players),
         Holds(new, b), new.player_count \in Nat
  PROVE  \A n : n \in PlayerNotices(old, new) <=>
                  \/ QuitOf(a, b, new.player_count, n)
                  \/ JoinedOf(a, b, new.player_count, n)
                  \/ ChangedOf(a, b, new.player_count, n)
<1> DEFINE m == new.player_count
           l == Len(a.players)
           OfOld == {old.playerinfo[p] : p \in 0 .. old.player_count - 1}
           OfNew == {new.playerinfo[p] : p \in 0 .. new.player_count - 1}
           Nick(player) == FindPlayer(old, player.unique_identifier)
<1>1. l \in Nat /\ m \in Nat /\ m <= Len(b.players) /\ Len(b.players) \in Nat
  BY PlayersOf DEF Holds
<1>2. /\ \A x : x \in OfOld <=> \E p \in 1 .. l : x = Entry(a.players[p])
      /\ \A x : x \in OfNew <=> \E q \in 1 .. m : x = Entry(b.players[q])
  <2>1. \A x : x \in OfOld <=> \E p \in 1 .. old.player_count : x = Entry(a.players[p])
    <3>1. old.player_count \in Nat
      BY <1>1
    <3>2. \A x : Counted(old, x) <=> Written(a, old.player_count, x)
      BY <3>1, EntriesOf
    <3>3. \A x : x \in OfOld <=> Counted(old, x)
      BY DEF Counted
    <3> HIDE DEF OfOld
    <3>4. QED
      BY <3>2, <3>3 DEF Written
  <2>2. \A x : x \in OfNew <=> \E p \in 1 .. new.player_count : x = Entry(b.players[p])
    <3>1. new.player_count \in Nat
      BY <1>1
    <3>2. \A x : Counted(new, x) <=> Written(b, new.player_count, x)
      BY <3>1, EntriesOf
    <3>3. \A x : x \in OfNew <=> Counted(new, x)
      BY DEF Counted
    <3> HIDE DEF OfNew
    <3>4. QED
      BY <3>2, <3>3 DEF Written
  <2> HIDE DEF OfOld, OfNew
  <2>3. QED
    BY <2>1, <2>2
<1>3. /\ \A p \in 1 .. l : /\ Entry(a.players[p]) # NULL
                           /\ Entry(a.players[p]).unique_identifier = a.players[p].user
                           /\ Entry(a.players[p]).ingame_name = a.players[p].name
      /\ \A q \in 1 .. m : /\ Entry(b.players[q]) # NULL
                           /\ Entry(b.players[q]).unique_identifier = b.players[q].user
                           /\ Entry(b.players[q]).ingame_name = b.players[q].name
  <2>1. \A q \in 1 .. m : q \in 1 .. Len(b.players)
    BY <1>1
  <2>2. QED
    BY <2>1, PlayersOf
<1>4. new.unique_identifier = b.id
  BY DEF Holds
<1>5. \A id : /\ \A q \in 1 .. m : b.players[q].user = id => FindPlayer(new, id) = Entry(b.players[q])
              /\ (\A q \in 1 .. m : b.players[q].user # id) => FindPlayer(new, id) = NULL
  BY <1>1, PlayerFound DEF Distinct
<1>6. \A id : /\ \A p \in 1 .. l : a.players[p].user = id => FindPlayer(old, id) = Entry(a.players[p])
              /\ (\A p \in 1 .. l : a.players[p].user # id) => FindPlayer(old, id) = NULL
  BY <1>1, PlayerFound DEF Distinct
<1>7. \A action : \A x : x # NULL => Notice(action, new, x) = News(action, b, x.unique_identifier)
  BY <1>4 DEF Notice, News
<1>8. \A n : n \in PlayerNotices(old, new) <=>
         \/ \E x \in OfOld : FindPlayer(new, x.unique_identifier) = NULL /\ n = Notice("PLAYER_QUIT", new, x)
         \/ \E x \in OfNew : Nick(x) = NULL /\ n = Notice("PLAYER_JOINED", new, x)
         \/ \E x \in OfNew : /\ Nick(x) # NULL /\ Nick(x).ingame_name # x.ingame_name
                             /\ n = Notice("PLAYER_CHANGED_NICK", new, x)
  BY DEF PlayerNotices
<1> HIDE DEF m, l, OfOld, OfNew, Nick
<1>9. \A n : (\E x \in OfOld : FindPlayer(new, x.unique_identifier) = NULL /\ n = Notice("PLAYER_QUIT", new, x))
               <=> QuitOf(a, b, m, n)
  <2>1. \A n : (\E x \in OfOld : FindPlayer(new, x.unique_identifier) = NULL /\ n = Notice("PLAYER_QUIT", new, x))
          <=> \E p \in 1 .. l : /\ FindPlayer(new, a.players[p].user) = NULL
                                /\ n = News("PLAYER_QUIT", b, a.players[p].user)
    BY <1>2, <1>3, <1>7
  <2>2. \A p \in 1 .. l : FindPlayer(new, a.players[p].user) = NULL
                            <=> \A q \in 1 .. m : b.players[q].user # a.players[p].user
    BY <1>3, <1>5
  <2>3. QED
    BY <2>1, <2>2 DEF QuitOf, l
<1>10. \A n : (\E x \in OfNew : Nick(x) = NULL /\ n = Notice("PLAYER_JOINED", new, x))
               <=> JoinedOf(a, b, m, n)
  <2>1. \A n : (\E x \in OfNew : Nick(x) = NULL /\ n = Notice("PLAYER_JOINED", new, x))
          <=> \E q \in 1 .. m : /\ FindPlayer(old, b.players[q].user) = NULL
                                /\ n = News("PLAYER_JOINED", b, b.players[q].user)
    BY <1>2, <1>3, <1>7 DEF Nick
  <2>2. \A q \in 1 .. m : FindPlayer(old, b.players[q].user) = NULL
                            <=> \A p \in 1 .. l : a.players[p].user # b.players[q].user
    BY <1>3, <1>6
  <2>3. QED
    BY <2>1, <2>2 DEF JoinedOf, l
<1>11. \A n : (\E x \in OfNew : /\ Nick(x) # NULL /\ Nick(x).ingame_name # x.ingame_name
                                /\ n = Notice("PLAYER_CHANGED_NICK", new, x))
               <=> ChangedOf(a, b, m, n)
  <2>1. \A n : (\E x \in OfNew : /\ Nick(x) # NULL /\ Nick(x).ingame_name # x.ingame_name
                                 /\ n = Notice("PLAYER_CHANGED_NICK", new, x))
          <=> \E q \in 1 .. m :
                /\ FindPlayer(old, b.players[q].user) # NULL
                /\ FindPlayer(old, b.players[q].user).ingame_name # b.players[q].name
                /\ n = News("PLAYER_CHANGED_NICK", b, b.players[q].user)
    BY <1>2, <1>3, <1>7 DEF Nick
  <2>2. \A q \in 1 .. m :
          (/\ FindPlayer(old, b.players[q].user) # NULL
           /\ FindPlayer(old, b.players[q].user).ingame_name # b.players[q].name)
          <=> \E p \in 1 .. l : a.players[p].user = b.players[q].user /\ a.players[p].name # b.players[q].name
    BY <1>3, <1>6
  <2>3. QED
    BY <2>1, <2>2 DEF ChangedOf, l
<1>12. QED
  BY <1>8, <1>9, <1>10, <1>11 DEF m

LEMMA PlayerNewsAre ==
  ASSUME NEW a \in Listing, NEW b \in Listing
  PROVE  \A n : n \in PlayerNews(a, b) <=>
                  \/ QuitOf(a, b, Len(b.players), n)
                  \/ JoinedOf(a, b, Len(b.players), n)
                  \/ ChangedOf(a, b, Len(b.players), n)
<1> DEFINE m == Len(b.players)
           l == Len(a.players)
<1>1. /\ \A x : x \in ToSet(a.players) <=> \E p \in 1 .. l : a.players[p] = x
      /\ \A x : x \in ToSet(b.players) <=> \E q \in 1 .. m : b.players[q] = x
  BY PlayersOf
<1>2. \A n : n \in PlayerNews(a, b) <=>
         \/ \E x \in ToSet(a.players) : ~HasPlayer(b, x) /\ n = News("PLAYER_QUIT", b, x.user)
         \/ \E x \in ToSet(b.players) : ~HasPlayer(a, x) /\ n = News("PLAYER_JOINED", b, x.user)
         \/ \E x \in ToSet(b.players) : Renamed(a, x) /\ n = News("PLAYER_CHANGED_NICK", b, x.user)
  BY DEF PlayerNews
<1>3. /\ \A x : HasPlayer(b, x) <=> \E q \in 1 .. m : b.players[q].user = x.user
      /\ \A x : HasPlayer(a, x) <=> \E p \in 1 .. l : a.players[p].user = x.user
      /\ \A x : Renamed(a, x) <=>
                  \E p \in 1 .. l : a.players[p].user = x.user /\ a.players[p].name # x.name
  BY <1>1 DEF HasPlayer, Renamed
<1> HIDE DEF m, l
<1>4. \A n : (\E x \in ToSet(a.players) : ~HasPlayer(b, x) /\ n = News("PLAYER_QUIT", b, x.user))
                <=> QuitOf(a, b, m, n)
  <2>1. \A n : (\E x \in ToSet(a.players) : ~HasPlayer(b, x) /\ n = News("PLAYER_QUIT", b, x.user))
          <=> \E p \in 1 .. l : ~HasPlayer(b, a.players[p]) /\ n = News("PLAYER_QUIT", b, a.players[p].user)
    BY <1>1
  <2>2. \A p \in 1 .. l : ~HasPlayer(b, a.players[p])
                            <=> \A q \in 1 .. m : b.players[q].user # a.players[p].user
    BY <1>3
  <2>3. QED
    BY <2>1, <2>2 DEF QuitOf, l
<1>5. \A n : (\E x \in ToSet(b.players) : ~HasPlayer(a, x) /\ n = News("PLAYER_JOINED", b, x.user))
                <=> JoinedOf(a, b, m, n)
  <2>1. \A n : (\E x \in ToSet(b.players) : ~HasPlayer(a, x) /\ n = News("PLAYER_JOINED", b, x.user))
          <=> \E q \in 1 .. m : ~HasPlayer(a, b.players[q]) /\ n = News("PLAYER_JOINED", b, b.players[q].user)
    BY <1>1
  <2>2. \A q \in 1 .. m : ~HasPlayer(a, b.players[q])
                            <=> \A p \in 1 .. l : a.players[p].user # b.players[q].user
    BY <1>3
  <2>3. QED
    BY <2>1, <2>2 DEF JoinedOf, l
<1>6. \A n : (\E x \in ToSet(b.players) : Renamed(a, x) /\ n = News("PLAYER_CHANGED_NICK", b, x.user))
                <=> ChangedOf(a, b, m, n)
  <2>1. \A n : (\E x \in ToSet(b.players) : Renamed(a, x) /\ n = News("PLAYER_CHANGED_NICK", b, x.user))
          <=> \E q \in 1 .. m : Renamed(a, b.players[q]) /\ n = News("PLAYER_CHANGED_NICK", b, b.players[q].user)
    BY <1>1
  <2>2. \A q \in 1 .. m : Renamed(a, b.players[q]) <=>
           \E p \in 1 .. l : a.players[p].user = b.players[q].user /\ a.players[p].name # b.players[q].name
    BY <1>3
  <2>3. QED
    BY <2>1, <2>2 DEF ChangedOf, l
<1>7. QED
  BY <1>2, <1>4, <1>5, <1>6 DEF m

-----------------------------------------------------------------------------
(* What has become of the games.                                            *)

\* Between a list and a game of the next, and between two games.
Arrived(old, b) == b.id # NULL /\ \A o \in 1 .. Len(old) : old[o].id # b.id
Left(a, new) == a.id # NULL /\ \A h \in 1 .. Len(new) : new[h].id # a.id
Stayed(a, b) == a.id # NULL /\ a.id = b.id
Opened(a, b) == Stayed(a, b) /\ IsFull(a) /\ ~IsFull(b)

LEMMA NamedGames ==
  ASSUME NEW games
  PROVE  /\ \A x : x \in Named(games) <=> \E g \in DOMAIN games : games[g] = x /\ x.id # NULL
         /\ \A x : HasGame(games, x) <=>
                     \E g \in DOMAIN games : games[g].id = x.id /\ games[g].id # NULL
<1>1. \A x : x \in Named(games) <=> x \in ToSet(games) /\ x.id # NULL
  BY DEF Named
<1>2. \A x : x \in Named(games) <=> \E g \in DOMAIN games : games[g] = x /\ x.id # NULL
  BY <1>1, Rows
<1> HIDE DEF Named
<1>3. \A x : HasGame(games, x) <=>
               \E g \in DOMAIN games : games[g].id = x.id /\ games[g].id # NULL
  BY <1>2 DEF HasGame
<1>4. QED
  BY <1>2, <1>3

LEMMA ChangesAre ==
  ASSUME NEW old \in Seq(Listing), NEW new \in Seq(Listing)
  PROVE  \A n : n \in Changes(old, new) <=>
           \/ \E h \in 1 .. Len(new) : Arrived(old, new[h]) /\ n = News("GAME_NEW", new[h], NULL)
           \/ \E o \in 1 .. Len(old) : Left(old[o], new) /\ n = News("GAME_QUIT", old[o], NULL)
           \/ \E o \in 1 .. Len(old), h \in 1 .. Len(new) :
                Opened(old[o], new[h]) /\ n = News("GAME_OPEN", new[h], NULL)
           \/ \E o \in 1 .. Len(old), h \in 1 .. Len(new) :
                Stayed(old[o], new[h]) /\ n \in PlayerNews(old[o], new[h])
<1>1. /\ DOMAIN old = 1 .. Len(old) /\ DOMAIN new = 1 .. Len(new)
  OBVIOUS
<1>2. \A n : n \in Changes(old, new) <=>
        \/ \E x \in Named(new) : ~HasGame(old, x) /\ n = News("GAME_NEW", x, NULL)
        \/ \E x \in Named(old) : ~HasGame(new, x) /\ n = News("GAME_QUIT", x, NULL)
        \/ \E pair \in Both(old, new) :
             IsFull(pair[1]) /\ ~IsFull(pair[2]) /\ n = News("GAME_OPEN", pair[2], NULL)
        \/ \E pair \in Both(old, new) : n \in PlayerNews(pair[1], pair[2])
  BY DEF Changes, GameNews
<1>3. /\ \A pair \in Both(old, new) :
           pair[1] \in Named(old) /\ pair[2] \in Named(new) /\ pair[1].id = pair[2].id
      /\ \A x \in Named(old), y \in Named(new) :
           x.id = y.id => \E pair \in Both(old, new) : pair[1] = x /\ pair[2] = y
  <2>1. ASSUME NEW x \in Named(old), NEW y \in Named(new), x.id = y.id
        PROVE  \E pair \in Both(old, new) : pair[1] = x /\ pair[2] = y
    <3>1. <<x, y>> \in Both(old, new) /\ <<x, y>>[1] = x /\ <<x, y>>[2] = y
      BY <2>1 DEF Both
    <3>2. QED
      BY <3>1
  <2>2. QED
    BY <2>1 DEF Both
<1>4. /\ \A x : x \in Named(old) <=> \E o \in 1 .. Len(old) : old[o] = x /\ x.id # NULL
      /\ \A x : x \in Named(new) <=> \E h \in 1 .. Len(new) : new[h] = x /\ x.id # NULL
      /\ \A x : HasGame(old, x) <=> \E o \in 1 .. Len(old) : old[o].id = x.id /\ old[o].id # NULL
      /\ \A x : HasGame(new, x) <=> \E h \in 1 .. Len(new) : new[h].id = x.id /\ new[h].id # NULL
  <2>1. /\ \A x : x \in Named(old) <=> \E o \in DOMAIN old : old[o] = x /\ x.id # NULL
        /\ \A x : HasGame(old, x) <=> \E o \in DOMAIN old : old[o].id = x.id /\ old[o].id # NULL
    BY NamedGames
  <2>2. /\ \A x : x \in Named(new) <=> \E h \in DOMAIN new : new[h] = x /\ x.id # NULL
        /\ \A x : HasGame(new, x) <=> \E h \in DOMAIN new : new[h].id = x.id /\ new[h].id # NULL
    BY NamedGames
  <2>3. QED
    BY <1>1, <2>1, <2>2
<1> HIDE DEF Named, HasGame, Both
<1>5. \A n : (\E x \in Named(new) : ~HasGame(old, x) /\ n = News("GAME_NEW", x, NULL)) <=>
             \E h \in 1 .. Len(new) : Arrived(old, new[h]) /\ n = News("GAME_NEW", new[h], NULL)
  <2>1. \A h \in 1 .. Len(new) :
          Arrived(old, new[h]) <=> new[h].id # NULL /\ ~HasGame(old, new[h])
    BY <1>4 DEF Arrived
  <2>2. QED
    BY <1>4, <2>1
<1>6. \A n : (\E x \in Named(old) : ~HasGame(new, x) /\ n = News("GAME_QUIT", x, NULL)) <=>
             \E o \in 1 .. Len(old) : Left(old[o], new) /\ n = News("GAME_QUIT", old[o], NULL)
  <2>1. \A o \in 1 .. Len(old) :
          Left(old[o], new) <=> old[o].id # NULL /\ ~HasGame(new, old[o])
    BY <1>4 DEF Left
  <2>2. QED
    BY <1>4, <2>1
<1>7. /\ \A pair \in Both(old, new) : \E o \in 1 .. Len(old), h \in 1 .. Len(new) :
           Stayed(old[o], new[h]) /\ pair[1] = old[o] /\ pair[2] = new[h]
      /\ \A o \in 1 .. Len(old), h \in 1 .. Len(new) :
           Stayed(old[o], new[h]) => \E pair \in Both(old, new) : pair[1] = old[o] /\ pair[2] = new[h]
  <2>1. ASSUME NEW pair \in Both(old, new)
        PROVE  \E o \in 1 .. Len(old), h \in 1 .. Len(new) :
                 Stayed(old[o], new[h]) /\ pair[1] = old[o] /\ pair[2] = new[h]
    <3>1. /\ \E o \in 1 .. Len(old) : old[o] = pair[1] /\ pair[1].id # NULL
          /\ \E h \in 1 .. Len(new) : new[h] = pair[2] /\ pair[2].id # NULL
          /\ pair[1].id = pair[2].id
      BY <1>3, <1>4
    <3>2. QED
      BY <3>1 DEF Stayed
  <2>2. ASSUME NEW o \in 1 .. Len(old), NEW h \in 1 .. Len(new), Stayed(old[o], new[h])
        PROVE  \E pair \in Both(old, new) : pair[1] = old[o] /\ pair[2] = new[h]
    <3>1. old[o] \in Named(old) /\ new[h] \in Named(new) /\ old[o].id = new[h].id
      BY <1>4, <2>2 DEF Stayed
    <3>2. QED
      BY <1>3, <3>1
  <2>3. QED
    BY <2>1, <2>2
<1>8. \A n :
        (\E pair \in Both(old, new) :
           IsFull(pair[1]) /\ ~IsFull(pair[2]) /\ n = News("GAME_OPEN", pair[2], NULL)) <=>
        \E o \in 1 .. Len(old), h \in 1 .. Len(new) :
          Opened(old[o], new[h]) /\ n = News("GAME_OPEN", new[h], NULL)
  <2>1. ASSUME NEW n, NEW pair \in Both(old, new),
               IsFull(pair[1]), ~IsFull(pair[2]), n = News("GAME_OPEN", pair[2], NULL)
        PROVE  \E o \in 1 .. Len(old), h \in 1 .. Len(new) :
                 Opened(old[o], new[h]) /\ n = News("GAME_OPEN", new[h], NULL)
    <3>1. PICK o \in 1 .. Len(old), h \in 1 .. Len(new) :
            Stayed(old[o], new[h]) /\ pair[1] = old[o] /\ pair[2] = new[h]
      BY <1>7
    <3>2. QED
      BY <2>1, <3>1 DEF Opened
  <2>2. ASSUME NEW n, NEW o \in 1 .. Len(old), NEW h \in 1 .. Len(new),
               Opened(old[o], new[h]), n = News("GAME_OPEN", new[h], NULL)
        PROVE  \E pair \in Both(old, new) :
                 IsFull(pair[1]) /\ ~IsFull(pair[2]) /\ n = News("GAME_OPEN", pair[2], NULL)
    <3>1. PICK pair \in Both(old, new) : pair[1] = old[o] /\ pair[2] = new[h]
      BY <1>7, <2>2 DEF Opened
    <3>2. QED
      BY <2>2, <3>1 DEF Opened
  <2>3. QED
    BY <2>1, <2>2
<1>9. \A n :
        (\E pair \in Both(old, new) : n \in PlayerNews(pair[1], pair[2])) <=>
        \E o \in 1 .. Len(old), h \in 1 .. Len(new) :
          Stayed(old[o], new[h]) /\ n \in PlayerNews(old[o], new[h])
  <2>1. ASSUME NEW n, NEW pair \in Both(old, new), n \in PlayerNews(pair[1], pair[2])
        PROVE  \E o \in 1 .. Len(old), h \in 1 .. Len(new) :
                 Stayed(old[o], new[h]) /\ n \in PlayerNews(old[o], new[h])
    <3>1. PICK o \in 1 .. Len(old), h \in 1 .. Len(new) :
            Stayed(old[o], new[h]) /\ pair[1] = old[o] /\ pair[2] = new[h]
      BY <1>7
    <3>2. QED
      BY <2>1, <3>1
  <2>2. ASSUME NEW n, NEW o \in 1 .. Len(old), NEW h \in 1 .. Len(new),
               Stayed(old[o], new[h]), n \in PlayerNews(old[o], new[h])
        PROVE  \E pair \in Both(old, new) : n \in PlayerNews(pair[1], pair[2])
    <3>1. PICK pair \in Both(old, new) : pair[1] = old[o] /\ pair[2] = new[h]
      BY <1>7, <2>2
    <3>2. QED
      BY <2>2, <3>1
  <2>3. QED
    BY <2>1, <2>2
<1>10. ASSUME NEW n
       PROVE  n \in Changes(old, new) <=>
           \/ \E h \in 1 .. Len(new) : Arrived(old, new[h]) /\ n = News("GAME_NEW", new[h], NULL)
           \/ \E o \in 1 .. Len(old) : Left(old[o], new) /\ n = News("GAME_QUIT", old[o], NULL)
           \/ \E o \in 1 .. Len(old), h \in 1 .. Len(new) :
                Opened(old[o], new[h]) /\ n = News("GAME_OPEN", new[h], NULL)
           \/ \E o \in 1 .. Len(old), h \in 1 .. Len(new) :
                Stayed(old[o], new[h]) /\ n \in PlayerNews(old[o], new[h])
  BY <1>2, <1>5, <1>6, <1>8, <1>9, Zenon
<1>11. QED
  BY <1>10

\* A complete game holds the list's.
LEMMA MatchesHolds ==
  ASSUME NEW game, NEW listed \in Listing, Matches(game, listed)
  PROVE  Holds(game, listed) /\ game.player_count = Len(listed.players)
         /\ (Full(game) <=> IsFull(listed))
<1>1. /\ game.unique_identifier = listed.id /\ game.playerlimit = listed.limit
      /\ game.player_count = Len(listed.players)
      /\ \A p \in 1 .. Len(listed.players) : game.playerinfo[p - 1] = Entry(listed.players[p])
  BY PlayersOf DEF Matches, Entry
<1>2. Len(listed.players) \in Nat
  BY PlayersOf
<1>3. QED
  BY <1>1, <1>2 DEF Holds, Full, IsFull

\* The game of the table of the scan before that has an identifier.
LEMMA GameBefore ==
  ASSUME IndInv, ListInv, PrevInv, whole_prev, NEW id, id # NULL
  PROVE  LET found == FindGame(gameinfo_prev, gameinfo_prev_count, id)
         IN /\ \A o \in 1 .. Len(list_prev) :
                 list_prev[o].id = id => found = gameinfo_prev[o - 1]
            /\ (\A o \in 1 .. Len(list_prev) : list_prev[o].id # id) => found = NULL
            /\ \A o \in 1 .. Len(list_prev) :
                 gameinfo_prev[o - 1] # NULL /\ Matches(gameinfo_prev[o - 1], list_prev[o])
                 /\ list_prev[o] \in Listing
<1>1. /\ gameinfo_prev_count = Len(list_prev) /\ IsList(list_prev)
      /\ \A o \in 1 .. Len(list_prev) : Matches(gameinfo_prev[o - 1], list_prev[o])
      /\ list_prev \in Seq(Listing) /\ Len(list_prev) \in Nat /\ Len(list_prev) <= MAX_SERVERS
  BY DEF PrevInv, ListInv, IsList, IndInv, CursorInv
<1>2. \A o \in 1 .. Len(list_prev) :
        gameinfo_prev[o - 1].unique_identifier = list_prev[o].id
  BY <1>1 DEF Matches
<1>3. \A o \in 1 .. Len(list_prev) : gameinfo_prev[o - 1] # NULL /\ list_prev[o] \in Listing
  BY <1>1, RecordAssumption DEF IndInv, TypeOK, GameSlots
<1>4. LET found == FindGame(gameinfo_prev, gameinfo_prev_count, id)
      IN /\ \A o \in 1 .. Len(list_prev) :
                 list_prev[o].id = id => found = gameinfo_prev[o - 1]
         /\ (\A o \in 1 .. Len(list_prev) : list_prev[o].id # id) => found = NULL
  <2>1. gameinfo_prev_count \in Nat /\ gameinfo_prev_count <= Len(list_prev)
    BY <1>1
  <2>2. SameIds(gameinfo_prev, list_prev, gameinfo_prev_count)
    BY <1>1, <1>2 DEF SameIds
  <2>3. /\ ~Has(list_prev, gameinfo_prev_count, id)
             => FindGame(gameinfo_prev, gameinfo_prev_count, id) = NULL
        /\ \A o \in 1 .. gameinfo_prev_count : list_prev[o].id = id
             => FindGame(gameinfo_prev, gameinfo_prev_count, id) = gameinfo_prev[o - 1]
    BY <1>1, <2>1, <2>2, GameFound
  <2>4. Has(list_prev, gameinfo_prev_count, id)
          <=> \E o \in 1 .. Len(list_prev) : list_prev[o].id = id
    BY <1>1 DEF Has
  <2>5. QED
    BY <1>1, <2>3, <2>4
<1>5. QED
  BY <1>1, <1>3, <1>4

\* What a listed game is notified as, once the lists are known.
LEMMA GameNoticesAre ==
  ASSUME IndInv, ListInv, PrevInv, whole_prev,
         NEW game, NEW b \in Listing, Matches(game, b)
  PROVE  \A n : n \in GameNotices(game) <=>
           \/ Arrived(list_prev, b) /\ n = News("GAME_NEW", b, NULL)
           \/ \E o \in 1 .. Len(list_prev) :
                Opened(list_prev[o], b) /\ n = News("GAME_OPEN", b, NULL)
<1> DEFINE found == FindGame(gameinfo_prev, gameinfo_prev_count, b.id)
<1>1. /\ game.unique_identifier = b.id /\ (Full(game) <=> IsFull(b))
  BY MatchesHolds DEF Matches
<1>2. CASE b.id = NULL
  BY <1>1, <1>2 DEF GameNotices, Arrived, Opened, Stayed
<1>3. ASSUME b.id # NULL, \A o \in 1 .. Len(list_prev) : list_prev[o].id # b.id
      PROVE  \A n : n \in GameNotices(game) <=>
           \/ Arrived(list_prev, b) /\ n = News("GAME_NEW", b, NULL)
           \/ \E o \in 1 .. Len(list_prev) :
                Opened(list_prev[o], b) /\ n = News("GAME_OPEN", b, NULL)
  <2>1. found = NULL
    BY <1>3, GameBefore
  <2>2. GameNotices(game) = {News("GAME_NEW", b, NULL)}
    BY <1>1, <1>3, <2>1 DEF GameNotices, Notice, News
  <2>3. QED
    BY <1>3, <2>2 DEF Arrived, Opened, Stayed
<1>4. ASSUME b.id # NULL, NEW o \in 1 .. Len(list_prev), list_prev[o].id = b.id
      PROVE  \A n : n \in GameNotices(game) <=>
           \/ Arrived(list_prev, b) /\ n = News("GAME_NEW", b, NULL)
           \/ \E q \in 1 .. Len(list_prev) :
                Opened(list_prev[q], b) /\ n = News("GAME_OPEN", b, NULL)
  <2>1. found = gameinfo_prev[o - 1] /\ found # NULL /\ Matches(found, list_prev[o])
        /\ list_prev[o] \in Listing
    BY <1>4, GameBefore
  <2>2. Full(found) <=> IsFull(list_prev[o])
    BY <2>1, MatchesHolds
  <2>3. \A q \in 1 .. Len(list_prev) : list_prev[q].id = b.id => q = o
    BY <1>4 DEF ListInv, IsList
  <2>4. GameNotices(game) = IF Opened(list_prev[o], b) THEN {News("GAME_OPEN", b, NULL)} ELSE {}
    BY <1>1, <1>4, <2>1, <2>2 DEF GameNotices, Notice, News, Opened, Stayed
  <2>5. \A q \in 1 .. Len(list_prev) : Opened(list_prev[q], b) => q = o
    BY <2>3 DEF Opened, Stayed
  <2>6. ~Arrived(list_prev, b)
    BY <1>4 DEF Arrived
  <2> HIDE DEF found
  <2>7. QED
    BY <2>4, <2>5, <2>6
<1>5. QED
  BY <1>2, <1>3, <1>4

\* What has become of the players of a, of which b now knows the first m.
Moved(a, b, m, n) == QuitOf(a, b, m, n) \/ JoinedOf(a, b, m, n) \/ ChangedOf(a, b, m, n)

LEMMA GamesType ==
  ASSUME ListInv
  PROVE  /\ list_prev \in Seq(Listing) /\ list \in Seq(Listing)
         /\ Len(list_prev) \in Nat /\ Len(list) \in Nat
         /\ \A o \in 1 .. Len(list_prev) : list_prev[o] \in Listing /\ Distinct(list_prev[o])
         /\ \A h \in 1 .. Len(list) : list[h] \in Listing /\ Distinct(list[h])
<1>1. ASSUME NEW games, IsList(games)
      PROVE  /\ games \in Seq(Listing) /\ Len(games) \in Nat
             /\ \A g \in 1 .. Len(games) : games[g] \in Listing /\ Distinct(games[g])
  BY <1>1 DEF IsList, Distinct
<1>2. QED
  BY <1>1 DEF ListInv

\* What the comparison tells of a game of the list before: if it has been given
\* no identifier, it is taken for another without one; otherwise it has been
\* closed, or it is among the games that the table has reached.
LEMMA ComparisonIs ==
  ASSUME IndInv, ListInv, HoldsInv, PrevInv, whole_prev, NEW o \in 1 .. Len(list_prev)
  PROVE  LET a == list_prev[o]
             old == gameinfo_prev[o - 1]
         IN /\ a.id = NULL => \A n \in Comparison(old) : n.game = NULL
            /\ a.id # NULL => \A n : n \in Comparison(old) <=>
                 \/ /\ \A h \in 1 .. scan_count_servers : list[h].id # a.id
                    /\ n = News("GAME_QUIT", a, NULL)
                 \/ \E h \in 1 .. scan_count_servers :
                      Stayed(a, list[h]) /\ Moved(a, list[h], gameinfo[h - 1].player_count, n)
<1> DEFINE a == list_prev[o]
           old == gameinfo_prev[o - 1]
           new == FindGame(gameinfo, scan_count_servers, a.id)
<1>1. /\ a \in Listing /\ Distinct(a) /\ Matches(old, a) /\ Len(list) \in Nat
      /\ scan_count_servers \in Nat /\ scan_count_servers <= Len(list)
      /\ scan_count_servers <= MAX_SERVERS
  BY GamesType DEF PrevInv, HoldsInv, IndInv, TypeOK, CursorInv
<1>2. /\ Holds(old, a) /\ old.player_count = Len(a.players) /\ old.unique_identifier = a.id
  BY <1>1, MatchesHolds DEF Matches
<1>3. Comparison(old) = IF new = NULL THEN {Notice("GAME_QUIT", old, NULL)} ELSE PlayerNotices(old, new)
  BY <1>2 DEF Comparison
<1>4. Notice("GAME_QUIT", old, NULL) = News("GAME_QUIT", a, NULL)
  BY <1>2 DEF Notice, News
<1> HIDE DEF a, old, new
<1>5. ASSUME a.id = NULL, NEW n \in Comparison(old)
      PROVE  n.game = NULL
  <2>1. CASE new = NULL
    BY <1>3, <1>4, <1>5, <2>1 DEF News
  <2>2. CASE new # NULL
    <3>1. new.unique_identifier = NULL
      BY <1>1, <1>5, <2>2, FoundHasId DEF new
    <3>2. \A action, player : Notice(action, new, player).game = NULL
      BY <3>1 DEF Notice
    <3>3. \E action, player : n = Notice(action, new, player)
      BY <1>3, <2>2 DEF PlayerNotices
    <3>4. QED
      BY <3>2, <3>3
  <2>3. QED
    BY <2>1, <2>2
<1>6. ASSUME a.id # NULL, NEW h \in 1 .. scan_count_servers, list[h].id = a.id
      PROVE  \A n : n \in Comparison(old) <=> Moved(a, list[h], gameinfo[h - 1].player_count, n)
  <2>1. /\ list[h] \in Listing /\ Distinct(list[h]) /\ h - 1 \in GameSlots
        /\ Holds(gameinfo[h - 1], list[h])
    BY <1>1, GamesType DEF HoldsInv, GameSlots
  <2>2. gameinfo[h - 1] \in GameInfo
    BY <2>1 DEF IndInv, TypeOK
  <2>3. gameinfo[h - 1] # NULL /\ gameinfo[h - 1].player_count \in Nat
    BY <2>2, RecordAssumption DEF GameInfo
  <2>4. SameIds(gameinfo, list, scan_count_servers)
    BY DEF HoldsInv, Holds, SameIds
  <2>5. IsList(list)
    BY DEF ListInv
  <2>6. new = gameinfo[h - 1]
    BY <1>1, <1>6, <2>4, <2>5, GameFound DEF new
  <2>7. Comparison(old) = PlayerNotices(old, gameinfo[h - 1])
    BY <1>3, <2>3, <2>6
  <2>8. \A n : n \in PlayerNotices(old, gameinfo[h - 1])
                 <=> Moved(a, list[h], gameinfo[h - 1].player_count, n)
    BY <1>1, <1>2, <2>1, <2>3, PlayerNoticesAre DEF Moved
  <2>9. QED
    BY <2>7, <2>8
<1>7. ASSUME a.id # NULL, \A h \in 1 .. scan_count_servers : list[h].id # a.id
      PROVE  Comparison(old) = {News("GAME_QUIT", a, NULL)}
  <2>1. SameIds(gameinfo, list, scan_count_servers)
    BY DEF HoldsInv, Holds, SameIds
  <2>2. IsList(list)
    BY DEF ListInv
  <2>3. a.id # NULL /\ scan_count_servers \in Nat /\ scan_count_servers <= Len(list)
    BY <1>1, <1>7
  <2>4. ~Has(list, scan_count_servers, a.id)
    BY <1>7 DEF Has
  <2>5. new = NULL
    BY <2>1, <2>2, <2>3, <2>4, GameFound DEF new
  <2>6. QED
    BY <1>3, <1>4, <2>5
<1>8. ASSUME a.id # NULL
      PROVE  \A n : n \in Comparison(old) <=>
                 \/ /\ \A h \in 1 .. scan_count_servers : list[h].id # a.id
                    /\ n = News("GAME_QUIT", a, NULL)
                 \/ \E h \in 1 .. scan_count_servers :
                      Stayed(a, list[h]) /\ Moved(a, list[h], gameinfo[h - 1].player_count, n)
  <2>1. CASE \A h \in 1 .. scan_count_servers : list[h].id # a.id
    BY <1>7, <1>8, <2>1 DEF Stayed
  <2>2. ASSUME NEW h \in 1 .. scan_count_servers, list[h].id = a.id
        PROVE  \A n : n \in Comparison(old) <=>
                 \/ /\ \A g \in 1 .. scan_count_servers : list[g].id # a.id
                    /\ n = News("GAME_QUIT", a, NULL)
                 \/ \E g \in 1 .. scan_count_servers :
                      Stayed(a, list[g]) /\ Moved(a, list[g], gameinfo[g - 1].player_count, n)
    <3>1. \A n : n \in Comparison(old) <=> Moved(a, list[h], gameinfo[h - 1].player_count, n)
      BY <1>6, <1>8, <2>2
    <3>2. \A g \in 1 .. scan_count_servers : Stayed(a, list[g]) <=> g = h
      BY <1>1, <1>8, <2>2 DEF Stayed, ListInv, IsList
    <3>3. QED
      BY <2>2, <3>1, <3>2
  <2>3. QED
    BY <2>1, <2>2
<1>9. QED
  BY <1>5, <1>8 DEF a, old

\* Of players that a game has counted, what it is told to have gained or renamed.
LEMMA MovedSoFar ==
  ASSUME NEW a \in Listing, NEW b \in Listing, NEW m \in Nat, m <= Len(b.players), NEW n,
         Moved(a, b, m, n), n.action # "PLAYER_QUIT" \/ m = Len(b.players)
  PROVE  n \in PlayerNews(a, b)
<1>1. Len(b.players) \in Nat
  BY PlayersOf
<1>2. CASE m = Len(b.players)
  BY <1>2, PlayerNewsAre DEF Moved
<1>3. CASE n.action # "PLAYER_QUIT"
  <2>1. ~QuitOf(a, b, m, n)
    BY <1>3 DEF QuitOf, News
  <2>2. \A q \in 1 .. m : q \in 1 .. Len(b.players)
    BY <1>1
  <2>3. JoinedOf(a, b, m, n) => JoinedOf(a, b, Len(b.players), n)
    BY <2>2 DEF JoinedOf
  <2>4. ChangedOf(a, b, m, n) => ChangedOf(a, b, Len(b.players), n)
    BY <2>2 DEF ChangedOf
  <2>5. QED
    BY <2>1, <2>3, <2>4, PlayerNewsAre DEF Moved
<1>4. QED
  BY <1>2, <1>3

-----------------------------------------------------------------------------
(* What has been told is true, and after whole scans it is all.             *)

\* What is told of a row is a change between the lists.
LEMMA RowNews ==
  ASSUME IndInv, ListInv, RowsInv, PrevInv, whole_prev, NEW n \in ToldOfRows
  PROVE  n \in Changes(list_prev, list)
<1>1. PICK s \in ToSet(hGameList) : n \in GameNotices(gameinfo[s])
  BY DEF ToldOfRows
<1>2. s + 1 \in 1 .. Len(list) /\ Matches(gameinfo[s], list[s + 1])
  <2>1. \E r \in DOMAIN hGameList : hGameList[r] = s
    BY Rows
  <2>2. s + 1 \in 1 .. Complete /\ Matches(gameinfo[s], list[s + 1])
    BY <2>1 DEF RowsInv
  <2>3. QED
    BY <2>2, CompleteType
<1>3. list[s + 1] \in Listing
  BY <1>2, GamesType
<1>4. \/ Arrived(list_prev, list[s + 1]) /\ n = News("GAME_NEW", list[s + 1], NULL)
      \/ \E o \in 1 .. Len(list_prev) :
           Opened(list_prev[o], list[s + 1]) /\ n = News("GAME_OPEN", list[s + 1], NULL)
  BY <1>1, <1>2, <1>3, GameNoticesAre
<1>5. QED
  BY <1>2, <1>4, GamesType, ChangesAre

\* What is told of a comparison is a change between the lists, if it is of a game
\* with an identifier and not that something has gone, or if the list is whole.
LEMMA ComparisonNews ==
  ASSUME IndInv, ListInv, HoldsInv, PrevInv, whole_prev, NEW n \in ToldAtEnd, n.game # NULL,
         \/ n.action \notin {"GAME_QUIT", "PLAYER_QUIT"}
         \/ /\ scan_count_servers = Len(list)
            /\ \A h \in 1 .. Len(list) : Matches(gameinfo[h - 1], list[h])
  PROVE  n \in Changes(list_prev, list)
<1>1. gameinfo_prev_count = Len(list_prev) /\ Len(list_prev) \in Nat
  BY GamesType DEF PrevInv
<1>2. PICK s \in 0 .. gameinfo_prev_count - 1 : n \in Comparison(gameinfo_prev[s])
  BY DEF ToldAtEnd
<1>3. s + 1 \in 1 .. Len(list_prev) /\ (s + 1) - 1 = s
  BY <1>1
<1> DEFINE o == s + 1
<1>4. o \in 1 .. Len(list_prev) /\ n \in Comparison(gameinfo_prev[o - 1])
  BY <1>2, <1>3
<1> HIDE DEF o
<1>5. list_prev[o].id # NULL
  BY <1>4, ComparisonIs
<1>6. \/ /\ \A h \in 1 .. scan_count_servers : list[h].id # list_prev[o].id
         /\ n = News("GAME_QUIT", list_prev[o], NULL)
      \/ \E h \in 1 .. scan_count_servers :
           /\ Stayed(list_prev[o], list[h])
           /\ Moved(list_prev[o], list[h], gameinfo[h - 1].player_count, n)
  BY <1>4, <1>5, ComparisonIs
<1>7. CASE /\ \A h \in 1 .. scan_count_servers : list[h].id # list_prev[o].id
           /\ n = News("GAME_QUIT", list_prev[o], NULL)
  <2>1. n.action = "GAME_QUIT"
    BY <1>7 DEF News
  <2>2. Left(list_prev[o], list)
    BY <1>5, <1>7, <2>1 DEF Left
  <2>3. QED
    BY <1>4, <1>7, <2>2, GamesType, ChangesAre
<1>8. ASSUME NEW h \in 1 .. scan_count_servers, Stayed(list_prev[o], list[h]),
             Moved(list_prev[o], list[h], gameinfo[h - 1].player_count, n)
      PROVE  n \in Changes(list_prev, list)
  <2>1. /\ h \in 1 .. Len(list) /\ h - 1 \in GameSlots /\ Holds(gameinfo[h - 1], list[h])
        /\ list[h] \in Listing /\ list_prev[o] \in Listing
    <3>1. scan_count_servers \in Nat /\ scan_count_servers <= MAX_SERVERS
          /\ scan_count_servers <= Len(list)
      BY DEF IndInv, TypeOK, CursorInv, HoldsInv
    <3>2. h \in 1 .. Len(list) /\ h - 1 \in GameSlots
      BY <3>1, GamesType DEF GameSlots
    <3>3. QED
      BY <1>4, <3>2, GamesType DEF HoldsInv
  <2>2. /\ gameinfo[h - 1].player_count \in Nat
        /\ gameinfo[h - 1].player_count <= Len(list[h].players)
    BY <2>1 DEF IndInv, TypeOK, GameInfo, Holds
  <2>3. n.action # "PLAYER_QUIT" \/ gameinfo[h - 1].player_count = Len(list[h].players)
    BY <2>1, MatchesHolds
  <2>4. n \in PlayerNews(list_prev[o], list[h])
    BY <1>8, <2>1, <2>2, <2>3, MovedSoFar
  <2>5. QED
    BY <1>4, <1>8, <2>1, <2>4, GamesType, ChangesAre
<1>9. QED
  BY <1>6, <1>7, <1>8

LEMMA NewsTrue ==
  ASSUME IndInv, MatchInv
  PROVE  NoFalseNews
<1>1. CASE phase = "created"
  BY <1>1 DEF MatchInv, ToldInv
<1>2. CASE phase # "created"
  <2>1. told \subseteq ToldOfRows \cup ToldAtEnd
    BY <1>2 DEF MatchInv, ToldInv, IndInv, TypeOK
  <2>2. ASSUME whole_prev, NEW n \in told, n.game # NULL,
               n.action \notin {"GAME_QUIT", "PLAYER_QUIT"}
        PROVE  n \in Changes(list_prev, list)
    BY <2>1, <2>2, RowNews, ComparisonNews DEF MatchInv
  <2>3. QED
    BY <2>2 DEF NoFalseNews, ToldOfNamed
<1>3. QED
  BY <1>1, <1>2

LEMMA NewsWhole ==
  ASSUME IndInv, MatchInv
  PROVE  ChangesAreTold
<1> SUFFICES ASSUME phase = "idle", whole, whole_prev
             PROVE  ToldOfNamed = Changes(list_prev, list)
  BY DEF ChangesAreTold
<1>1. /\ ListInv /\ HoldsInv /\ RowsInv /\ PrevInv
      /\ told = ToldOfRows \cup ToldAtEnd
  BY DEF MatchInv, ToldInv
<1>2. /\ scan_count_servers = Len(list) /\ Len(list) \in Nat
      /\ \A h \in 1 .. Len(list) : Matches(gameinfo[h - 1], list[h])
      /\ ToSet(hGameList) = 0 .. Len(list) - 1
  <2>1. Current /\ phase # "scanning" /\ phase # "created"
    BY DEF Current
  <2>2. Complete = Len(list)
    BY <1>1, <2>1, CompleteType DEF MatchInv, CurrentInv
  <2>3. QED
    BY <1>1, <2>1, <2>2, CompleteType DEF MatchInv, CurrentInv
<1>3. \A n : n \in ToldOfNamed <=> n \in told /\ n.game # NULL
  BY DEF ToldOfNamed
<1> HIDE DEF ToldOfNamed
<1>4. ASSUME NEW n \in ToldOfNamed PROVE n \in Changes(list_prev, list)
  <2>1. n.game # NULL /\ (n \in ToldOfRows \/ n \in ToldAtEnd)
    BY <1>1, <1>3, <1>4
  <2>2. QED
    BY <1>1, <1>2, <2>1, RowNews, ComparisonNews
<1>5. ASSUME NEW h \in 1 .. Len(list), NEW n,
             \/ Arrived(list_prev, list[h]) /\ n = News("GAME_NEW", list[h], NULL)
             \/ \E o \in 1 .. Len(list_prev) :
                  Opened(list_prev[o], list[h]) /\ n = News("GAME_OPEN", list[h], NULL)
      PROVE  n \in ToldOfNamed
  <2>1. list[h] \in Listing /\ h - 1 \in ToSet(hGameList)
    BY <1>1, <1>2, GamesType
  <2>2. n \in GameNotices(gameinfo[h - 1])
    BY <1>1, <1>2, <1>5, <2>1, GameNoticesAre
  <2>3. n \in ToldOfRows
    BY <2>1, <2>2 DEF ToldOfRows
  <2>4. n.game # NULL
    BY <1>5 DEF Arrived, Opened, Stayed, News
  <2>5. QED
    BY <1>1, <1>3, <2>3, <2>4
<1>6. ASSUME NEW o \in 1 .. Len(list_prev), NEW n, n.game # NULL,
             n \in Comparison(gameinfo_prev[o - 1])
      PROVE  n \in ToldOfNamed
  <2>1. gameinfo_prev_count = Len(list_prev) /\ Len(list_prev) \in Nat
    BY <1>1, GamesType DEF PrevInv
  <2>2. o - 1 \in 0 .. gameinfo_prev_count - 1
    BY <2>1
  <2>3. n \in ToldAtEnd
    BY <1>6, <2>2 DEF ToldAtEnd
  <2>4. QED
    BY <1>1, <1>3, <1>6, <2>3
<1>7. ASSUME NEW o \in 1 .. Len(list_prev), Left(list_prev[o], list)
      PROVE  News("GAME_QUIT", list_prev[o], NULL) \in ToldOfNamed
  <2> DEFINE n == News("GAME_QUIT", list_prev[o], NULL)
  <2>1. list_prev[o].id # NULL /\ \A h \in 1 .. scan_count_servers : list[h].id # list_prev[o].id
    BY <1>2, <1>7 DEF Left
  <2>2. n.game # NULL
    BY <2>1 DEF News
  <2>3. n \in Comparison(gameinfo_prev[o - 1])
    BY <1>1, <2>1, ComparisonIs
  <2>4. QED
    BY <1>6, <2>2, <2>3
<1>8. ASSUME NEW o \in 1 .. Len(list_prev), NEW h \in 1 .. Len(list),
             Stayed(list_prev[o], list[h]), NEW n \in PlayerNews(list_prev[o], list[h])
      PROVE  n \in ToldOfNamed
  <2>1. list_prev[o] \in Listing /\ list[h] \in Listing
    BY <1>1, GamesType
  <2>2. Moved(list_prev[o], list[h], Len(list[h].players), n)
    BY <1>8, <2>1, PlayerNewsAre DEF Moved
  <2>3. n.game # NULL
    BY <1>8, <2>2 DEF Stayed, Moved, QuitOf, JoinedOf, ChangedOf, News
  <2>4. gameinfo[h - 1].player_count = Len(list[h].players)
    BY <1>2, <2>1, MatchesHolds
  <2>5. list_prev[o].id # NULL /\ h \in 1 .. scan_count_servers
    BY <1>2, <1>8 DEF Stayed
  <2>6. n \in Comparison(gameinfo_prev[o - 1])
    BY <1>1, <1>8, <2>2, <2>4, <2>5, ComparisonIs
  <2>7. QED
    BY <1>6, <2>3, <2>6
<1>9. ASSUME NEW n \in Changes(list_prev, list) PROVE n \in ToldOfNamed
  <2>1. \/ \E h \in 1 .. Len(list) :
             Arrived(list_prev, list[h]) /\ n = News("GAME_NEW", list[h], NULL)
        \/ \E o \in 1 .. Len(list_prev) :
             Left(list_prev[o], list) /\ n = News("GAME_QUIT", list_prev[o], NULL)
        \/ \E o \in 1 .. Len(list_prev), h \in 1 .. Len(list) :
             Opened(list_prev[o], list[h]) /\ n = News("GAME_OPEN", list[h], NULL)
        \/ \E o \in 1 .. Len(list_prev), h \in 1 .. Len(list) :
             Stayed(list_prev[o], list[h]) /\ n \in PlayerNews(list_prev[o], list[h])
    BY <1>1, <1>9, GamesType, ChangesAre
  <2>2. QED
    BY <1>5, <1>7, <1>8, <2>1
<1>10. QED
  BY <1>4, <1>9

-----------------------------------------------------------------------------
(* The theorems.                                                            *)

LEMMA MatchInit ==
  ASSUME ScanInit
  PROVE  MatchInv
<1>1. /\ phase = "idle" /\ ~stopped /\ hGameList = <<>> /\ told = {} /\ total_player_count = 0
      /\ scan_count_servers = 0 /\ gameinfo_prev_count = 0 /\ selected = "none"
      /\ list = <<>> /\ list_prev = <<>> /\ whole /\ ~whole_prev /\ doc = Blank
  BY DEF ScanInit, Init
<1>2. Complete = 0 /\ ~Writing /\ doc.at = "list" /\ Len(list) = 0 /\ DOMAIN hGameList = {}
  BY <1>1 DEF Blank, Complete, Writing
<1>3. ListInv
  BY <1>1, <1>2, EmptyList DEF ListInv
<1>4. HoldsInv /\ RowsInv /\ PrevInv
  BY <1>1, <1>2 DEF HoldsInv, RowsInv, PrevInv
<1>5. CurrentInv
  <2>1. ToSet(hGameList) = 0 .. Complete - 1 /\ Len(hGameList) = Complete
    BY <1>1, <1>2, EmptyList
  <2>2. QED
    BY <1>1, <1>2, <2>1 DEF CurrentInv
<1>6. ToldInv
  <2>1. ToldOfRows = {} /\ ToldAtEnd = {}
    BY <1>1, EmptyList DEF ToldOfRows, ToldAtEnd
  <2>2. QED
    BY <1>1, <2>1 DEF ToldInv
<1>7. StatusInv
  BY <1>1, <1>2, EmptyList DEF StatusInv
<1>8. QED
  BY <1>3, <1>4, <1>5, <1>6, <1>7 DEF MatchInv

LEMMA MatchNext ==
  ASSUME ScanInv, IndInv, MatchInv, [ScanNext]_scanVars
  PROVE  MatchInv'
<1>1. CASE Begin
  BY <1>1, NewsTrue, BeginMatches
<1>2. CASE Start
  BY <1>2, StartMatches
<1>3. CASE Write
  BY <1>3, GameStep, PlayerStep, NickStep, TeamStep, EndGameStep, EmptyObject DEF Write
<1>4. CASE Fetch
  BY <1>4, FetchMatches
<1>5. CASE ByUser
  BY <1>5, ByUserStep
<1>6. CASE Dismiss
  BY <1>6, DismissMatches
<1>7. CASE UNCHANGED scanVars
  <2>1. /\ UNCHANGED <<table, previous, phase, window, call, told>> /\ UNCHANGED <<doc, list, history>>
    BY <1>7 DEF scanVars, vars, writer
  <2>2. hGameList \in Seq(GameSlots)
    BY DEF IndInv, TypeOK
  <2>3. QED
    BY <2>1, <2>2, WindowKept DEF table, window, call
<1>8. CASE Done
  BY <1>7, <1>8 DEF Done
<1>9. QED
  BY <1>1, <1>2, <1>3, <1>4, <1>5, <1>6, <1>7, <1>8 DEF ScanNext, Thread

LEMMA TableAlways == ScanSpec => []IndInv
  BY ScanImplementsTable, IndAlways, PTL DEF ImplementsTable

LEMMA MatchAlways == ScanSpec => []MatchInv
<1>1. ScanInv /\ IndInv /\ MatchInv /\ [ScanNext]_scanVars => MatchInv'
  BY MatchNext
<1>2. QED
  BY <1>1, MatchInit, ScanInvHolds, TableAlways, PTL DEF ScanSpec

\* ProcessSessionInfo (205-425) and AddGameInfoRow, of any list: a row shows one
\* game of the list, with all its players; after a whole scan there is one row
\* for each game. SessionTable itself does not make it so: it is the order of
\* the calls, for the objects of one list, that the proof rests on.
THEOREM RowsShowGames == ScanSpec => []RowsMatchList
<1>1. ASSUME IndInv, MatchInv PROVE RowsMatchList
  <2>1. \A r \in DOMAIN hGameList :
          hGameList[r] + 1 \in DOMAIN list /\ Matches(gameinfo[hGameList[r]], list[hGameList[r] + 1])
    BY <1>1, CompleteType DEF MatchInv, RowsInv
  <2>2. ASSUME phase = "idle", whole
        PROVE  /\ Len(hGameList) = Len(list) /\ scan_count_servers = Len(list)
               /\ ToSet(hGameList) = {g - 1 : g \in DOMAIN list}
    <3>1. Current /\ phase # "scanning" /\ phase # "created"
      BY <2>2 DEF Current
    <3>2. /\ Len(hGameList) = Len(list) /\ scan_count_servers = Len(list)
          /\ ToSet(hGameList) = 0 .. Len(list) - 1
      BY <1>1, <3>1, CompleteType DEF MatchInv, CurrentInv
    <3>3. 0 .. Len(list) - 1 = {g - 1 : g \in 1 .. Len(list)}
      <4>1. Len(list) \in Nat
        BY <1>1, CompleteType DEF MatchInv
      <4>2. \A s \in 0 .. Len(list) - 1 : s + 1 \in 1 .. Len(list) /\ (s + 1) - 1 = s
        BY <4>1
      <4>3. \A g \in 1 .. Len(list) : g - 1 \in 0 .. Len(list) - 1
        BY <4>1
      <4>4. QED
        BY <4>2, <4>3
    <3>4. QED
      BY <1>1, <3>2, <3>3, CompleteType DEF MatchInv
  <2>3. QED
    BY <2>1, <2>2 DEF RowsMatchList
<1>2. QED
  BY <1>1, TableAlways, MatchAlways, PTL

\* total_player_count (414-419) adds up the players of the games as they are
\* listed: after a whole scan in which none was selected, SetGeneralStatus shows
\* the numbers of games and players of the list.
THEOREM StatusIsRight == ScanSpec => []StatusMatches
<1>1. ASSUME IndInv, MatchInv PROVE StatusMatches
  <2>1. SUFFICES ASSUME phase = "idle", whole, selected = "none", list # <<>>
                 PROVE  hStatusBar = [games |-> Len(list), players |-> PlayersIn(list)[Len(list)]]
    BY DEF StatusMatches
  <2>2. Current /\ phase # "scanning" /\ phase # "created"
    BY <2>1 DEF Current
  <2>3. doc.at = "list" /\ Complete = Len(list)
    BY <1>1, <2>2, CompleteType DEF MatchInv, CurrentInv
  <2>4. QED
    BY <1>1, <2>1, <2>2, <2>3 DEF MatchInv, StatusInv
<1>2. QED
  BY <1>1, TableAlways, MatchAlways, PTL

\* The comparison at the end of ScanThread and the notices of ProcessSessionInfo:
\* nothing false is told of what a scan has seen, wherever it was cut off.
THEOREM NewsIsTrue == ScanSpec => []NoFalseNews
  BY NewsTrue, TableAlways, MatchAlways, PTL

\* ... and two whole scans tell all that has changed between their lists.
THEOREM NewsIsWhole == ScanSpec => []ChangesAreTold
  BY NewsWhole, TableAlways, MatchAlways, PTL

-----------------------------------------------------------------------------
(* Which lists are refused.                                                 *)

\* Each call of the writer fits where it is, and is for a player only in a game.
LEMMA WriterCalls ==
  ASSUME ScanInv, Write
  PROVE  WriteEmpty \/ \E k : Call(k) /\ CallFits(k) /\ (k.is_player => doc.at # "list")
<1>1. doc \in DocType /\ (doc.at = "user" => doc.player \in Accounts)
  BY DEF ScanInv, DocInv, DocType
<1>2. ASSUME NEW id \in Ids \cup {NULL}, WriteGame(id)
      PROVE  \E k : Call(k) /\ CallFits(k) /\ (k.is_player => doc.at # "list")
  <2>1. PICK k : /\ Call(k)
                 /\ k = IF id = NULL THEN NewPair(FALSE, FALSE, "other", NULL)
                        ELSE NewPair(FALSE, FALSE, "SERVERKEY_G", id)
    BY <1>2 DEF WriteGame
  <2>2. CASE id = NULL
    <3>1. k = NewPair(FALSE, FALSE, "other", NULL)
      BY <2>1, <2>2
    <3>2. CallFits(k) /\ ~k.is_player
      BY <1>1, <3>1 DEF NewPair, WellFormed, CallFits, KeyValueInfo, DocType
    <3>3. QED
      BY <2>1, <3>2
  <2>3. CASE id # NULL
    <3>1. k = NewPair(FALSE, FALSE, "SERVERKEY_G", id) /\ id \in Ids
      BY <2>1, <2>3
    <3>2. CallFits(k) /\ ~k.is_player
      BY <1>1, <3>1 DEF NewPair, WellFormed, CallFits, KeyValueInfo, DocType
    <3>3. QED
      BY <2>1, <3>2
  <2>4. QED
    BY <2>2, <2>3
<1>3. ASSUME NEW player \in Accounts, WriteUser(player)
      PROVE  \E k : Call(k) /\ CallFits(k) /\ (k.is_player => doc.at # "list")
  <2>1. PICK k : Call(k) /\ k = NewPair(FALSE, TRUE, "PLAYERKEY_USERID", player.user) /\ player.user \in Users
    BY <1>1, <1>3 DEF WriteUser
  <2>2. CallFits(k)
    BY <1>1, <2>1 DEF NewPair, WellFormed, CallFits, KeyValueInfo, DocType
  <2>3. QED
    BY <1>3, <2>1, <2>2 DEF WriteUser
<1>4. ASSUME WriteName
      PROVE  \E k : Call(k) /\ CallFits(k) /\ (k.is_player => doc.at # "list")
  <2>1. PICK k : Call(k) /\ k = NewPair(FALSE, TRUE, "PLAYERKEY_NAME", doc.player.name) /\ doc.player.name \in Names
    BY <1>1, <1>4 DEF WriteName
  <2>2. CallFits(k)
    BY <1>1, <2>1 DEF NewPair, WellFormed, CallFits, KeyValueInfo, DocType
  <2>3. QED
    BY <1>4, <2>1, <2>2 DEF WriteName
<1>5. ASSUME WriteTeam
      PROVE  \E k : Call(k) /\ CallFits(k) /\ (k.is_player => doc.at # "list")
  <2>1. PICK k : Call(k) /\ k = NewPair(TRUE, TRUE, "other", NULL)
    BY <1>1, <1>5 DEF WriteTeam
  <2>2. CallFits(k)
    BY <1>1, <2>1 DEF NewPair, WellFormed, CallFits, KeyValueInfo, DocType
  <2>3. QED
    BY <1>5, <2>1, <2>2 DEF WriteTeam
<1>6. ASSUME NEW limit \in Limits, EndGame(limit)
      PROVE  \E k : Call(k) /\ CallFits(k) /\ (k.is_player => doc.at # "list")
  <2>1. PICK k : Call(k) /\ k = NewPair(TRUE, FALSE, "SERVERKEY_PLAYERLIMIT", limit)
    BY <1>1, <1>6 DEF EndGame
  <2>2. CallFits(k)
    BY <1>1, <2>1 DEF NewPair, WellFormed, CallFits, KeyValueInfo, DocType
  <2>3. QED
    BY <1>6, <2>1, <2>2 DEF EndGame
<1>7. QED
  BY <1>2, <1>3, <1>4, <1>5, <1>6 DEF Write

TooLong ==
    \/ doc.servers >= MAX_SERVERS \/ doc.players >= MAX_PLAYERS
    \/ doc.servers > IF doc.at = "list" THEN Len(list) ELSE Len(list) - 1
    \/ doc.at # "list" /\ doc.players > Len(this.players)

LEMMA RefusedCall ==
  ASSUME ScanInv, IndInv, MatchInv, NEW k, Call(k), CallFits(k), k.is_player => doc.at # "list",
         iContinueScan, stopped'
  PROVE  TooLong
<1>1. /\ phase = "scanning" /\ ~stopped /\ InOrder(k)
      /\ Refuse(k) \/ SkipsPlayer(k) \/ PlayerPair(k) \/ ServerPair(k)
  BY CallCases
<1>2. Refuse(k) \/ SkipsPlayer(k)
  BY <1>1 DEF PlayerPair, ServerPair
<1>3. CASE Refuse(k)
  <2>1. scan_count_servers = Len(list) /\ Len(list) \in Nat /\ doc.servers \in Nat
    BY <1>1, CompleteType DEF MatchInv, CurrentInv, Current, ScanInv, DocInv
  <2>2. QED
    BY <1>3, <2>1 DEF Refuse, Refused, CallFits, TooLong
<1>4. CASE SkipsPlayer(k)
  <2>1. ~Refused(k) /\ k.player_index > Players(k) /\ doc.at # "list"
    BY <1>4 DEF SkipsPlayer
  <2>2. k.player_index = doc.players /\ Players(k) = scan_count_players /\ FillsThis
    BY <1>1, <2>1, Position
  <2>3. list # <<>>
    BY <2>1 DEF MatchInv, ListInv
  <2>4. Len(this.players) \in Nat /\ scan_count_players >= Len(this.players) /\ doc.players \in Nat
    BY <2>2, <2>3, ThisType DEF MatchInv, FillsThis, ScanInv, DocInv
  <2>5. QED
    BY <2>1, <2>2, <2>4 DEF TooLong, IndInv, TypeOK
<1>5. QED
  BY <1>2, <1>3, <1>4

\* The returns of ProcessSessionInfo that are not zero (260-275, 291-295): only a
\* list that is too long, or one with an empty object, is refused.
THEOREM ListsAreAccepted == ScanSpec => AcceptsLists
<1>1. ASSUME ScanInv, IndInv, MatchInv, ScanNext, stopped', ~stopped, iContinueScan
      PROVE  TooLong
  <2>1. CASE Begin
    BY <1>1, <2>1 DEF Begin, BeginScan, call
  <2>2. CASE Start
    BY <1>1, <2>2 DEF Start, ScanThread
  <2>3. CASE Write
    <3>1. CASE WriteEmpty
      BY <1>1, <3>1 DEF WriteEmpty, vars, call
    <3>2. QED
      BY <1>1, <2>3, <3>1, WriterCalls, RefusedCall
  <2>4. CASE Fetch
    <3>1. stopped' = stopped
      BY <1>1, <2>4, SourceStep DEF ScanInv, Fetch
    <3>2. QED
      BY <1>1, <3>1
  <2>5. CASE ByUser
    BY <1>1, <2>5 DEF ByUser, User, StopScan, SelectPlayer, SelectGame, ColumnClick, ApplyHost, call
  <2>6. CASE Dismiss
    BY <1>1, <2>6 DEF Dismiss, DismissBox, EndScan, call
  <2>7. CASE Done
    BY <1>1, <2>7 DEF Done, scanVars, vars, call
  <2>8. QED
    BY <1>1, <2>1, <2>2, <2>3, <2>4, <2>5, <2>6, <2>7 DEF ScanNext, Thread
<1>2. ScanInv /\ IndInv /\ MatchInv /\ [ScanNext]_scanVars =>
        [stopped' /\ ~stopped /\ iContinueScan =>
           \/ doc.servers >= MAX_SERVERS \/ doc.players >= MAX_PLAYERS
           \/ doc.servers > IF doc.at = "list" THEN Len(list) ELSE Len(list) - 1
           \/ doc.at # "list" /\ doc.players > Len(this.players)]_scanVars
  BY <1>1 DEF TooLong
<1>3. QED
  BY <1>2, ScanInvHolds, TableAlways, MatchAlways, PTL DEF ScanSpec, AcceptsLists
=============================================================================
