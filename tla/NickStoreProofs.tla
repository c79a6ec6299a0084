--------------------------- MODULE NickStoreProofs ---------------------------
(***************************************************************************)
(* NickStore for every set of ids, names, lengths and lists. StoreInv is   *)
(* why a restart changes nothing a user sees: the registry holds what is   *)
(* due, and the table holds nothing else. PlayerInv is the loop invariant  *)
(* of UpdatePlayerList.                                                    *)
(***************************************************************************)
EXTENDS NickStore, SequenceTheorems, TLAPS

LoopInv == listed => i = 0

StoreInv ==
    \A id \in Ids \ unsaved :
        /\ nicks[id] = due[id]
        /\ table[id] # NULL => nicks[id] \in {table[id], NoName}

PlayerInv ==
    \A p \in DOMAIN players : Tracked(p) =>
        /\ players[p].local_name = NoName \/ ShownRight(p)
        /\ p < i \/ listed => ShownRight(p)

IndInv == TypeOK /\ LoopInv /\ StoreInv /\ PlayerInv

USE IdAssumption, NameAssumption, ListAssumption

-----------------------------------------------------------------------------
(* The operators of the model.                                              *)

\* Writing a local name keeps the list and everything else in it.
LEMMA SetLocalFacts ==
  ASSUME players \in Seq(PlayerInfo), NEW p \in DOMAIN players, NEW name \in Names,
         SetLocal(p, name)
  PROVE  /\ players' \in Seq(PlayerInfo)
         /\ Len(players') = Len(players)
         /\ DOMAIN players' = DOMAIN players
         /\ \A q \in DOMAIN players :
               /\ players'[q].user_id = players[q].user_id
               /\ players'[q].local_name = IF q = p THEN name ELSE players[q].local_name
  <1> DEFINE e == [players[p] EXCEPT !.local_name = name]
  <1>1. DOMAIN players = 1 .. Len(players)
    BY LenProperties
  <1>2. players[p] \in PlayerInfo
    BY <1>1, ElementOfSeq
  <1>3. \A r \in PlayerInfo :
           /\ [r EXCEPT !.local_name = name] \in PlayerInfo
           /\ [r EXCEPT !.local_name = name].user_id = r.user_id
           /\ [r EXCEPT !.local_name = name].local_name = name
    BY DEF PlayerInfo
  <1>4. e \in PlayerInfo /\ e.user_id = players[p].user_id /\ e.local_name = name
    BY <1>2, <1>3, Zenon
  <1>5. players' = [players EXCEPT ![p] = e]
    BY DEF SetLocal
  <1> HIDE DEF e
  <1>6. /\ players' \in Seq(PlayerInfo)
        /\ Len(players') = Len(players)
        /\ \A q \in 1 .. Len(players) : players'[q] = IF q = p THEN e ELSE players[q]
    BY <1>1, <1>4, <1>5, ExceptSeq
  <1>7. DOMAIN players' = 1 .. Len(players')
    BY <1>6, LenProperties
  <1> QED BY <1>1, <1>4, <1>6, <1>7

\* The loop visits players, and their ids and names are of the right kind.
LEMMA PlayerFacts ==
  ASSUME players \in Seq(PlayerInfo)
  PROVE  /\ Len(players) \in Nat /\ DOMAIN players = 1 .. Len(players)
         /\ \A p \in DOMAIN players :
               /\ players[p].user_id \in Ids \cup {NoId}
               /\ players[p].ingame_name \in Names
               /\ players[p].local_name \in Names
  <1>1. Len(players) \in Nat /\ DOMAIN players = 1 .. Len(players)
    BY LenProperties
  <1>2. \A p \in 1 .. Len(players) : players[p] \in PlayerInfo
    BY ElementOfSeq
  <1> QED BY <1>1, <1>2 DEF PlayerInfo

LEMMA LoadNickFacts ==
  ASSUME nicks \in [Ids -> Names \cup {NULL}], NEW id \in Ids, NEW name \in LoadNick(id)
  PROVE  name \in Names /\ nicks[id] # NULL /\ nicks[id] \in {name, NoName}
  BY DEF LoadNick

\* A name that LoadNick can read is found.
LEMMA ReadableIsLoaded ==
  ASSUME nicks \in [Ids -> Names \cup {NULL}], NEW id \in Ids,
         nicks[id] # NULL, Readable(nicks[id])
  PROVE  LoadNick(id) = {nicks[id]}
  <1>1. nicks[id] \in Names /\ nicks[id] # NoName
    BY DEF Readable
  <1>2. Length[nicks[id]] \in Nat /\ Length[nicks[id]] > 0
    BY <1>1
  <1>3. Found(nicks[id])
    BY <1>1, <1>2 DEF Found, StoredBytes, sizeof_TCHAR
  <1> QED BY <1>1, <1>3 DEF LoadNick, Readable

-----------------------------------------------------------------------------
(* Giving one player a name.                                                *)

\* When the name of player p changes, the others are as right as they were.
LEMMA OneNamed ==
  ASSUME IndInv, NEW p \in DOMAIN players, NEW name \in Names, SetLocal(p, name),
         unsaved \subseteq unsaved',
         \A id \in Ids \ {players[p].user_id} : due'[id] = due[id],
         Tracked(p)' => ShownRight(p)',
         ~listed', i' \in {0, 1} \/ (i = p /\ i' = i + 1)
  PROVE  PlayerInv'
  <1>1. /\ DOMAIN players' = DOMAIN players
        /\ \A q \in DOMAIN players :
              /\ players'[q].user_id = players[q].user_id
              /\ players'[q].local_name = IF q = p THEN name ELSE players[q].local_name
    BY SetLocalFacts DEF IndInv, TypeOK
  <1>2. DOMAIN players \subseteq Nat \ {0} /\ i \in Nat
    BY PlayerFacts DEF IndInv, TypeOK
  <1>3. ASSUME NEW q \in DOMAIN players, q # p, Tracked(q)'
        PROVE  /\ players'[q].local_name = NoName \/ ShownRight(q)'
               /\ q < i' => ShownRight(q)'
    <2>1. players[q].user_id # players[p].user_id /\ players[q].user_id \in Ids
      BY <1>1, <1>3 DEF Tracked
    <2>2. Tracked(q)
      BY <1>1, <1>3 DEF Tracked
    <2>3. due'[players[q].user_id] = due[players[q].user_id]
      BY <2>1
    <2>4. ShownRight(q)' <=> ShownRight(q)
      BY <1>1, <1>3, <2>3 DEF ShownRight, Readable
    <2>5. q < i' => q < i
      BY <1>2, <1>3
    <2> QED BY <1>1, <1>3, <2>2, <2>4, <2>5 DEF IndInv, PlayerInv
  <1> QED BY <1>1, <1>3 DEF PlayerInv

-----------------------------------------------------------------------------
(* One player of the loop.                                                  *)

LEMMA TableStep ==
  ASSUME IndInv, i \in 1 .. Len(players), Wanting(i), FromTable(i),
         UNCHANGED <<stored, auto_nick_save, listed>>, i' \in {i + 1, 0}
  PROVE  IndInv'
  <1> DEFINE id == players[i].user_id
  <1>1. i \in DOMAIN players /\ id \in Ids /\ table[id] \in Names
    BY PlayerFacts DEF FromTable, Wanting, IndInv, TypeOK
  <1>2. /\ players' \in Seq(PlayerInfo) /\ Len(players') = Len(players)
        /\ DOMAIN players' = DOMAIN players
        /\ \A q \in DOMAIN players :
              /\ players'[q].user_id = players[q].user_id
              /\ players'[q].local_name = IF q = i THEN table[id] ELSE players[q].local_name
    BY <1>1, SetLocalFacts DEF FromTable, IndInv, TypeOK
  <1>3. UNCHANGED <<nicks, table, wanted, due, unsaved, stored, auto_nick_save, listed>> /\ ~listed
    BY DEF FromTable, notes, IndInv, LoopInv
  <1>4. TypeOK'
    BY <1>2, <1>3, PlayerFacts DEF IndInv, TypeOK
  <1>5. LoopInv' /\ StoreInv'
    BY <1>3 DEF IndInv, LoopInv, StoreInv
  <1>6. ASSUME NEW p \in DOMAIN players, p = i, Tracked(p)'
        PROVE  ShownRight(p)'
    <2>1. id \notin unsaved
      BY <1>2, <1>3, <1>6 DEF Tracked
    <2>2. due[id] = nicks[id] /\ nicks[id] \in {table[id], NoName} /\ due[id] # NULL
      BY <1>1, <2>1 DEF IndInv, StoreInv
    <2> QED BY <1>2, <1>3, <1>6, <2>2 DEF ShownRight, Readable
  <1>7. PlayerInv'
    <2>1. PICK p \in DOMAIN players : p = i
      BY <1>1
    <2>2. SetLocal(p, table[id])
      BY <2>1 DEF FromTable
    <2> QED BY <1>1, <1>3, <1>6, <2>1, <2>2, OneNamed
  <1> QED BY <1>4, <1>5, <1>7 DEF IndInv

LEMMA PutFacts ==
  ASSUME TypeOK, NEW id \in Ids, NEW name \in Names, Table!Put(id, name)
  PROVE  /\ table' \in [Ids -> Names \cup {NULL}] /\ wanted' \in [Ids -> Names \cup {NULL}]
         /\ table'[id] \in {name, NULL}
         /\ \A other \in Ids \ {id} : table'[other] = table[other]
  BY DEF Table!Put, TypeOK

LEMMA RegistryStep ==
  ASSUME IndInv, i \in 1 .. Len(players), Wanting(i), FromRegistry(i),
         UNCHANGED <<stored, auto_nick_save, listed>>, i' \in {i + 1, 0}
  PROVE  IndInv'
  <1> DEFINE id == players[i].user_id
  <1>1. PICK p \in DOMAIN players : p = i
    BY PlayerFacts DEF IndInv, TypeOK
  <1>2. id \in Ids /\ i \in Nat
    BY <1>1, PlayerFacts DEF Wanting, IndInv, TypeOK
  <1>3. PICK name \in LoadNick(id) : SetLocal(p, name) /\ Table!Put(id, name)
    BY <1>1 DEF FromRegistry
  <1>4. name \in Names /\ nicks[id] # NULL /\ nicks[id] \in {name, NoName}
    BY <1>2, <1>3, LoadNickFacts DEF IndInv, TypeOK
  <1>5. UNCHANGED <<nicks, due, unsaved, stored, auto_nick_save, listed>> /\ ~listed
    BY <1>2 DEF FromRegistry, notes, IndInv, LoopInv
  <1>6. /\ players' \in Seq(PlayerInfo) /\ Len(players') = Len(players)
        /\ players'[p].local_name = name /\ players'[p].user_id = id
    BY <1>1, <1>3, <1>4, SetLocalFacts DEF IndInv, TypeOK
  <1>7. /\ table' \in [Ids -> Names \cup {NULL}] /\ wanted' \in [Ids -> Names \cup {NULL}]
        /\ table'[id] \in {name, NULL}
        /\ \A other \in Ids \ {id} : table'[other] = table[other]
    BY <1>2, <1>3, <1>4, PutFacts DEF IndInv
  <1>8. TypeOK'
    BY <1>5, <1>6, <1>7, PlayerFacts DEF IndInv, TypeOK
  <1>9. LoopInv' /\ StoreInv'
    BY <1>4, <1>5, <1>7 DEF IndInv, LoopInv, StoreInv
  <1>10. Tracked(p)' => ShownRight(p)'
    <2>1. SUFFICES ASSUME Tracked(p)' PROVE ShownRight(p)'
      OBVIOUS
    <2>2. due[id] = nicks[id]
      BY <1>2, <1>5, <1>6, <2>1 DEF Tracked, IndInv, StoreInv
    <2> QED BY <1>4, <1>5, <1>6, <2>2 DEF ShownRight, Readable
  <1>11. PlayerInv'
    BY <1>1, <1>3, <1>4, <1>5, <1>10, OneNamed
  <1> QED BY <1>8, <1>9, <1>11 DEF IndInv

\* What a write to the registry and to the table leaves when both are given the
\* same nickname, and it is the one due.
LEMMA StoredFacts ==
  ASSUME IndInv, NEW id \in Ids, NEW name \in Names,
         SaveNick(id, name), Table!Put(id, name), due' = [due EXCEPT ![id] = name]
  PROVE  /\ nicks' \in [Ids -> Names \cup {NULL}]
         /\ table' \in [Ids -> Names \cup {NULL}]
         /\ wanted' \in [Ids -> Names \cup {NULL}]
         /\ due' \in [Ids -> Names \cup {NULL}] /\ due'[id] = name
         /\ \A other \in Ids \ {id} : due'[other] = due[other]
         /\ unsaved \subseteq unsaved' /\ unsaved' \subseteq Ids
         /\ StoreInv'
  <1>1. /\ due' \in [Ids -> Names \cup {NULL}] /\ due'[id] = name
        /\ \A other \in Ids \ {id} : due'[other] = due[other]
    BY DEF IndInv, TypeOK
  <1>2. /\ table' \in [Ids -> Names \cup {NULL}] /\ wanted' \in [Ids -> Names \cup {NULL}]
        /\ table'[id] \in {name, NULL}
        /\ \A other \in Ids \ {id} : table'[other] = table[other]
    BY PutFacts DEF IndInv
  <1>3. /\ nicks' \in [Ids -> Names \cup {NULL}]
        /\ unsaved \subseteq unsaved' /\ unsaved' \subseteq Ids
        /\ \A other \in Ids \ {id} : nicks'[other] = nicks[other]
        /\ nicks'[id] = name \/ id \in unsaved'
    BY DEF SaveNick, IndInv, TypeOK
  <1>4. StoreInv'
    BY <1>1, <1>2, <1>3 DEF IndInv, StoreInv
  <1> QED BY <1>1, <1>2, <1>3, <1>4

LEMMA AutoSaveStep ==
  ASSUME IndInv, i \in 1 .. Len(players), Wanting(i), AutoSave(i),
         UNCHANGED <<stored, auto_nick_save, listed>>, i' \in {i + 1, 0}
  PROVE  IndInv'
  <1> DEFINE id == players[i].user_id
             name == players[i].ingame_name
  <1>1. PICK p \in DOMAIN players : p = i
    BY PlayerFacts DEF IndInv, TypeOK
  <1>2. id \in Ids /\ i \in Nat /\ name \in Names
    BY <1>1, PlayerFacts DEF Wanting, IndInv, TypeOK
  <1>3. /\ SetLocal(p, name) /\ SaveNick(id, name) /\ Table!Put(id, name)
        /\ due' = [due EXCEPT ![id] = name]
    BY <1>1 DEF AutoSave
  <1>4. ~listed'
    BY <1>2 DEF IndInv, LoopInv
  <1>5. /\ players' \in Seq(PlayerInfo) /\ Len(players') = Len(players)
        /\ players'[p].local_name = name /\ players'[p].user_id = id
    BY <1>1, <1>2, <1>3, SetLocalFacts DEF IndInv, TypeOK
  <1> HIDE DEF id, name
  <1>6. /\ nicks' \in [Ids -> Names \cup {NULL}]
        /\ table' \in [Ids -> Names \cup {NULL}]
        /\ wanted' \in [Ids -> Names \cup {NULL}]
        /\ due' \in [Ids -> Names \cup {NULL}] /\ due'[id] = name
        /\ \A other \in Ids \ {id} : due'[other] = due[other]
        /\ unsaved \subseteq unsaved' /\ unsaved' \subseteq Ids
        /\ StoreInv'
    BY <1>2, <1>3, StoredFacts
  <1>7. TypeOK'
    BY <1>5, <1>6, PlayerFacts DEF IndInv, TypeOK
  <1>8. LoopInv'
    BY <1>4 DEF LoopInv
  <1>9. Tracked(p)' => ShownRight(p)'
    BY <1>2, <1>5, <1>6 DEF ShownRight
  <1>10. PlayerInv'
    BY <1>1, <1>2, <1>3, <1>4, <1>6, <1>9, OneNamed DEF id
  <1> QED BY <1>6, <1>7, <1>8, <1>10 DEF IndInv

LEMMA NoNickStep ==
  ASSUME IndInv, i \in 1 .. Len(players), NoNick(i),
         UNCHANGED <<stored, auto_nick_save, listed>>, i' \in {i + 1, 0}
  PROVE  IndInv'
  <1> DEFINE id == players[i].user_id
  <1>1. UNCHANGED <<players, nicks, table, wanted, due, unsaved, listed>>
    BY DEF NoNick, notes
  <1>2. TypeOK'
    BY <1>1, PlayerFacts DEF IndInv, TypeOK
  <1>3. LoopInv' /\ StoreInv' /\ ~listed
    BY <1>1 DEF IndInv, LoopInv, StoreInv
  <1>4. ASSUME NEW p \in DOMAIN players, p = i, Tracked(p)
        PROVE  ShownRight(p)
    <2>1. players[p].user_id \in Ids \ unsaved
      BY <1>4 DEF Tracked
    <2>2. players[p].user_id # NoId
      BY <2>1
    <2>3. CASE players[p].local_name # NoName
      BY <1>4, <2>3 DEF IndInv, PlayerInv
    <2>4. CASE players[p].local_name = NoName
      <3>1. LoadNick(players[p].user_id) = {}
        BY <1>4, <2>2, <2>4 DEF NoNick, Wanting
      <3>2. nicks[players[p].user_id] = due[players[p].user_id]
        BY <2>1 DEF IndInv, StoreInv
      <3>3. due[players[p].user_id] = NULL \/ ~Readable(due[players[p].user_id])
        <4>1. SUFFICES ASSUME nicks[players[p].user_id] # NULL,
                              Readable(nicks[players[p].user_id])
                       PROVE  FALSE
          BY <3>2
        <4>2. nicks \in [Ids -> Names \cup {NULL}]
          BY DEF IndInv, TypeOK
        <4>3. LoadNick(players[p].user_id) = {nicks[players[p].user_id]}
          BY <2>1, <4>1, <4>2, ReadableIsLoaded
        <4> QED BY <3>1, <4>3
      <3> QED BY <2>4, <3>3 DEF ShownRight
    <2> QED BY <2>3, <2>4
  <1>5. ASSUME NEW p \in DOMAIN players
        PROVE  (Tracked(p)' <=> Tracked(p)) /\ (ShownRight(p)' <=> ShownRight(p))
    BY <1>1 DEF Tracked, ShownRight, Readable
  <1>6. \A p \in DOMAIN players : p < i' => p < i \/ p = i
    BY PlayerFacts DEF IndInv, TypeOK
  <1>7. PlayerInv'
    BY <1>1, <1>3, <1>4, <1>5, <1>6 DEF IndInv, PlayerInv
  <1> QED BY <1>2, <1>3, <1>7 DEF IndInv

LEMMA ListPlayerStep ==
  ASSUME IndInv, ListPlayer
  PROVE  IndInv'
  <1>1. /\ i \in 1 .. Len(players) /\ i' \in {i + 1, 0}
        /\ UNCHANGED <<stored, auto_nick_save, listed>>
    BY DEF ListPlayer
  <1>2. CASE Wanting(i) /\ FromTable(i)
    BY <1>1, <1>2, TableStep
  <1>3. CASE Wanting(i) /\ FromRegistry(i)
    BY <1>1, <1>3, RegistryStep
  <1>4. CASE Wanting(i) /\ AutoSave(i)
    BY <1>1, <1>4, AutoSaveStep
  <1>5. CASE NoNick(i)
    BY <1>1, <1>5, NoNickStep
  <1> QED BY <1>2, <1>3, <1>4, <1>5 DEF ListPlayer

-----------------------------------------------------------------------------
(* The list is ended, made again, or forgotten.                             *)

\* While nothing but the loop variable and the check boxes change, it is enough
\* that the loop is at its start, where it was, or over.
LEMMA SamePlayers ==
  ASSUME IndInv, UNCHANGED <<players, nicks, table, wanted, due, unsaved>>,
         stored' \in BOOLEAN, auto_nick_save' \in BOOLEAN,
         \/ i' = 1 /\ listed' = FALSE
         \/ UNCHANGED <<i, listed>>
         \/ i = Len(players) + 1 /\ i' = 0 /\ listed' = TRUE
  PROVE  IndInv'
  <1>1. Len(players) \in Nat /\ DOMAIN players = 1 .. Len(players) /\ i \in Nat
    BY PlayerFacts DEF IndInv, TypeOK
  <1>2. TypeOK'
    <2>1. i' \in 0 .. Len(players') + 1
      BY <1>1 DEF IndInv, TypeOK
    <2>2. listed' \in BOOLEAN
      BY DEF IndInv, TypeOK
    <2> QED BY <2>1, <2>2 DEF IndInv, TypeOK
  <1>3. LoopInv' /\ StoreInv'
    BY DEF IndInv, LoopInv, StoreInv
  <1>4. ASSUME NEW p \in DOMAIN players
        PROVE  (Tracked(p)' <=> Tracked(p)) /\ (ShownRight(p)' <=> ShownRight(p))
    BY DEF Tracked, ShownRight, Readable
  <1>5. \A p \in DOMAIN players : p < i' \/ listed' => p < i \/ listed
    BY <1>1
  <1>6. PlayerInv'
    BY <1>4, <1>5 DEF IndInv, PlayerInv
  <1> QED BY <1>2, <1>3, <1>6 DEF IndInv

LEMMA SelectGameStep ==
  ASSUME IndInv, SelectGame
  PROVE  IndInv'
  <1> DEFINE Entry == [user_id : Ids \cup {NoId}, ingame_name : Names]
             e(r) == [user_id |-> r.user_id, ingame_name |-> r.ingame_name,
                      local_name |-> NoName]
  <1>1. PICK list \in Lists : players' = [p \in DOMAIN list |-> e(list[p])]
    BY DEF SelectGame
  <1>2. /\ Len(list) \in Nat /\ DOMAIN list = 1 .. Len(list)
        /\ \A p \in 1 .. Len(list) : list[p] \in Entry
    <2>1. list \in Seq(Entry)
      OBVIOUS
    <2> HIDE DEF Entry
    <2> QED BY <2>1, LenProperties, ElementOfSeq
  <1>3. \A r \in Entry : e(r) \in PlayerInfo /\ e(r).local_name = NoName
    BY DEF PlayerInfo
  <1> HIDE DEF Entry, e
  <1>4. players' \in [1 .. Len(list) -> PlayerInfo]
    BY <1>1, <1>2, <1>3
  <1>5. players' \in Seq(PlayerInfo) /\ Len(players') \in Nat
    <2>1. players' \in Seq(PlayerInfo)
      BY <1>2, <1>4, SeqDef
    <2> QED BY <2>1, LenProperties
  <1>6. /\ UNCHANGED <<nicks, stored, table, wanted, auto_nick_save, due, unsaved>>
        /\ i' = 1 /\ listed' = FALSE
    BY DEF SelectGame, UpdatePlayerList, notes
  <1>7. TypeOK'
    <2>1. i' \in 0 .. Len(players') + 1
      BY <1>5, <1>6
    <2> QED BY <1>5, <1>6, <2>1 DEF IndInv, TypeOK
  <1>8. LoopInv' /\ StoreInv'
    BY <1>6 DEF IndInv, LoopInv, StoreInv
  <1>9. \A p \in DOMAIN players' : players'[p].local_name = NoName /\ p \in Nat \ {0}
    BY <1>1, <1>2, <1>3
  <1>10. PlayerInv'
    BY <1>6, <1>9 DEF PlayerInv
  <1> QED BY <1>7, <1>8, <1>10 DEF IndInv

LEMMA RestartStep ==
  ASSUME IndInv, Restart
  PROVE  IndInv'
  <1>1. /\ players' = <<>> /\ i' = 0 /\ ~listed' /\ auto_nick_save' = stored
        /\ UNCHANGED <<nicks, stored, due, unsaved>>
        /\ table' = [id \in Ids |-> NULL] /\ wanted' = [id \in Ids |-> NULL]
    BY DEF Restart, Table!Clear, notes, LoadSettingDWORD
  <1>2. players' \in Seq(PlayerInfo) /\ Len(players') = 0 /\ DOMAIN players' = {}
    BY <1>1, EmptySeq
  <1>3. TypeOK'
    <2>1. i' \in 0 .. Len(players') + 1
      BY <1>1, <1>2
    <2>2. /\ table' \in [Ids -> Names \cup {NULL}]
          /\ wanted' \in [Ids -> Names \cup {NULL}]
      BY <1>1
    <2>3. listed' \in BOOLEAN
      BY DEF Restart
    <2> QED BY <1>1, <1>2, <2>1, <2>2, <2>3 DEF IndInv, TypeOK
  <1>4. LoopInv' /\ StoreInv' /\ PlayerInv'
    BY <1>1, <1>2 DEF IndInv, LoopInv, StoreInv, PlayerInv
  <1> QED BY <1>3, <1>4 DEF IndInv

-----------------------------------------------------------------------------
(* The submission of the rename dialog.                                     *)

LEMMA DeleteStep ==
  ASSUME IndInv, NEW p \in DOMAIN players, players[p].user_id \in ValidIds,
         Delete(p), UpdatePlayerList, UNCHANGED <<stored, auto_nick_save>>
  PROVE  IndInv'
  <1> DEFINE id == players[p].user_id
  <1>1. /\ SetLocal(p, NoName) /\ Table!Remove(id) /\ DeleteNick(id)
        /\ due' = [due EXCEPT ![id] = NULL] /\ i' = 1 /\ ~listed' /\ listed' = FALSE
    BY DEF Delete, UpdatePlayerList
  <1>2. /\ players' \in Seq(PlayerInfo) /\ Len(players') = Len(players)
        /\ players'[p].local_name = NoName /\ players'[p].user_id = id
    BY <1>1, SetLocalFacts DEF IndInv, TypeOK
  <1>3. id \in Ids /\ Len(players) \in Nat
    BY PlayerFacts DEF IndInv, TypeOK
  <1> HIDE DEF id
  <1>4. /\ due' \in [Ids -> Names \cup {NULL}] /\ due'[id] = NULL
        /\ \A other \in Ids \ {id} : due'[other] = due[other]
    BY <1>1, <1>3 DEF IndInv, TypeOK
  <1>5. /\ table' \in [Ids -> Names \cup {NULL}] /\ table'[id] = NULL
        /\ wanted' \in [Ids -> Names \cup {NULL}]
        /\ \A other \in Ids \ {id} : table'[other] = table[other]
    BY <1>1, <1>3 DEF Table!Remove, IndInv, TypeOK
  <1>6. /\ nicks' \in [Ids -> Names \cup {NULL}]
        /\ unsaved \subseteq unsaved' /\ unsaved' \subseteq Ids
        /\ \A other \in Ids \ {id} : nicks'[other] = nicks[other]
        /\ nicks'[id] = NULL \/ id \in unsaved'
    BY <1>1, <1>3 DEF DeleteNick, IndInv, TypeOK
  <1>7. TypeOK'
    <2>1. i' \in 0 .. Len(players') + 1
      BY <1>1, <1>2, <1>3
    <2>2. unsaved' \in SUBSET Ids
      BY <1>6
    <2> QED BY <1>1, <1>2, <1>4, <1>5, <1>6, <2>1, <2>2 DEF IndInv, TypeOK
  <1>8. LoopInv' /\ StoreInv'
    BY <1>1, <1>4, <1>5, <1>6 DEF IndInv, LoopInv, StoreInv
  <1>9. Tracked(p)' => ShownRight(p)'
    BY <1>2, <1>4 DEF ShownRight
  <1>10. PlayerInv'
    BY <1>1, <1>4, <1>6, <1>9, OneNamed DEF id
  <1> QED BY <1>7, <1>8, <1>10 DEF IndInv

LEMMA RenameStep ==
  ASSUME IndInv, NEW p \in DOMAIN players, NEW text \in Names,
         players[p].user_id \in ValidIds,
         Rename(p, text), UpdatePlayerList, UNCHANGED <<stored, auto_nick_save>>
  PROVE  IndInv'
  <1> DEFINE id == players[p].user_id
  <1>1. /\ SetLocal(p, text) /\ Table!Put(id, text) /\ SaveNick(id, text)
        /\ due' = [due EXCEPT ![id] = text] /\ i' = 1 /\ ~listed' /\ listed' = FALSE
    BY DEF Rename, UpdatePlayerList
  <1>2. /\ players' \in Seq(PlayerInfo) /\ Len(players') = Len(players)
        /\ players'[p].local_name = text /\ players'[p].user_id = id
    BY <1>1, SetLocalFacts DEF IndInv, TypeOK
  <1>3. id \in Ids /\ Len(players) \in Nat
    BY PlayerFacts DEF IndInv, TypeOK
  <1> HIDE DEF id
  <1>4. /\ nicks' \in [Ids -> Names \cup {NULL}]
        /\ table' \in [Ids -> Names \cup {NULL}]
        /\ wanted' \in [Ids -> Names \cup {NULL}]
        /\ due' \in [Ids -> Names \cup {NULL}] /\ due'[id] = text
        /\ \A other \in Ids \ {id} : due'[other] = due[other]
        /\ unsaved \subseteq unsaved' /\ unsaved' \subseteq Ids
        /\ StoreInv'
    BY <1>1, <1>3, StoredFacts
  <1>5. TypeOK'
    <2>1. i' \in 0 .. Len(players') + 1
      BY <1>1, <1>2, <1>3
    <2>2. unsaved' \in SUBSET Ids
      BY <1>4
    <2> QED BY <1>1, <1>2, <1>4, <2>1, <2>2 DEF IndInv, TypeOK
  <1>6. LoopInv'
    BY <1>1 DEF LoopInv
  <1>7. Tracked(p)' => ShownRight(p)'
    BY <1>2, <1>4 DEF ShownRight
  <1>8. PlayerInv'
    BY <1>1, <1>4, <1>7, OneNamed DEF id
  <1> QED BY <1>4, <1>5, <1>6, <1>8 DEF IndInv

LEMMA RenameNobodyStep ==
  ASSUME IndInv, NEW p \in DOMAIN players, NEW text \in Names, players[p].user_id = NoId,
         RenameNobody(p, text), UpdatePlayerList, UNCHANGED <<stored, auto_nick_save>>
  PROVE  IndInv'
  <1>1. /\ SetLocal(p, text) /\ i' = 1 /\ listed' = FALSE
        /\ UNCHANGED <<nicks, table, wanted, due, unsaved>>
    BY DEF RenameNobody, UpdatePlayerList, notes
  <1>2. /\ players' \in Seq(PlayerInfo) /\ Len(players') = Len(players)
        /\ players'[p].user_id = NoId /\ Len(players) \in Nat
    BY <1>1, SetLocalFacts, PlayerFacts DEF IndInv, TypeOK
  <1>3. TypeOK'
    <2>1. i' \in 0 .. Len(players') + 1
      BY <1>1, <1>2
    <2> QED BY <1>1, <1>2, <2>1 DEF IndInv, TypeOK
  <1>4. LoopInv' /\ StoreInv'
    BY <1>1 DEF IndInv, LoopInv, StoreInv
  <1>5. ~Tracked(p)'
    BY <1>2 DEF Tracked
  <1>6. PlayerInv'
    BY <1>1, <1>5, OneNamed
  <1> QED BY <1>3, <1>4, <1>6 DEF IndInv

LEMMA SubmitStep ==
  ASSUME IndInv, Submit
  PROVE  IndInv'
  <1>1. UpdatePlayerList /\ UNCHANGED <<stored, auto_nick_save>>
    BY DEF Submit
  <1>2. PICK p \in DOMAIN players, text \in Names :
          \/ players[p].user_id \in ValidIds /\ Delete(p)
          \/ players[p].user_id \in ValidIds /\ Rename(p, text)
          \/ players[p].user_id = NoId /\ RenameNobody(p, text)
          \/ UNCHANGED <<nicks, table, wanted, players, notes>>
    BY DEF Submit
  <1>3. CASE players[p].user_id \in ValidIds /\ Delete(p)
    BY <1>1, <1>3, DeleteStep
  <1>4. CASE players[p].user_id \in ValidIds /\ Rename(p, text)
    BY <1>1, <1>4, RenameStep
  <1>5. CASE players[p].user_id = NoId /\ RenameNobody(p, text)
    BY <1>1, <1>5, RenameNobodyStep
  <1>6. CASE UNCHANGED <<nicks, table, wanted, players, notes>>
    <2>1. /\ UNCHANGED <<players, nicks, table, wanted, due, unsaved, stored, auto_nick_save>>
          /\ i' = 1 /\ listed' = FALSE
      BY <1>1, <1>6 DEF UpdatePlayerList, notes
    <2> QED BY <2>1, SamePlayers DEF IndInv, TypeOK
  <1> QED BY <1>2, <1>3, <1>4, <1>5, <1>6

-----------------------------------------------------------------------------
(* The theorems.                                                            *)

LEMMA InitInv ==
  ASSUME Init
  PROVE  IndInv
  <1>1. players \in Seq(PlayerInfo) /\ Len(players) = 0 /\ DOMAIN players = {}
    BY EmptySeq DEF Init
  <1>2. TypeOK
    <2>1. i \in 0 .. Len(players) + 1
      BY <1>1 DEF Init
    <2>2. /\ nicks \in [Ids -> Names \cup {NULL}]
          /\ table \in [Ids -> Names \cup {NULL}]
          /\ wanted \in [Ids -> Names \cup {NULL}]
          /\ due \in [Ids -> Names \cup {NULL}]
          /\ unsaved \in SUBSET Ids
      BY DEF Init, Table!Init
    <2> QED BY <1>1, <2>1, <2>2 DEF Init, TypeOK
  <1> QED BY <1>1, <1>2 DEF Init, Table!Init, IndInv, LoopInv, StoreInv, PlayerInv

LEMMA StepInv ==
  ASSUME IndInv, [Next]_vars
  PROVE  IndInv'
  <1>1. CASE SelectGame
    BY <1>1, SelectGameStep
  <1>2. CASE ShowAgain
    <2>1. /\ UNCHANGED <<players, nicks, table, wanted, due, unsaved, stored, auto_nick_save>>
          /\ i' = 1 /\ listed' = FALSE
      BY <1>2 DEF ShowAgain, UpdatePlayerList, notes
    <2> QED BY <2>1, SamePlayers DEF IndInv, TypeOK
  <1>3. CASE ToggleAutoCreate
    <2>1. /\ UNCHANGED <<players, nicks, table, wanted, due, unsaved>>
          /\ stored' \in BOOLEAN /\ auto_nick_save' \in BOOLEAN
          /\ (i' = 1 /\ listed' = FALSE) \/ UNCHANGED <<i, listed>>
      BY <1>3 DEF ToggleAutoCreate, SaveSettingDWORD, UpdatePlayerList, notes, IndInv, TypeOK
    <2> QED BY <2>1, SamePlayers
  <1>4. CASE Submit
    BY <1>4, SubmitStep
  <1>5. CASE ListPlayer
    BY <1>5, ListPlayerStep
  <1>6. CASE EndOfList
    <2>1. /\ UNCHANGED <<players, nicks, table, wanted, due, unsaved, stored, auto_nick_save>>
          /\ i = Len(players) + 1 /\ i' = 0 /\ listed' = TRUE
      BY <1>6 DEF EndOfList, notes
    <2> QED BY <2>1, SamePlayers DEF IndInv, TypeOK
  <1>7. CASE Restart
    BY <1>7, RestartStep
  <1>8. CASE UNCHANGED vars
    <2>1. UNCHANGED <<players, nicks, table, wanted, due, unsaved, stored, auto_nick_save, i, listed>>
      BY <1>8 DEF vars
    <2> QED BY <2>1, SamePlayers DEF IndInv, TypeOK
  <1> QED BY <1>1, <1>2, <1>3, <1>4, <1>5, <1>6, <1>7, <1>8 DEF Next

THEOREM InvHolds == Spec => []IndInv
  <1>1. Init => IndInv
    BY InitInv
  <1>2. IndInv /\ [Next]_vars => IndInv'
    BY StepInv
  <1> QED BY <1>1, <1>2, PTL DEF Spec

\* Every variable of the model keeps its type: the loop of UpdatePlayerList
\* (506) does not leave the list, and only strings get into the table.
THEOREM StoreTypeCorrect == Spec => []TypeOK
  <1>1. IndInv => TypeOK
    BY DEF IndInv
  <1> QED BY <1>1, InvHolds, PTL

\* Whatever the sequence of scans, renames, deletions, lost table entries and
\* restarts, a listed player is shown with the nickname that is due (511-534).
THEOREM NicknamesAreShown == Spec => []ShownAsGiven
  <1>1. IndInv => ShownAsGiven
    BY DEF IndInv, PlayerInv, ShownAsGiven
  <1> QED BY <1>1, InvHolds, PTL

\* Without a failed write, an answer of the table of 1 to 31 characters is what
\* LoadNick finds after a restart; a longer one is in the registry but not found,
\* and for a value of 0 bytes nothing is said (523 and 530, 1185-1190).
THEOREM TableIsACache == Spec => []TableAgreesWithRegistry
  <1>1. IndInv => TableAgreesWithRegistry
    <2>1. SUFFICES ASSUME IndInv, NEW id \in Ids \ unsaved, table[id] # NULL, nicks[id] # NoName
                   PROVE  /\ nicks[id] = table[id]
                          /\ LoadNick(id) = IF Fits(table[id]) THEN {table[id]} ELSE {}
      BY DEF TableAgreesWithRegistry
    <2>2. nicks[id] = table[id] /\ nicks[id] # NULL /\ nicks \in [Ids -> Names \cup {NULL}]
      BY <2>1 DEF IndInv, StoreInv, TypeOK
    <2>3. CASE Fits(nicks[id])
      BY <2>1, <2>2, <2>3, ReadableIsLoaded DEF Readable
    <2>4. CASE ~Fits(nicks[id])
      BY <2>2, <2>4 DEF LoadNick
    <2> QED BY <2>2, <2>3, <2>4
  <1> QED BY <1>1, InvHolds, PTL

\* What LoadNick does not find is not there or too long for its buffer.
LEMMA NotLoaded ==
  ASSUME nicks \in [Ids -> Names \cup {NULL}], NEW id \in Ids, LoadNick(id) = {}
  PROVE  nicks[id] = NULL \/ ~Fits(nicks[id])
  <1>1. SUFFICES ASSUME nicks[id] \in Names, nicks[id] # NULL, Fits(nicks[id])
                 PROVE  FALSE
    OBVIOUS
  <1>2. Found(nicks[id])
    <2>1. CASE nicks[id] = NoName
      BY <2>1 DEF Found, StoredBytes, sizeof_TCHAR
    <2>2. CASE nicks[id] # NoName
      <3>1. Length[nicks[id]] \in Nat /\ Length[nicks[id]] > 0
        BY <1>1, <2>2
      <3> QED BY <1>1, <2>2, <3>1 DEF Found, StoredBytes, sizeof_TCHAR
    <2> QED BY <2>1, <2>2
  <1>3. LoadNick(id) # {}
    BY <1>1, <1>2 DEF LoadNick
  <1> QED BY <1>3

\* UpdatePlayerList writes to the registry only for a player whose nickname
\* LoadNick does not find (525-529), so that what it can read is never replaced.
THEOREM AutoSaveIsPolite == Spec => AutoSaveYields
  <1> DEFINE A == i > 0 => \A id \in Ids :
                    nicks'[id] # nicks[id] => nicks[id] = NULL \/ ~Fits(nicks[id])
  <1>1. ASSUME IndInv, [Next]_vars
        PROVE  A
    <2>1. SUFFICES ASSUME i > 0, NEW id \in Ids, nicks'[id] # nicks[id]
                   PROVE  nicks[id] = NULL \/ ~Fits(nicks[id])
      OBVIOUS
    <2>2. ListPlayer /\ i \in 1 .. Len(players)
      BY <1>1, <2>1 DEF Next, vars, SelectGame, ShowAgain, ToggleAutoCreate, Submit,
                        EndOfList, Restart, ListPlayer
    <2>3. Wanting(i) /\ AutoSave(i)
      BY <2>1, <2>2 DEF ListPlayer, FromTable, FromRegistry, NoNick
    <2>4. PICK p \in DOMAIN players : p = i
      BY <1>1, <2>2, PlayerFacts DEF IndInv, TypeOK
    <2>5. nicks' = nicks \/ nicks' = [nicks EXCEPT ![players[p].user_id] = players[p].ingame_name]
      BY <2>3, <2>4 DEF AutoSave, SaveNick
    <2>6. nicks \in [Ids -> Names \cup {NULL}]
      BY <1>1 DEF IndInv, TypeOK
    <2>7. id = players[p].user_id
      BY <2>1, <2>5, <2>6
    <2>8. LoadNick(id) = {}
      BY <2>3, <2>4, <2>7 DEF AutoSave
    <2> QED BY <2>6, <2>8, NotLoaded
  <1>2. IndInv /\ [Next]_vars => [A]_vars
    BY <1>1
  <1>3. Spec => [][A]_vars
    BY <1>2, InvHolds, PTL DEF Spec
  <1> QED BY <1>3 DEF AutoSaveYields
=============================================================================
