------------------------------ MODULE NickStore ------------------------------
(***************************************************************************)
(* Nicknames from the rename dialog to the registry and back:              *)
(* UpdatePlayerList, the submission of the rename dialog and the two check *)
(* boxes of bzccscanner.c over the registry functions of bzccsettings.c.   *)
(* The nickname table is what NickTable implements: a cache that may lose  *)
(* an entry when it is added. Restart is a crash or an exit, at any step,  *)
(* followed by a new start: only the registry survives it.                 *)
(***************************************************************************)
EXTENDS Naturals, Integers, Sequences, FiniteSets

CONSTANTS
    Ids,          \* user ids, with different CRCs
    ValidIds,     \* the ids that UserIDIsValid accepts
    NoId,         \* the empty user id: accepted, but nothing is looked up by it
    Names,
    NoName,       \* the empty string
    Length,       \* [Names -> Nat], in characters
    PLAYER_NAME_LEN,
    Lists,        \* bound: the players a scan may find in the selected game
    NULL

ASSUME IdAssumption == ValidIds \subseteq Ids /\ NoId \notin Ids
ASSUME NameAssumption ==
    /\ NULL \notin Names /\ NoName \in Names /\ PLAYER_NAME_LEN \in Nat
    /\ Length \in [Names -> 0 .. PLAYER_NAME_LEN - 1]
    /\ \A n \in Names : Length[n] = 0 <=> n = NoName
ASSUME ListAssumption == Lists \subseteq Seq([user_id : Ids \cup {NoId}, ingame_name : Names])

VARIABLES
    nicks,           \* registry: "Known Nicks", by user id
    stored,          \* registry: the value AUTO_CREATE_NICKS
    table, wanted,   \* pHtLocalNames as NickMap describes it
    auto_nick_save,
    players,         \* pSelectedGameInfo->playerinfo
    i,               \* the loop variable of UpdatePlayerList, 0 outside of it
    listed,          \* is every player in hPlayerList?
    due,             \* auxiliary: the nickname the user last gave or deleted, or
                     \* the one saved automatically since
    unsaved          \* auxiliary: ids for which a write to the registry failed

vars == <<nicks, stored, table, wanted, auto_nick_save, players, i, listed, due, unsaved>>
notes == <<due, unsaved>>

Table == INSTANCE NickMap WITH Crcs <- Ids, Nicks <- Names, Lossy <- TRUE, map <- table

PlayerInfo == [user_id : Ids \cup {NoId}, ingame_name : Names, local_name : Names]

TypeOK ==
    /\ nicks \in [Ids -> Names \cup {NULL}]
    /\ stored \in BOOLEAN
    /\ table \in [Ids -> Names \cup {NULL}]
    /\ wanted \in [Ids -> Names \cup {NULL}]
    /\ auto_nick_save \in BOOLEAN
    /\ players \in Seq(PlayerInfo)
    /\ i \in 0 .. Len(players) + 1
    /\ listed \in BOOLEAN
    /\ due \in [Ids -> Names \cup {NULL}]
    /\ unsaved \in SUBSET Ids

-----------------------------------------------------------------------------
(* bzccsettings.c.                                                          *)

sizeof_TCHAR == 2

\* The bytes RegSetValueEx stores. The length passed leaves the terminator out;
\* Windows adds the one that follows the data, but stores no data as none.
StoredBytes(name) == IF name = NoName THEN 0 ELSE sizeof_TCHAR * (Length[name] + 1)

\* RegQueryValueEx takes the size of the buffer in bytes and gets it in characters.
Fits(name) == StoredBytes(name) <= PLAYER_NAME_LEN

\* Mutant: the terminator is taken off twice.
Found_TwoOff(name) == StoredBytes(name) \div sizeof_TCHAR - 2 # 0

\* The result, as a condition: of 0 bytes it is 0xFFFFFFFF.
Found(name) == StoredBytes(name) \div sizeof_TCHAR - 1 # 0

\* Mutant: the result of RegQueryValueEx is not looked at.
LoadNick_Unchecked(id) == {nicks[id]}

\* LoadNick: what UpdatePlayerList may find in tmp, nothing when it returns 0.
\* A value of 0 bytes leaves tmp as it was: with the name of an earlier player
\* of the list or bytes of the stack.
LoadNick(id) ==
    IF nicks[id] = NULL \/ ~Fits(nicks[id]) \/ ~Found(nicks[id]) THEN {}
    ELSE IF nicks[id] = NoName THEN Names
    ELSE {nicks[id]}

\* Mutant: a value that is there is not replaced.
SaveNick_Once(id, name) ==
    /\ nicks' = IF nicks[id] = NULL THEN [nicks EXCEPT ![id] = name] ELSE nicks
    /\ UNCHANGED unsaved

\* SaveNick and DeleteNick return FALSE when they fail; no caller looks at it.
SaveNick(id, name) ==
    \/ nicks' = [nicks EXCEPT ![id] = name] /\ UNCHANGED unsaved
    \/ UNCHANGED nicks /\ unsaved' = unsaved \cup {id}

\* Mutant: the value is looked for under another name and not deleted.
DeleteNick_Elsewhere(id) == UNCHANGED <<nicks, unsaved>>

DeleteNick(id) ==
    \/ nicks' = [nicks EXCEPT ![id] = NULL] /\ UNCHANGED unsaved
    \/ UNCHANGED nicks /\ unsaved' = unsaved \cup {id}

\* Of the settings in DWORDs, AUTO_CREATE_NICKS. Saving it may fail, which is not
\* looked at either.
SaveSettingDWORD(value) == stored' \in {stored, value}
LoadSettingDWORD == stored

-----------------------------------------------------------------------------
(* UpdatePlayerList.                                                        *)

UpdatePlayerList == i' = 1 /\ listed' = FALSE

SetLocal(p, name) == players' = [players EXCEPT ![p].local_name = name]

Wanting(p) == players[p].local_name = NoName /\ players[p].user_id # NoId

FromTable(p) ==
    LET id == players[p].user_id
    IN  /\ table[id] # NULL
        /\ SetLocal(p, table[id])
        /\ UNCHANGED <<nicks, table, wanted, notes>>

FromRegistry(p) ==
    LET id == players[p].user_id
    IN  /\ table[id] = NULL
        /\ \E name \in LoadNick(id) : SetLocal(p, name) /\ Table!Put(id, name)
        /\ UNCHANGED <<nicks, notes>>

AutoSave(p) ==
    LET id == players[p].user_id
        name == players[p].ingame_name
    IN  /\ table[id] = NULL
        /\ LoadNick(id) = {}
        /\ auto_nick_save
        /\ SetLocal(p, name)
        /\ SaveNick(id, name)
        /\ Table!Put(id, name)
        /\ due' = [due EXCEPT ![id] = name]

NoNick(p) ==
    LET id == players[p].user_id
    IN  /\ Wanting(p) => table[id] = NULL /\ LoadNick(id) = {} /\ ~auto_nick_save
        /\ UNCHANGED <<players, nicks, table, wanted, notes>>

\* One player of the loop: its nickname is looked up, and it is added to the
\* list box, which empties the list and ends the loop when it fails.
ListPlayer ==
    /\ i \in 1 .. Len(players)
    /\ \/ Wanting(i) /\ (FromTable(i) \/ FromRegistry(i) \/ AutoSave(i))
       \/ NoNick(i)
    /\ i' \in {i + 1, 0}
    /\ UNCHANGED <<stored, auto_nick_save, listed>>

EndOfList ==
    /\ i = Len(players) + 1
    /\ i' = 0
    /\ listed' = TRUE
    /\ UNCHANGED <<nicks, stored, table, wanted, auto_nick_save, players, notes>>

-----------------------------------------------------------------------------
(* What makes the list again.                                               *)

\* A game of a new scan is selected.
SelectGame ==
    /\ i = 0
    /\ \E list \in Lists :
          players' = [p \in DOMAIN list |->
                        [user_id |-> list[p].user_id,
                         ingame_name |-> list[p].ingame_name, local_name |-> NoName]]
    /\ UpdatePlayerList
    /\ UNCHANGED <<nicks, stored, table, wanted, auto_nick_save, notes>>

\* The check box for nicknames is clicked, or the same game selected again.
ShowAgain ==
    /\ i = 0 /\ players # <<>>
    /\ UpdatePlayerList
    /\ UNCHANGED <<nicks, stored, table, wanted, auto_nick_save, players, notes>>

\* The check box for saving names automatically: the list is made again only
\* when a player is selected.
ToggleAutoCreate ==
    /\ i = 0
    /\ auto_nick_save' = ~auto_nick_save
    /\ SaveSettingDWORD(auto_nick_save')
    /\ IF auto_nick_save' /\ players # <<>>
         THEN UpdatePlayerList \/ UNCHANGED <<i, listed>>
         ELSE UNCHANGED <<i, listed>>
    /\ UNCHANGED <<nicks, table, wanted, players, notes>>

Delete(p) ==
    LET id == players[p].user_id
    IN  /\ SetLocal(p, NoName)
        /\ Table!Remove(id)
        /\ DeleteNick(id)
        /\ due' = [due EXCEPT ![id] = NULL]

Rename(p, text) ==
    LET id == players[p].user_id
    IN  /\ SetLocal(p, text)
        /\ Table!Put(id, text)
        /\ SaveNick(id, text)
        /\ due' = [due EXCEPT ![id] = text]

\* A player without an id keeps the new name as long as the list does. What is
\* written to the table and the registry under the empty name, nothing reads.
RenameNobody(p, text) ==
    /\ SetLocal(p, text)
    /\ UNCHANGED <<nicks, table, wanted, notes>>

\* WM_APP_CLOSE_RENAME_DLG after OK or Delete. A crash between the write to
\* the table and the one to the registry leaves what one before both leaves.
Submit ==
    /\ i = 0
    /\ \E p \in DOMAIN players, text \in Names :
          \/ /\ text # players[p].local_name
             /\ \/ players[p].user_id \in ValidIds /\ text = NoName /\ Delete(p)
                \/ players[p].user_id \in ValidIds /\ text # NoName /\ Rename(p, text)
                \/ players[p].user_id = NoId /\ RenameNobody(p, text)
          \/ /\ text = players[p].local_name \/ players[p].user_id \in Ids \ ValidIds
             /\ UNCHANGED <<nicks, table, wanted, players, notes>>
    /\ UpdatePlayerList
    /\ UNCHANGED <<stored, auto_nick_save>>

Restart ==
    /\ Table!Clear
    /\ auto_nick_save' = LoadSettingDWORD
    /\ players' = <<>>
    /\ i' = 0
    /\ listed' = FALSE
    /\ UNCHANGED <<nicks, stored, notes>>

Init ==
    /\ nicks = [id \in Ids |-> NULL]
    /\ stored = FALSE
    /\ Table!Init
    /\ auto_nick_save = FALSE
    /\ players = <<>>
    /\ i = 0
    /\ listed = FALSE
    /\ due = [id \in Ids |-> NULL]
    /\ unsaved = {}

Next ==
    \/ SelectGame
    \/ ShowAgain
    \/ ToggleAutoCreate
    \/ Submit
    \/ ListPlayer
    \/ EndOfList
    \/ Restart

Spec == Init /\ [][Next]_vars

-----------------------------------------------------------------------------
(* Properties.                                                              *)

\* What LoadNick gives back as it was saved.
Readable(name) == Fits(name) /\ name # NoName

\* The player has an id that nobody else in the list has, and no write failed
\* for it.
Tracked(p) ==
    /\ players[p].user_id \in Ids \ unsaved
    /\ \A q \in DOMAIN players \ {p} : players[q].user_id # players[p].user_id

ShownRight(p) ==
    LET id == players[p].user_id
    IN  IF due[id] = NULL
          THEN players[p].local_name = NoName
          ELSE Readable(due[id]) => players[p].local_name = due[id]

\* A listed player is shown with the nickname the user gave, or deleted,
\* however many scans and restarts ago and whether or not the table lost it: as
\* long as no write to the registry failed, the name is one that LoadNick can
\* read back (1 to 31 characters), and the id is not empty and occurs once in
\* the list (submit 1174-1199, import 511-534).
ShownAsGiven == listed => \A p \in DOMAIN players : Tracked(p) => ShownRight(p)

\* For a name of 1 to 31 characters, an answer of the table is what LoadNick finds
\* after a restart. A longer one is in the registry too, but LoadNick does not
\* find it; for a value of 0 bytes it may find anything. (Ids for which a write
\* failed are excepted.)
TableAgreesWithRegistry ==
    \A id \in Ids \ unsaved : table[id] # NULL =>
        \/ nicks[id] = NoName
        \/ /\ nicks[id] = table[id]
           /\ LoadNick(id) = IF Fits(table[id]) THEN {table[id]} ELSE {}

\* Saving names automatically never replaces a nickname in the registry that
\* LoadNick can read (import 519-533): longer ones it takes for missing.
AutoSaveYields ==
    [][i > 0 => \A id \in Ids :
          nicks'[id] # nicks[id] => nicks[id] = NULL \/ ~Fits(nicks[id])]_vars
=============================================================================
