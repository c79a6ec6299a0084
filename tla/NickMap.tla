------------------------------- MODULE NickMap -------------------------------
(***************************************************************************)
(* What a table of nicknames promises its caller, by CRC of the user id.   *)
(* Lossy = FALSE is the map bzcchtable.h describes. Lossy = TRUE is a      *)
(* cache: a nickname given to an id that has none may be dropped, but an   *)
(* answer is never stale, replacing and deleting always work, and no       *)
(* operation disturbs another id.                                          *)
(***************************************************************************)
CONSTANTS Crcs, Nicks, NULL, Lossy

VARIABLES
    map,     \* what a lookup answers
    wanted   \* the nickname last given and not deleted since

vars == <<map, wanted>>

Init ==
    /\ map = [c \in Crcs |-> NULL]
    /\ wanted = [c \in Crcs |-> NULL]

Put(c, nick) ==
    /\ wanted' = [wanted EXCEPT ![c] = nick]
    /\ \/ map' = [map EXCEPT ![c] = nick]
       \/ Lossy /\ map[c] = NULL /\ map' = map

Remove(c) ==
    /\ wanted' = [wanted EXCEPT ![c] = NULL]
    /\ map' = [map EXCEPT ![c] = NULL]

Clear ==
    /\ wanted' = [c \in Crcs |-> NULL]
    /\ map' = [c \in Crcs |-> NULL]

Next ==
    \/ \E c \in Crcs, nick \in Nicks : Put(c, nick)
    \/ \E c \in Crcs : Remove(c)
    \/ Clear

Spec == Init /\ [][Next]_vars
=============================================================================
