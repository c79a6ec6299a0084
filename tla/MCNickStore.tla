---------------------------- MODULE MCNickStore ----------------------------
(* NickStore for TLC. The id bad has a character that is neither a letter   *)
(* nor a digit. The names are as long as the empty one, one character, and  *)
(* the first length that LoadNick cannot read.                              *)
EXTENDS NickStore, TLC

CONSTANTS u1, bad, empty, short, long

MCLength == empty :> 0 @@ short :> 1 @@ long :> 32

Player(id, name) == [user_id |-> id, ingame_name |-> name]

\* Every single player, two in one game, and the same id twice.
MCLists ==
    {<<Player(id, name)>> : id \in Ids, name \in Names}
        \cup {<<Player(u1, short), Player(bad, long)>>,
              <<Player(bad, short), Player(u1, empty)>>,
              <<Player(NoId, short), Player(u1, short)>>,
              <<Player(u1, short), Player(u1, long)>>}
=============================================================================
