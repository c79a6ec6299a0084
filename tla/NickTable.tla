------------------------------ MODULE NickTable ------------------------------
(***************************************************************************)
(* bzcchtable.c: the table of nicknames, a singly linked list of heap      *)
(* blocks with a pointer to the first and to the last one. The heap is     *)
(* modelled block by block, because HT_Delete leaves ht->last pointing at  *)
(* a block it has freed, and what that does depends on which block the     *)
(* allocator returns next. A freed block keeps its content until it is     *)
(* allocated again.                                                        *)
(***************************************************************************)
EXTENDS Naturals, FiniteSets, FiniteSetsExt

CONSTANTS
    Ids,         \* user ids
    Crcs,        \* the CRC32 values they hash to
    CalcCRC32,   \* [Ids -> Crcs]; two ids may share one
    Nicks,
    Addrs,       \* the blocks of the heap: a bound on live and lost entries
    NULL,
    HeapFails    \* may HeapAlloc fail?

ASSUME CrcAssumption == CalcCRC32 \in [Ids -> Crcs]
ASSUME HeapAssumption ==
    IsFiniteSet(Addrs) /\ NULL \notin Addrs \cup Nicks \cup Crcs /\ HeapFails \in BOOLEAN

VARIABLES
    first, last,   \* HT_Table
    heap,          \* the content of every block
    allocated,     \* the blocks HeapAlloc gave out and HeapFree has not taken back
    wanted         \* auxiliary: the nickname last given to a CRC

vars == <<first, last, heap, allocated, wanted>>

Block == [crc32 : Crcs \cup {NULL}, value : Nicks \cup {NULL}, next : Addrs \cup {NULL}]

TypeOK ==
    /\ first \in allocated \cup {NULL}
    /\ last \in Addrs \cup {NULL}
    /\ heap \in [Addrs -> Block]
    /\ allocated \in SUBSET Addrs
    /\ wanted \in [Crcs -> Nicks \cup {NULL}]

-----------------------------------------------------------------------------
(* Walking the list.                                                        *)

Steps == 1 .. Cardinality(Addrs) + 1

\* The block reached after following next from ht->first.
At[n \in Steps] ==
    IF n = 1 THEN first
    ELSE IF At[n - 1] = NULL THEN NULL ELSE heap[At[n - 1]].next

Reachable == {At[n] : n \in Steps} \ {NULL}

Hits(crc32) == {n \in Steps : At[n] # NULL /\ heap[At[n]].crc32 = crc32}

HT_Find_crc32(crc32) ==
    IF Hits(crc32) = {} THEN NULL ELSE heap[At[Min(Hits(crc32))]].value

-----------------------------------------------------------------------------
(* The operations.                                                          *)

\* HT_New. The new block is filled before ht->last->next is written, which is
\* a write into freed memory when ht->last is dangling, and into the new block
\* itself when the allocator has reused that memory.
HT_New(crc32, mapped_string) ==
    \/ /\ HeapFails
       /\ UNCHANGED <<first, last, heap, allocated>>
    \/ \E entry \in Addrs \ allocated :
          LET filled == [heap EXCEPT ![entry] =
                           [crc32 |-> crc32, value |-> mapped_string, next |-> NULL]]
          IN  /\ allocated' = allocated \cup {entry}
              /\ last' = entry
              /\ IF first = NULL
                   THEN first' = entry /\ heap' = filled
                   ELSE first' = first /\ heap' = [filled EXCEPT ![last].next = entry]

Given(crc32, nick) == wanted' = [wanted EXCEPT ![crc32] = nick]

\* UpdatePlayerList: a nickname loaded from the registry, or made from the name
\* in the game, is added when HT_Find_crc32 has not found one.
Import(id, nick) ==
    /\ HT_Find_crc32(CalcCRC32[id]) = NULL
    /\ HT_New(CalcCRC32[id], nick)
    /\ Given(CalcCRC32[id], nick)

\* Mutant: the list is not searched for an entry to replace.
HT_Set_NoSearch(id, nick) ==
    /\ Given(CalcCRC32[id], nick)
    /\ HT_New(CalcCRC32[id], nick)

HT_Set(id, nick) ==
    LET crc32 == CalcCRC32[id]
    IN  /\ Given(crc32, nick)
        /\ IF Hits(crc32) # {}
             THEN /\ heap' = [heap EXCEPT ![At[Min(Hits(crc32))]].value = nick]
                  /\ UNCHANGED <<first, last, allocated>>
             ELSE HT_New(crc32, nick)

\* Mutant: the predecessor is not linked past the deleted entry.
Unlink_KeepsLink(n) ==
    IF n > 1 THEN UNCHANGED <<first, last, heap>>
    ELSE IF last = At[n] THEN first' = NULL /\ last' = NULL /\ UNCHANGED heap
    ELSE first' = heap[At[n]].next /\ UNCHANGED <<last, heap>>

\* Mutant: the only entry is deleted and ht->first keeps pointing at it.
Unlink_KeepsFirst(n) ==
    IF n > 1
      THEN /\ heap' = [heap EXCEPT ![At[n - 1]].next = heap[At[n]].next]
           /\ UNCHANGED <<first, last>>
    ELSE IF last = At[n] THEN last' = NULL /\ UNCHANGED <<first, heap>>
    ELSE first' = heap[At[n]].next /\ UNCHANGED <<last, heap>>

\* The branches of HT_Delete for the n-th entry. The statement "ht->last;" of
\* the branch for the last entry changes nothing.
Unlink(n) ==
    IF n > 1
      THEN /\ heap' = [heap EXCEPT ![At[n - 1]].next = heap[At[n]].next]
           /\ UNCHANGED <<first, last>>
    ELSE IF last = At[n] THEN first' = NULL /\ last' = NULL /\ UNCHANGED heap
    ELSE first' = heap[At[n]].next /\ UNCHANGED <<last, heap>>

HT_Delete(id) ==
    LET crc32 == CalcCRC32[id]
    IN  /\ Given(crc32, NULL)
        /\ IF Hits(crc32) # {}
             THEN LET n == Min(Hits(crc32))
                  IN  Unlink(n) /\ allocated' = allocated \ {At[n]}
             ELSE UNCHANGED <<first, last, heap, allocated>>

\* HT_Free frees what the walk reaches.
HT_Free ==
    /\ first' = NULL
    /\ last' = NULL
    /\ allocated' = allocated \ Reachable
    /\ wanted' = [c \in Crcs |-> NULL]
    /\ UNCHANGED heap

-----------------------------------------------------------------------------
Init ==
    /\ first = NULL /\ last = NULL
    /\ heap = [a \in Addrs |-> [crc32 |-> NULL, value |-> NULL, next |-> NULL]]
    /\ allocated = {}
    /\ wanted = [c \in Crcs |-> NULL]

Next ==
    \/ \E id \in Ids, nick \in Nicks : Import(id, nick)
    \/ \E id \in Ids, nick \in Nicks : HT_Set(id, nick)
    \/ \E id \in Ids : HT_Delete(id)
    \/ HT_Free

Spec == Init /\ [][Next]_vars

-----------------------------------------------------------------------------
(* Properties.                                                              *)

\* Whatever becomes of ht->last, walking the list is safe: it comes to an end,
\* visits only blocks that are allocated, and meets each CRC once.
WalkIsSafe ==
    /\ At[Cardinality(Addrs) + 1] = NULL
    /\ Reachable \subseteq allocated
    /\ \A c \in Crcs : Cardinality(Hits(c)) <= 1

Lookup == [c \in Crcs |-> HT_Find_crc32(c)]

\* The table is a cache of nicknames: an entry may be lost when it is added,
\* but a lookup never answers with an outdated nickname or another CRC's.
Cache == INSTANCE NickMap WITH Lossy <- TRUE, map <- Lookup
IsCache == Cache!Spec

\* "Searches for crc32 of reference string, and either replaces or creates
\* entry with mapped string" (bzcchtable.h): while no allocation fails the table
\* is a map that loses nothing.
Reliable == INSTANCE NickMap WITH Lossy <- FALSE, map <- Lookup
IsReliable == Reliable!Spec
=============================================================================
