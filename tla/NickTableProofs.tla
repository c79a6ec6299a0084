--------------------------- MODULE NickTableProofs ---------------------------
(***************************************************************************)
(* The table of nicknames for any number of ids, CRCs and blocks: the list *)
(* that the walk goes through, what it says for a lookup, and that the     *)
(* table implements the cache of NickMap.                                  *)
(*                                                                         *)
(* The walk is a recursive function. What it computes is shown by          *)
(* exhibiting a function that satisfies its equation, and by looking at    *)
(* the least place where another such function would differ.               *)
(***************************************************************************)
EXTENDS NickTable, Integers, FiniteSetTheorems, WellFoundedInduction, TLAPS

\* s is the list, and n its length. Blocks of the list have different CRCs, so
\* they are different blocks. ht->last may be any block outside of the list,
\* freed, reused or lost, but no block of the list other than its last one:
\* HT_New then never cuts the list.
Chain(n, s) ==
    /\ n \in 0 .. Cardinality(Addrs) /\ s \in [1 .. n -> Addrs]
    /\ first = IF n = 0 THEN NULL ELSE s[1]
    /\ \A i \in 1 .. n : heap[s[i]].next = IF i = n THEN NULL ELSE s[i + 1]
    /\ \A i \in 1 .. n :
         s[i] \in allocated /\ heap[s[i]].crc32 \in Crcs /\ heap[s[i]].value \in Nicks
    /\ \A i, j \in 1 .. n : heap[s[i]].crc32 = heap[s[j]].crc32 => i = j
    /\ \A i \in 1 .. n : s[i] = last => i = n
    /\ n > 0 => last # NULL

ListInv == \E n \in 0 .. Cardinality(Addrs) : \E s \in [1 .. n -> Addrs] : Chain(n, s)

IndInv == TypeOK /\ ListInv

USE CrcAssumption, HeapAssumption DEF CrcAssumption, HeapAssumption

-----------------------------------------------------------------------------
(* The walk.                                                                *)

\* The principle of the least number.
LEMMA LeastNumber ==
  ASSUME NEW T, T \subseteq Nat, T # {}
  PROVE  \E x \in T : \A y \in T : x <= y
<1>1. \E R : IsWellFoundedOn(R, Nat) /\ \A x, y \in Nat : y < x => <<y, x>> \in R
  <2>1. \A x, y \in Nat : y < x => <<y, x>> \in OpToRel(<, Nat)
    BY DEF OpToRel
  <2>2. QED
    BY <2>1, NatLessThanWellFounded, Zenon
<1>2. PICK R : IsWellFoundedOn(R, Nat) /\ \A x, y \in Nat : y < x => <<y, x>> \in R
  BY <1>1
<1>3. PICK x \in T : \A y \in T : ~ (<<y, x>> \in R)
  BY <1>2, WFMin, Zenon
<1>4. \A y \in T : ~ (y < x)
  BY <1>2, <1>3
<1>5. QED
  BY <1>4

LEMMA SizeOfHeap == Cardinality(Addrs) \in Nat
  BY FS_CardinalityType

\* The equation of At.
Walk(g) ==
    g = [n \in Steps |-> IF n = 1 THEN first
                         ELSE IF g[n - 1] = NULL THEN NULL ELSE heap[g[n - 1]].next]

LEMMA AtIsAWalk == ASSUME NEW g, Walk(g) PROVE Walk(At)
<1>1. At = CHOOSE f : Walk(f)
  BY DEF At, Walk
<1>2. QED
  BY <1>1, Zenon

\* There is only one walk.
LEMMA WalkIsUnique ==
  ASSUME NEW f, NEW g, Walk(f), Walk(g)
  PROVE  f = g
<1> DEFINE T == {n \in Steps : f[n] # g[n]}
<1>1. Steps \subseteq Nat /\ \A n \in Steps : n # 1 => n - 1 \in Steps /\ n - 1 < n
  BY SizeOfHeap DEF Steps
<1>2. CASE T = {}
  BY <1>2 DEF Walk
<1>3. CASE T # {}
  <2>1. PICK n \in T : \A m \in T : n <= m
    BY <1>1, <1>3, LeastNumber
  <2>2. n # 1
    BY <2>1 DEF Walk
  <2>3. n - 1 \in Steps /\ f[n - 1] = g[n - 1]
    BY <1>1, <2>1, <2>2
  <2>4. f[n] = g[n]
    BY <1>1, <2>1, <2>2, <2>3 DEF Walk
  <2>5. QED
    BY <2>1, <2>4
<1>4. QED
  BY <1>2, <1>3

\* The walk goes through the list.
LEMMA WalkTheChain ==
  \A n, s : Chain(n, s) => At = [i \in Steps |-> IF i <= n THEN s[i] ELSE NULL]
<1> SUFFICES ASSUME NEW n, NEW s, Chain(n, s)
             PROVE  At = [i \in Steps |-> IF i <= n THEN s[i] ELSE NULL]
  OBVIOUS
<1> DEFINE g == [i \in Steps |-> IF i <= n THEN s[i] ELSE NULL]
<1>1. Walk(g)
  <2>1. ASSUME NEW i \in Steps
        PROVE  g[i] = IF i = 1 THEN first
                      ELSE IF g[i - 1] = NULL THEN NULL ELSE heap[g[i - 1]].next
    <3>1. i \in Nat /\ i >= 1 /\ n \in Nat
      BY SizeOfHeap DEF Steps, Chain
    <3>2. CASE i = 1
      BY <3>1, <3>2 DEF Chain
    <3>3. CASE i # 1
      <4>1. i - 1 \in Steps /\ i - 1 \in Nat
        BY <3>1, <3>3, SizeOfHeap DEF Steps
      <4>2. CASE i - 1 > n
        BY <3>1, <3>3, <4>1, <4>2
      <4>3. CASE i - 1 <= n
        <5>1. g[i - 1] = s[i - 1] /\ s[i - 1] # NULL /\ i - 1 \in 1 .. n
          BY <3>1, <3>3, <4>1, <4>3 DEF Chain
        <5>2. heap[s[i - 1]].next = IF i - 1 = n THEN NULL ELSE s[i]
          BY <3>1, <5>1 DEF Chain
        <5>3. QED
          BY <3>1, <3>3, <4>1, <4>3, <5>1, <5>2
      <4>4. QED
        BY <3>1, <4>1, <4>2, <4>3
    <3>4. QED
      BY <3>2, <3>3
  <2>2. QED
    BY <2>1 DEF Walk
<1>2. QED
  BY <1>1, AtIsAWalk, WalkIsUnique, Zenon

\* What a lookup answers, for the blocks of the list and for other CRCs.
Answers(n, s) ==
    /\ Reachable = {s[i] : i \in 1 .. n}
    /\ At[Cardinality(Addrs) + 1] = NULL
    /\ \A i \in 1 .. n : /\ At[i] = s[i]
                         /\ Hits(heap[s[i]].crc32) = {i}
                         /\ Min(Hits(heap[s[i]].crc32)) = i
                         /\ Lookup[heap[s[i]].crc32] = heap[s[i]].value
    /\ \A c \in Crcs : (\A i \in 1 .. n : heap[s[i]].crc32 # c)
                         => Hits(c) = {} /\ Lookup[c] = NULL

LEMMA LookupInTheChain == \A n, s : Chain(n, s) => Answers(n, s)
<1> SUFFICES ASSUME NEW n, NEW s, Chain(n, s) PROVE Answers(n, s)
  OBVIOUS
<1>1. n \in Nat /\ n <= Cardinality(Addrs) /\ Cardinality(Addrs) \in Nat
  BY SizeOfHeap DEF Chain
<1>2. At = [i \in Steps |-> IF i <= n THEN s[i] ELSE NULL]
  BY WalkTheChain
<1>3. /\ 1 .. n \subseteq Steps /\ Cardinality(Addrs) + 1 \in Steps
      /\ \A i \in Steps : i \in Nat /\ (i <= n => i \in 1 .. n)
  BY <1>1 DEF Steps
<1>4. \A i \in 1 .. n : At[i] = s[i] /\ s[i] \in Addrs /\ s[i] # NULL
  BY <1>1, <1>2, <1>3 DEF Chain
<1>5. \A i \in Steps : At[i] # NULL <=> i \in 1 .. n
  BY <1>1, <1>2, <1>3, <1>4
<1>6. Reachable = {s[i] : i \in 1 .. n}
  BY <1>3, <1>4, <1>5 DEF Reachable
<1>7. At[Cardinality(Addrs) + 1] = NULL
  BY <1>1, <1>3, <1>5
<1>8. \A c \in Crcs : Hits(c) = {i \in 1 .. n : heap[s[i]].crc32 = c}
  BY <1>3, <1>4, <1>5 DEF Hits
<1>9. ASSUME NEW i \in 1 .. n
      PROVE  /\ Hits(heap[s[i]].crc32) = {i} /\ Min(Hits(heap[s[i]].crc32)) = i
             /\ Lookup[heap[s[i]].crc32] = heap[s[i]].value
  <2>1. heap[s[i]].crc32 \in Crcs
    BY DEF Chain
  <2>2. Hits(heap[s[i]].crc32) = {i}
    BY <1>8, <2>1 DEF Chain
  <2>3. Min({i}) = i
    BY <1>1 DEF Min
  <2>4. QED
    BY <1>4, <2>1, <2>2, <2>3 DEF Lookup, HT_Find_crc32
<1>10. ASSUME NEW c \in Crcs, \A i \in 1 .. n : heap[s[i]].crc32 # c
       PROVE  Hits(c) = {} /\ Lookup[c] = NULL
  BY <1>8, <1>10 DEF Lookup, HT_Find_crc32
<1>11. QED
  BY <1>4, <1>6, <1>7, <1>9, <1>10 DEF Answers

\* The same after a step.
LEMMA LookupAfterStep == (\A n, s : Chain(n, s) => Answers(n, s))'
  BY LookupInTheChain, PTL

\* A list without repetition fits into the heap.
LEMMA ListFits ==
  ASSUME NEW n \in Nat, NEW s \in [1 .. n -> Addrs],
         \A i, j \in 1 .. n : s[i] = s[j] => i = j
  PROVE  n \in 0 .. Cardinality(Addrs)
<1>1. IsFiniteSet(1 .. n) /\ Cardinality(1 .. n) = n
  BY FS_Interval
<1>2. s \in Injection(1 .. n, Addrs)
  BY DEF Injection, IsInjective
<1>3. Cardinality(1 .. n) <= Cardinality(Addrs)
  BY <1>2, FS_Injection
<1>4. QED
  BY <1>1, <1>3, SizeOfHeap

-----------------------------------------------------------------------------
(* The operations on the list.                                              *)

\* A step that leaves the memory alone leaves the list and the answers.
LEMMA NothingHappens ==
  ASSUME TypeOK, ListInv, UNCHANGED <<first, last, heap, allocated>>, 
         wanted' \in [Crcs -> Nicks \cup {NULL}]
  PROVE  TypeOK' /\ ListInv' /\ Lookup' = Lookup
<1>1. ListInv'
  BY DEF ListInv, Chain
<1>2. At' = At
  BY DEF At
<1>3. \A c \in Crcs : Lookup'[c] = Lookup[c]
  BY <1>2 DEF Lookup, HT_Find_crc32, Hits
<1>4. QED
  BY <1>1, <1>3 DEF TypeOK, Lookup

\* The answers of a list are all there is to Lookup.
LEMMA LookupFunction ==
  ASSUME NEW n, NEW s, Chain(n, s)
  PROVE  /\ Lookup \in [Crcs -> Nicks \cup {NULL}]
         /\ \A c \in Crcs : Lookup[c] = NULL <=> \A i \in 1 .. n : heap[s[i]].crc32 # c
         /\ \A c \in Crcs : Lookup[c] = NULL <=> Hits(c) = {}
<1>1. Answers(n, s)
  BY LookupInTheChain
<1>2. ASSUME NEW c \in Crcs
      PROVE  /\ Lookup[c] \in Nicks \cup {NULL}
             /\ Lookup[c] = NULL <=> \A i \in 1 .. n : heap[s[i]].crc32 # c
             /\ Lookup[c] = NULL <=> Hits(c) = {}
  <2>1. CASE \A i \in 1 .. n : heap[s[i]].crc32 # c
    BY <1>1, <2>1 DEF Answers
  <2>2. CASE \E i \in 1 .. n : heap[s[i]].crc32 = c
    <3>1. PICK i \in 1 .. n : heap[s[i]].crc32 = c
      BY <2>2
    <3>2. Hits(c) = {i} /\ Lookup[c] = heap[s[i]].value
      BY <1>1, <3>1 DEF Answers
    <3>3. heap[s[i]].value \in Nicks
      BY DEF Chain
    <3>4. QED
      BY <3>1, <3>2, <3>3
  <2>3. QED
    BY <2>1, <2>2
<1>3. QED
  BY <1>2 DEF Lookup

\* HT_New adds the entry at the end of the list, or it is lost.
LEMMA NewStep ==
  ASSUME TypeOK, ListInv, NEW c \in Crcs, NEW nick \in Nicks, Hits(c) = {}, HT_New(c, nick),
         wanted' \in [Crcs -> Nicks \cup {NULL}]
  PROVE  /\ TypeOK' /\ ListInv'
         /\ Lookup[c] = NULL
         /\ Lookup' = Lookup \/ Lookup' = [Lookup EXCEPT ![c] = nick]
<1>0. Lookup = [d \in Crcs |-> Lookup[d]] /\ Lookup' = [d \in Crcs |-> Lookup'[d]]
  BY DEF Lookup
<1>1. PICK n, s : Chain(n, s)
  BY DEF ListInv
<1>2. /\ Lookup[c] = NULL /\ \A i \in 1 .. n : heap[s[i]].crc32 # c
      /\ Lookup \in [Crcs -> Nicks \cup {NULL}]
  BY <1>1, LookupFunction
<1>3. CASE UNCHANGED <<first, last, heap, allocated>>
  BY <1>2, <1>3, NothingHappens
<1>4. ASSUME NEW entry \in Addrs \ allocated,
             allocated' = allocated \cup {entry}, last' = entry,
             NEW filled, filled = [heap EXCEPT ![entry] = [crc32 |-> c, value |-> nick, next |-> NULL]],
             IF first = NULL THEN first' = entry /\ heap' = filled
             ELSE first' = first /\ heap' = [filled EXCEPT ![last].next = entry]
      PROVE  /\ TypeOK' /\ ListInv'
             /\ Lookup' = Lookup \/ Lookup' = [Lookup EXCEPT ![c] = nick]
  <2>1. /\ n \in Nat /\ entry \in Addrs /\ entry # NULL
        /\ \A i \in 1 .. n : s[i] # entry /\ s[i] \in Addrs
        /\ heap \in [Addrs -> Block]
    BY <1>1, <1>4, SizeOfHeap DEF Chain, TypeOK
  <2>2. filled \in [Addrs -> Block] /\ heap' \in [Addrs -> Block]
    <3>1. [crc32 |-> c, value |-> nick, next |-> NULL] \in Block
      BY DEF Block
    <3>2. filled \in [Addrs -> Block]
      BY <1>4, <2>1, <3>1
    <3>3. [filled EXCEPT ![last].next = entry] \in [Addrs -> Block]
      BY <2>1, <3>2 DEF Block
    <3>4. QED
      BY <1>4, <3>2, <3>3
  <2>3. TypeOK'
    BY <1>4, <2>1, <2>2 DEF TypeOK
  <2> DEFINE longer == [i \in 1 .. n + 1 |-> IF i = n + 1 THEN entry ELSE s[i]]
  <2>4. CASE first = NULL \/ \E i \in 1 .. n : s[i] = last
    <3>1. n > 0 => last = s[n] /\ n \in 1 .. n
      BY <1>1, <2>1, <2>4 DEF Chain
    <3>2. /\ heap'[entry] = [crc32 |-> c, value |-> nick, next |-> NULL]
          /\ \A i \in 1 .. n : /\ heap'[s[i]].crc32 = heap[s[i]].crc32
                               /\ heap'[s[i]].value = heap[s[i]].value
                               /\ heap'[s[i]].next = IF i = n THEN entry ELSE heap[s[i]].next
      <4>1. CASE first = NULL
        BY <1>1, <1>4, <2>1, <4>1 DEF Chain
      <4>2. CASE first # NULL
        <5>1. n > 0 /\ last # entry /\ last \in Addrs
          BY <1>1, <2>1, <3>1, <4>2 DEF Chain
        <5>2. \A i \in 1 .. n : s[i] = last => i = n
          BY <1>1 DEF Chain
        <5>3. QED
          BY <1>4, <2>1, <3>1, <4>2, <5>1, <5>2 DEF Block
      <4>3. QED
        BY <4>1, <4>2
    <3>3. /\ longer \in [1 .. n + 1 -> Addrs] /\ longer[n + 1] = entry
          /\ n + 1 \in 1 .. n + 1
          /\ \A i \in 1 .. n : longer[i] = s[i] /\ i \in 1 .. n + 1 /\ i # n + 1
          /\ \A i \in 1 .. n + 1 : i = n + 1 \/ i \in 1 .. n
      BY <2>1
    <3> HIDE DEF longer
    <3>4. \A i, j \in 1 .. n + 1 : heap'[longer[i]].crc32 = heap'[longer[j]].crc32 => i = j
      <4>1. \A i \in 1 .. n : heap'[longer[i]].crc32 = heap[s[i]].crc32
        BY <3>2, <3>3
      <4>2. heap'[longer[n + 1]].crc32 = c
        BY <3>2, <3>3
      <4>3. \A i, j \in 1 .. n : heap[s[i]].crc32 = heap[s[j]].crc32 => i = j
        BY <1>1 DEF Chain
      <4>4. QED
        BY <1>2, <3>3, <4>1, <4>2, <4>3
    <3>5. n + 1 \in 0 .. Cardinality(Addrs)
      BY <2>1, <3>3, <3>4, ListFits
    <3>6. Chain(n + 1, longer)'
      <4>1. first' = IF n + 1 = 0 THEN NULL ELSE longer[1]
        BY <1>1, <1>4, <2>1, <2>4, <3>3 DEF Chain
      <4>2. ASSUME NEW i \in 1 .. n + 1
            PROVE  /\ heap'[longer[i]].next = IF i = n + 1 THEN NULL ELSE longer[i + 1]
                   /\ longer[i] \in allocated' /\ heap'[longer[i]].crc32 \in Crcs
                   /\ heap'[longer[i]].value \in Nicks
                   /\ longer[i] = last' => i = n + 1
        <5>1. CASE i = n + 1
          BY <1>4, <3>2, <3>3, <5>1
        <5>2. CASE i \in 1 .. n
          <6>1. /\ heap[s[i]].next = (IF i = n THEN NULL ELSE s[i + 1])
                /\ s[i] \in allocated /\ heap[s[i]].crc32 \in Crcs /\ heap[s[i]].value \in Nicks
            BY <1>1, <5>2 DEF Chain
          <6>2. i # n => i + 1 \in 1 .. n
            BY <2>1, <5>2
          <6>3. QED
            BY <1>4, <2>1, <3>2, <3>3, <5>2, <6>1, <6>2
        <5>3. QED
          BY <3>3, <5>1, <5>2
      <4>3. QED
        BY <1>4, <2>1, <3>3, <3>4, <3>5, <4>1, <4>2 DEF Chain
    <3>7. Answers(n + 1, longer)'
      BY <3>6, LookupAfterStep
    <3>8. ListInv'
      BY <3>3, <3>5, <3>6 DEF ListInv
    <3>9. ASSUME NEW d \in Crcs PROVE Lookup'[d] = [Lookup EXCEPT ![c] = nick][d]
      <4>1. CASE d = c
        BY <1>2, <3>2, <3>3, <3>7, <4>1 DEF Answers
      <4>2. CASE \E i \in 1 .. n : heap[s[i]].crc32 = d
        BY <1>1, <1>2, <3>2, <3>3, <3>7, <4>2, LookupInTheChain DEF Answers
      <4>3. CASE d # c /\ \A i \in 1 .. n : heap[s[i]].crc32 # d
        BY <1>1, <1>2, <3>2, <3>3, <3>7, <4>3, LookupInTheChain DEF Answers
      <4>4. QED
        BY <4>1, <4>2, <4>3
    <3>10. Lookup' = [Lookup EXCEPT ![c] = nick]
      BY <1>2, <1>0, <3>9
    <3>11. QED
      BY <2>3, <3>8, <3>10
  <2>5. CASE first # NULL /\ \A i \in 1 .. n : s[i] # last
    <3>1. \A i \in 1 .. n : heap'[s[i]] = heap[s[i]] /\ s[i] # last' /\ s[i] \in allocated'
      BY <1>1, <1>4, <2>1, <2>5 DEF Chain
    <3>2. first' = first /\ last' # NULL
      BY <1>4, <2>1, <2>5
    <3>3. Chain(n, s)'
      BY <1>1, <3>1, <3>2 DEF Chain
    <3>4. Answers(n, s)'
      BY <3>3, LookupAfterStep
    <3>5. \A d \in Crcs : Lookup'[d] = Lookup[d]
      BY <1>1, <3>1, <3>4, LookupInTheChain DEF Answers
    <3>6. ListInv' /\ Lookup' = Lookup
      <4>1. n \in 0 .. Cardinality(Addrs) /\ s \in [1 .. n -> Addrs]
        BY <1>1 DEF Chain
      <4>2. QED
        BY <1>0, <3>3, <3>5, <4>1 DEF ListInv
    <3>7. QED
      BY <2>3, <3>6
  <2>6. QED
    BY <2>4, <2>5
<1>5. QED
  BY <1>2, <1>3, <1>4 DEF HT_New

\* HT_Set replaces the nickname of the entry it finds.
LEMMA ReplaceStep ==
  ASSUME TypeOK, ListInv, NEW c \in Crcs, NEW nick \in Nicks, Hits(c) # {},
         heap' = [heap EXCEPT ![At[Min(Hits(c))]].value = nick],
         UNCHANGED <<first, last, allocated>>, wanted' \in [Crcs -> Nicks \cup {NULL}]
  PROVE  TypeOK' /\ ListInv' /\ Lookup' = [Lookup EXCEPT ![c] = nick]
<1>0. Lookup = [d \in Crcs |-> Lookup[d]] /\ Lookup' = [d \in Crcs |-> Lookup'[d]]
  BY DEF Lookup
<1>1. PICK n, s : Chain(n, s)
  BY DEF ListInv
<1>2. PICK k \in 1 .. n : heap[s[k]].crc32 = c
  BY <1>1, LookupFunction
<1>3. At[Min(Hits(c))] = s[k]
  BY <1>1, <1>2, LookupInTheChain DEF Answers
<1>4. /\ heap \in [Addrs -> Block] /\ \A i \in 1 .. n : s[i] \in Addrs
      /\ \A i \in 1 .. n : s[i] = s[k] => i = k
  BY <1>1 DEF Chain, TypeOK
<1>5. heap' \in [Addrs -> Block]
  BY <1>3, <1>4 DEF Block
<1>6. \A i \in 1 .. n : /\ heap'[s[i]].crc32 = heap[s[i]].crc32
                        /\ heap'[s[i]].next = heap[s[i]].next
                        /\ heap'[s[i]].value = IF i = k THEN nick ELSE heap[s[i]].value
  BY <1>3, <1>4 DEF Block
<1>7. Chain(n, s)'
  BY <1>1, <1>6 DEF Chain
<1>8. ListInv'
  <2>1. n \in 0 .. Cardinality(Addrs) /\ s \in [1 .. n -> Addrs]
    BY <1>1 DEF Chain
  <2>2. QED
    BY <1>7, <2>1 DEF ListInv
<1>9. ASSUME NEW d \in Crcs PROVE Lookup'[d] = [Lookup EXCEPT ![c] = nick][d]
  <2>1. Answers(n, s) /\ Answers(n, s)'
    BY <1>1, <1>7, LookupInTheChain, LookupAfterStep
  <2>2. CASE \E i \in 1 .. n : heap[s[i]].crc32 = d
    <3>1. PICK i \in 1 .. n : heap[s[i]].crc32 = d
      BY <2>2
    <3>2. Lookup[d] = heap[s[i]].value /\ Lookup'[d] = heap'[s[i]].value
      BY <1>6, <2>1, <3>1 DEF Answers
    <3>3. d = c <=> i = k
      BY <1>1, <1>2, <3>1 DEF Chain
    <3>4. QED
      BY <1>0, <1>6, <3>2, <3>3
  <2>3. CASE \A i \in 1 .. n : heap[s[i]].crc32 # d
    <3>1. Lookup[d] = NULL /\ Lookup'[d] = NULL /\ d # c
      BY <1>2, <1>6, <2>1, <2>3 DEF Answers
    <3>2. QED
      BY <1>0, <3>1
  <2>4. QED
    BY <2>2, <2>3
<1>10. TypeOK'
  BY <1>5 DEF TypeOK
<1>11. QED
  BY <1>0, <1>8, <1>9, <1>10

\* HT_Delete takes one block out of the list. With ht->last at the only block
\* both pointers are reset; else ht->last may be left at the freed block.
LEMMA DeleteStep ==
  ASSUME TypeOK, ListInv, NEW c \in Crcs, Hits(c) # {}, Unlink(Min(Hits(c))),
         allocated' = allocated \ {At[Min(Hits(c))]}, wanted' \in [Crcs -> Nicks \cup {NULL}]
  PROVE  TypeOK' /\ ListInv' /\ Lookup' = [Lookup EXCEPT ![c] = NULL]
<1>0. Lookup = [d \in Crcs |-> Lookup[d]] /\ Lookup' = [d \in Crcs |-> Lookup'[d]]
  BY DEF Lookup
<1>1. PICK n, s : Chain(n, s)
  BY DEF ListInv
<1>2. PICK k \in 1 .. n : heap[s[k]].crc32 = c
  BY <1>1, LookupFunction
<1>3. Min(Hits(c)) = k /\ \A i \in 1 .. n : At[i] = s[i]
  BY <1>1, <1>2, LookupInTheChain DEF Answers
<1>4. /\ n \in Nat /\ k \in Nat /\ k >= 1 /\ k <= n
      /\ heap \in [Addrs -> Block] /\ \A i \in 1 .. n : s[i] \in Addrs
      /\ \A i, j \in 1 .. n : s[i] = s[j] => i = j
  <2>1. n \in 0 .. Cardinality(Addrs) /\ s \in [1 .. n -> Addrs]
    BY <1>1 DEF Chain
  <2>2. n \in Nat /\ k \in Nat /\ k >= 1 /\ k <= n
    BY <2>1, SizeOfHeap
  <2>3. heap \in [Addrs -> Block] /\ \A i \in 1 .. n : s[i] \in Addrs
    BY <2>1 DEF TypeOK
  <2>4. \A i, j \in 1 .. n : s[i] = s[j] => i = j
    BY <1>1 DEF Chain
  <2>5. QED
    BY <2>2, <2>3, <2>4
<1> DEFINE shorter == [i \in 1 .. n - 1 |-> IF i < k THEN s[i] ELSE s[i + 1]]
           At_(i) == IF i < k THEN i ELSE i + 1
<1>5. /\ shorter \in [1 .. n - 1 -> Addrs]
      /\ \A i \in 1 .. n - 1 : /\ At_(i) \in 1 .. n /\ At_(i) # k
                               /\ shorter[i] = s[At_(i)]
                               /\ At_(i) = n <=> (i = n - 1 /\ k # n)
      /\ \A i, j \in 1 .. n - 1 : At_(i) = At_(j) => i = j
      /\ \A j \in 1 .. n : j # k => \E i \in 1 .. n - 1 : At_(i) = j
      /\ n - 1 \in 0 .. Cardinality(Addrs)
  <2>1. \A i \in 1 .. n - 1 : i \in Nat /\ i + 1 \in 1 .. n /\ i \in 1 .. n
    BY <1>4
  <2>2. \A j \in 1 .. n : /\ j < k => j \in 1 .. n - 1 /\ At_(j) = j
                          /\ j > k => j - 1 \in 1 .. n - 1 /\ At_(j - 1) = j
    BY <1>4
  <2>3. \A j \in 1 .. n : j # k => \E i \in 1 .. n - 1 : At_(i) = j
    <3> HIDE DEF At_
    <3>1. \A j \in 1 .. n : j # k => j < k \/ j > k
      BY <1>4
    <3>2. QED
      BY <2>2, <3>1
  <2>4. n - 1 \in 0 .. Cardinality(Addrs)
    BY <1>1, <1>4, SizeOfHeap DEF Chain
  <2>5. QED
    BY <1>4, <2>1, <2>3, <2>4
<1>6. \A i \in 1 .. n : /\ heap'[s[i]].crc32 = heap[s[i]].crc32
                        /\ heap'[s[i]].value = heap[s[i]].value
                        /\ heap'[s[i]].next = IF i = k - 1 THEN heap[s[k]].next ELSE heap[s[i]].next
  <2>1. CASE k > 1
    <3>1. k - 1 \in 1 .. n
      BY <1>4, <2>1
    <3>2. heap' = [heap EXCEPT ![s[k - 1]].next = heap[s[k]].next]
      BY <1>3, <2>1, <3>1 DEF Unlink
    <3>3. QED
      BY <1>4, <3>1, <3>2 DEF Block
  <2>2. CASE k = 1
    BY <1>3, <1>4, <2>2 DEF Unlink
  <2>3. QED
    BY <1>4, <2>1, <2>2
<1>7. heap' \in [Addrs -> Block]
  <2>1. CASE k > 1
    <3>1. k - 1 \in 1 .. n /\ heap[s[k]].next \in Addrs \cup {NULL}
      BY <1>4, <2>1 DEF Block
    <3>2. heap' = [heap EXCEPT ![s[k - 1]].next = heap[s[k]].next]
      BY <1>3, <2>1, <3>1 DEF Unlink
    <3>3. QED
      BY <1>4, <3>1, <3>2 DEF Block
  <2>2. CASE k = 1
    BY <1>3, <1>4, <2>2 DEF Unlink
  <2>3. QED
    BY <1>4, <2>1, <2>2
<1>8. /\ first' = IF n - 1 = 0 THEN NULL ELSE shorter[1]
      /\ \A i \in 1 .. n - 1 : shorter[i] = last' => i = n - 1
      /\ n - 1 > 0 => last' # NULL
      /\ last' \in Addrs \cup {NULL}
  <2>1. /\ last # NULL /\ last \in Addrs \cup {NULL} /\ \A i \in 1 .. n : s[i] = last => i = n
        /\ first = s[1] /\ heap[s[1]].next = IF 1 = n THEN NULL ELSE s[2]
    BY <1>1, <1>4 DEF Chain, TypeOK
  <2>2. CASE k > 1
    <3>1. first' = first /\ last' = last
      BY <1>3, <2>2 DEF Unlink
    <3>2. n - 1 # 0 /\ shorter[1] = s[1]
      BY <1>4, <1>5, <2>2
    <3>3. \A i \in 1 .. n - 1 : shorter[i] = last' => i = n - 1
      BY <1>5, <2>1, <3>1
    <3>4. QED
      BY <2>1, <3>1, <3>2, <3>3
  <2>3. CASE k = 1 /\ last = s[1]
    <3>1. n = 1 /\ first' = NULL /\ last' = NULL
      BY <1>3, <1>4, <2>1, <2>3 DEF Unlink
    <3>2. QED
      BY <3>1
  <2>4. CASE k = 1 /\ last # s[1]
    <3>1. first' = heap[s[1]].next /\ last' = last
      BY <1>3, <1>4, <2>4 DEF Unlink
    <3>2. n - 1 # 0 => 1 \in 1 .. n - 1 /\ shorter[1] = s[2]
      BY <1>4, <1>5, <2>4
    <3>3. \A i \in 1 .. n - 1 : shorter[i] = last' => i = n - 1
      BY <1>5, <2>1, <3>1
    <3>4. QED
      BY <1>4, <2>1, <3>1, <3>2, <3>3
  <2>5. QED
    BY <1>4, <2>2, <2>3, <2>4
<1>9. \A i \in 1 .. n - 1 :
        /\ shorter[i] \in allocated' /\ heap'[shorter[i]].crc32 \in Crcs
        /\ heap'[shorter[i]].value \in Nicks
  <2>1. \A i \in 1 .. n : i # k => s[i] \in allocated'
    BY <1>1, <1>2, <1>3, <1>4 DEF Chain
  <2>2. QED
    BY <1>1, <1>5, <1>6, <2>1 DEF Chain
<1>10. \A i, j \in 1 .. n - 1 : heap'[shorter[i]].crc32 = heap'[shorter[j]].crc32 => i = j
  <2>1. \A i, j \in 1 .. n : heap[s[i]].crc32 = heap[s[j]].crc32 => i = j
    BY <1>1 DEF Chain
  <2>2. QED
    BY <1>5, <1>6, <2>1
<1>11. ASSUME NEW i \in 1 .. n - 1
       PROVE  heap'[shorter[i]].next = IF i = n - 1 THEN NULL ELSE shorter[i + 1]
  <2>1. \A j \in 1 .. n : heap[s[j]].next = IF j = n THEN NULL ELSE s[j + 1]
    BY <1>1 DEF Chain
  <2>2. CASE i = k - 1
    <3>1. shorter[i] = s[i] /\ i \in 1 .. n /\ heap'[s[i]].next = heap[s[k]].next
      BY <1>4, <1>5, <1>6, <2>2
    <3>2. k # n => i + 1 \in 1 .. n - 1 /\ shorter[i + 1] = s[k + 1]
      BY <1>4, <1>5, <2>2
    <3>3. QED
      BY <1>4, <2>1, <2>2, <3>1, <3>2
  <2>3. CASE i # k - 1
    <3>1. At_(i) \in 1 .. n /\ At_(i) # k - 1 /\ shorter[i] = s[At_(i)]
      BY <1>4, <1>5, <2>3
    <3>2. heap'[shorter[i]].next = IF At_(i) = n THEN NULL ELSE s[At_(i) + 1]
      BY <1>6, <2>1, <3>1
    <3>3. At_(i) = n <=> i = n - 1
      BY <1>4, <1>5, <2>3
    <3>4. i # n - 1 => i + 1 \in 1 .. n - 1 /\ At_(i + 1) = At_(i) + 1
      BY <1>4, <2>3
    <3>5. QED
      BY <1>5, <3>2, <3>3, <3>4
  <2>4. QED
    BY <2>2, <2>3
<1>12. Chain(n - 1, shorter)'
  BY <1>5, <1>8, <1>9, <1>10, <1>11 DEF Chain
<1>13. ListInv'
  BY <1>5, <1>12 DEF ListInv
<1>14. TypeOK'
  <2>1. first' \in allocated' \cup {NULL}
    <3>1. n - 1 # 0 => 1 \in 1 .. n - 1
      BY <1>4
    <3>2. QED
      BY <1>8, <1>9, <3>1
  <2>2. QED
    BY <1>7, <1>8, <2>1 DEF TypeOK
<1>15. ASSUME NEW d \in Crcs PROVE Lookup'[d] = [Lookup EXCEPT ![c] = NULL][d]
  <2>1. Answers(n, s) /\ Answers(n - 1, shorter)'
    BY <1>1, <1>12, LookupInTheChain, LookupAfterStep
  <2>2. CASE \E i \in 1 .. n - 1 : heap'[shorter[i]].crc32 = d
    <3>1. PICK i \in 1 .. n - 1 : heap'[shorter[i]].crc32 = d
      BY <2>2
    <3>2. At_(i) \in 1 .. n /\ At_(i) # k /\ shorter[i] = s[At_(i)] /\ heap[s[At_(i)]].crc32 = d
      BY <1>5, <1>6, <3>1
    <3>3. Lookup[d] = heap[s[At_(i)]].value /\ Lookup'[d] = heap'[shorter[i]].value
      BY <2>1, <3>1, <3>2 DEF Answers
    <3>4. d # c
      BY <1>1, <1>2, <3>2 DEF Chain
    <3>5. QED
      BY <1>0, <1>6, <3>2, <3>3, <3>4
  <2>3. CASE \A i \in 1 .. n - 1 : heap'[shorter[i]].crc32 # d
    <3>1. Lookup'[d] = NULL
      BY <2>1, <2>3 DEF Answers
    <3>2. \A j \in 1 .. n : j # k => heap[s[j]].crc32 # d
      BY <1>5, <1>6, <2>3
    <3>3. d # c => Lookup[d] = NULL
      BY <1>2, <2>1, <3>2 DEF Answers
    <3>4. QED
      BY <1>0, <3>1, <3>3
  <2>4. QED
    BY <2>2, <2>3
<1>16. QED
  BY <1>0, <1>13, <1>14, <1>15

\* HT_Free.
LEMMA FreeStep ==
  ASSUME TypeOK, ListInv, HT_Free
  PROVE  /\ TypeOK' /\ ListInv' /\ Lookup' = [c \in Crcs |-> NULL]
         /\ wanted' = [c \in Crcs |-> NULL]
<1>1. TypeOK'
  BY DEF HT_Free, TypeOK
<1> DEFINE nothing == [i \in 1 .. 0 |-> NULL]
<1>2. nothing \in [1 .. 0 -> Addrs] /\ 0 \in 0 .. Cardinality(Addrs)
  BY SizeOfHeap
<1>3. Chain(0, nothing)'
  BY <1>2 DEF HT_Free, Chain
<1>4. Answers(0, nothing)'
  BY <1>3, LookupAfterStep
<1>5. \A c \in Crcs : Lookup'[c] = NULL
  BY <1>4 DEF Answers
<1>6. ListInv'
  BY <1>2, <1>3 DEF ListInv
<1>7. Lookup' = [c \in Crcs |-> Lookup'[c]]
  BY DEF Lookup
<1>8. QED
  BY <1>1, <1>5, <1>6, <1>7 DEF HT_Free

-----------------------------------------------------------------------------
(* The table is a cache, step by step.                                      *)

LEMMA InitStep == Init => IndInv /\ Cache!Init
<1> SUFFICES ASSUME Init PROVE IndInv /\ Cache!Init
  OBVIOUS
<1>1. TypeOK
  BY DEF Init, TypeOK, Block
<1> DEFINE nothing == [i \in 1 .. 0 |-> NULL]
<1>2. nothing \in [1 .. 0 -> Addrs] /\ 0 \in 0 .. Cardinality(Addrs)
  BY SizeOfHeap
<1>3. Chain(0, nothing)
  BY <1>2 DEF Init, Chain
<1>4. \A c \in Crcs : Lookup[c] = NULL
  BY <1>3, LookupInTheChain DEF Answers
<1>5. Lookup = [c \in Crcs |-> Lookup[c]]
  BY DEF Lookup
<1>6. QED
  BY <1>1, <1>2, <1>3, <1>4, <1>5 DEF Init, IndInv, ListInv, Cache!Init

LEMMA GivenType ==
  ASSUME TypeOK, NEW c \in Crcs, NEW nick \in Nicks \cup {NULL}, Given(c, nick)
  PROVE  wanted' \in [Crcs -> Nicks \cup {NULL}]
BY DEF Given, TypeOK

\* A new entry is a Put that may be dropped.
LEMMA PutStep ==
  ASSUME IndInv, NEW c \in Crcs, NEW nick \in Nicks, Given(c, nick),
         Hits(c) = {}, HT_New(c, nick)
  PROVE  IndInv' /\ Cache!Put(c, nick)
<1>1. wanted' \in [Crcs -> Nicks \cup {NULL}]
  BY GivenType DEF IndInv
<1>2. QED
  BY <1>1, NewStep DEF IndInv, Cache!Put, Given

LEMMA CacheStep ==
  ASSUME IndInv, Next
  PROVE  IndInv' /\ Cache!Next
<1>1. PICK n, s : Chain(n, s)
  BY DEF IndInv, ListInv
<1>2. ASSUME NEW id \in Ids, NEW nick \in Nicks, Import(id, nick)
      PROVE  IndInv' /\ Cache!Next
  <2>1. CalcCRC32[id] \in Crcs
    OBVIOUS
  <2>2. Hits(CalcCRC32[id]) = {}
    BY <1>1, <1>2, <2>1, LookupFunction DEF Import, Lookup
  <2>3. QED
    BY <1>2, <2>1, <2>2, PutStep DEF Import, Cache!Next
<1>3. ASSUME NEW id \in Ids, NEW nick \in Nicks, HT_Set(id, nick)
      PROVE  IndInv' /\ Cache!Next
  <2> DEFINE c == CalcCRC32[id]
  <2>1. c \in Crcs /\ Given(c, nick) /\ wanted' \in [Crcs -> Nicks \cup {NULL}]
    BY <1>3, GivenType DEF HT_Set, IndInv
  <2>2. CASE Hits(c) # {}
    <3>1. /\ heap' = [heap EXCEPT ![At[Min(Hits(c))]].value = nick]
          /\ UNCHANGED <<first, last, allocated>>
      BY <1>3, <2>2 DEF HT_Set
    <3>2. TypeOK' /\ ListInv' /\ Lookup' = [Lookup EXCEPT ![c] = nick]
      BY <2>1, <2>2, <3>1, ReplaceStep DEF IndInv
    <3>3. Cache!Put(c, nick)
      BY <2>1, <3>2 DEF Cache!Put, Given
    <3>4. QED
      BY <2>1, <3>2, <3>3 DEF IndInv, Cache!Next
  <2>3. CASE Hits(c) = {}
    BY <1>3, <2>1, <2>3, PutStep DEF HT_Set, Cache!Next
  <2>4. QED
    BY <2>2, <2>3
<1>4. ASSUME NEW id \in Ids, HT_Delete(id)
      PROVE  IndInv' /\ Cache!Next
  <2> DEFINE c == CalcCRC32[id]
  <2>1. c \in Crcs /\ Given(c, NULL) /\ wanted' \in [Crcs -> Nicks \cup {NULL}]
    BY <1>4, GivenType DEF HT_Delete, IndInv
  <2>2. TypeOK' /\ ListInv' /\ Lookup' = [Lookup EXCEPT ![c] = NULL]
    <3>1. CASE Hits(c) # {}
      <4>1. Unlink(Min(Hits(c))) /\ allocated' = allocated \ {At[Min(Hits(c))]}
        BY <1>4, <3>1 DEF HT_Delete
      <4>2. QED
        BY <2>1, <3>1, <4>1, DeleteStep DEF IndInv
    <3>2. CASE Hits(c) = {}
      <4>1. UNCHANGED <<first, last, heap, allocated>>
        BY <1>4, <3>2 DEF HT_Delete
      <4>2. TypeOK' /\ ListInv' /\ Lookup' = Lookup
        BY <2>1, <4>1, NothingHappens DEF IndInv
      <4>3. Lookup[c] = NULL /\ Lookup \in [Crcs -> Nicks \cup {NULL}]
        BY <1>1, <2>1, <3>2, LookupFunction
      <4>4. QED
        BY <4>2, <4>3
    <3>3. QED
      BY <3>1, <3>2
  <2>3. Cache!Remove(c)
    BY <2>1, <2>2 DEF Cache!Remove, Given
  <2>4. QED
    BY <2>1, <2>2, <2>3 DEF IndInv, Cache!Next
<1>5. CASE HT_Free
  BY <1>5, FreeStep DEF IndInv, Cache!Next, Cache!Clear
<1>6. QED
  BY <1>2, <1>3, <1>4, <1>5 DEF Next

LEMMA CacheStutter ==
  ASSUME IndInv, UNCHANGED vars
  PROVE  IndInv' /\ UNCHANGED Cache!vars
<1>1. UNCHANGED <<first, last, heap, allocated>> /\ wanted' = wanted
  BY DEF vars
<1>2. TypeOK' /\ ListInv' /\ Lookup' = Lookup
  BY <1>1, NothingHappens DEF IndInv, TypeOK
<1>3. QED
  BY <1>1, <1>2 DEF IndInv, Cache!vars

-----------------------------------------------------------------------------
(* The theorems.                                                            *)

LEMMA TableInvariant == Spec => []IndInv
<1>1. Init => IndInv
  BY InitStep
<1>2. IndInv /\ [Next]_vars => IndInv'
  BY CacheStep, CacheStutter
<1>3. QED
  BY <1>1, <1>2, PTL DEF Spec

\* The table is type correct: in particular ht->first is NULL or a block that
\* HeapAlloc gave out and HeapFree has not taken back.
THEOREM TableTypeCorrect == Spec => []TypeOK
<1>1. IndInv => TypeOK
  BY DEF IndInv
<1>2. QED
  BY <1>1, TableInvariant, PTL

\* For any size of the heap and any reuse of freed blocks, the walk that every
\* operation of bzcchtable.c begins with ends, and sees allocated blocks only,
\* each CRC once: the pointer ht->last that HT_Delete leaves at a freed block
\* loses entries, but corrupts no list.
THEOREM WalkAlwaysSafe == Spec => []WalkIsSafe
<1>1. IndInv => WalkIsSafe
  <2> SUFFICES ASSUME IndInv PROVE WalkIsSafe
    OBVIOUS
  <2>1. PICK n, s : Chain(n, s)
    BY DEF IndInv, ListInv
  <2>2. Answers(n, s)
    BY <2>1, LookupInTheChain
  <2>3. At[Cardinality(Addrs) + 1] = NULL /\ Reachable \subseteq allocated
    BY <2>1, <2>2 DEF Answers, Chain
  <2>4. ASSUME NEW c \in Crcs PROVE Cardinality(Hits(c)) <= 1
    <3>1. CASE \E i \in 1 .. n : heap[s[i]].crc32 = c
      <4>1. PICK i \in 1 .. n : Hits(c) = {i}
        BY <2>2, <3>1 DEF Answers
      <4>2. Cardinality({i}) = 1
        BY FS_Singleton
      <4>3. QED
        BY <4>1, <4>2
    <3>2. CASE \A i \in 1 .. n : heap[s[i]].crc32 # c
      <4>1. Hits(c) = {}
        BY <2>2, <3>2 DEF Answers
      <4>2. Cardinality({}) = 0
        BY FS_EmptySet
      <4>3. QED
        BY <4>1, <4>2
    <3>3. QED
      BY <3>1, <3>2
  <2>5. QED
    BY <2>3, <2>4 DEF WalkIsSafe
<1>2. QED
  BY <1>1, TableInvariant, PTL

\* The table implements the cache of NickMap: a lookup never answers with an
\* outdated nickname or that of another CRC, HT_Delete and HT_Free forget, and
\* only an entry that is being added can be lost.
THEOREM TableImplementsCache == Spec => IsCache
<1>1. Init => Cache!Init
  BY InitStep
<1>2. IndInv /\ [Next]_vars => [Cache!Next]_(Cache!vars)
  BY CacheStep, CacheStutter
<1>3. QED
  BY <1>1, <1>2, TableInvariant, PTL DEF Spec, IsCache, Cache!Spec
=============================================================================
