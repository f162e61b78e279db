----------------------------- MODULE Hashtable ------------------------------
(***************************************************************************)
(* fast_hashtable.c: buckets of links the program owns.  A link goes to    *)
(* the head of its bucket; links of one key are not told apart, and the    *)
(* newest hides the others until it is removed.  joined is what the table  *)
(* promises: the links in it, the newest first.                            *)
(***************************************************************************)
EXTENDS FastMath, SequencesExt

CONSTANTS
  HashLinks, HashKeys,
  HashSizes,      \* hash_sz of fast_hashtable_create; 0 is the default
  DEFAULT_SIZE,
  Hash,           \* key -> what the hash function computes before % size
  Equal,          \* key -> the keys the program's cmp takes for it
  NULL

VARIABLES
  table,          \* size, buckets, count; or NULL
  link,           \* link -> [key, next]
  joined,         \* ghost
  given           \* ghost: the links fast_hashtable_free_items gave to its function

hash_vars == <<table, link, joined, given>>

HashInit ==
  /\ table = NULL
  /\ link = [l \in HashLinks |-> [key |-> NULL, next |-> NULL]]
  /\ joined = << >>
  /\ given = {}

BucketOf(k) == Hash[k] % table.size

TableSize(sz) == IF sz = 0 THEN DEFAULT_SIZE ELSE FindPrime(sz)

Tables(n) == [size : {n}, buckets : [0 .. n - 1 -> HashLinks \cup {NULL}], count : Int]

(* FindPrime finds one - Bertrand's postulate, for the sizes asked for -   *)
(* and NULL is no link and no table.                                       *)
HashAssumption ==
  /\ IsFiniteSet(HashLinks) /\ NULL \notin HashLinks
  /\ Hash \in [HashKeys -> Nat]
  /\ \A sz \in HashSizes : TableSize(sz) \in Nat \ {0} /\ NULL \notin Tables(TableSize(sz))

(* The links a loop over bucket i meets one after the other, and NULL      *)
(* behind the last.                                                        *)
Walk(i) ==
  LET nth[n \in 1 .. Cardinality(HashLinks) + 1] ==
        IF n = 1 THEN table.buckets[i]
        ELSE IF nth[n - 1] = NULL THEN NULL ELSE link[nth[n - 1]].next
  IN  nth

Bucket(i) == ToSet(Walk(i)) \ {NULL}

-----------------------------------------------------------------------------
(* fast_hashtable_create, fast_hashtable_init: a table or, when memory     *)
(* fails, nothing.                                                         *)
HashCreate == \E sz \in HashSizes :
  LET size == TableSize(sz)
  IN  /\ table = NULL
      /\ table' = [size |-> size, buckets |-> [i \in 0 .. size - 1 |-> NULL], count |-> 0]
      /\ UNCHANGED <<link, joined, given>>

Free == HashLinks \ ToSet(joined)

(* fast_hashtable_join of a link that is in no bucket. *)
Join == \E l \in Free : \E k \in HashKeys :
  LET i == BucketOf(k)
  IN  /\ given = {}
      /\ link' = [link EXCEPT ![l] = [key |-> k, next |-> table.buckets[i]]]
      /\ table' = [table EXCEPT !.buckets[i] = l, !.count = @ + 1]
      /\ joined' = <<l>> \o joined
      /\ UNCHANGED given

(* Mutated form: count is left when the link is not the first. *)
RemoveLink_CountFirst == \E n \in DOMAIN joined :
  LET l     == joined[n]
      i     == BucketOf(link[l].key)
      prevs == {m \in Bucket(i) : link[m].next = l}
  IN  /\ given = {} /\ l \in Bucket(i)
      /\ IF table.buckets[i] = l
         THEN /\ table' = [table EXCEPT !.buckets[i] = link[l].next, !.count = @ - 1]
              /\ UNCHANGED link
         ELSE /\ link' = [m \in HashLinks |->
                            IF m \in prevs THEN [link[m] EXCEPT !.next = link[l].next]
                            ELSE link[m]]
              /\ UNCHANGED table
      /\ joined' = RemoveAt(joined, n)
      /\ UNCHANGED given

(* fast_hashtable_remove_link *)
RemoveLink == \E n \in DOMAIN joined :
  LET l     == joined[n]
      i     == BucketOf(link[l].key)
      prevs == {m \in Bucket(i) : link[m].next = l}
  IN  /\ given = {} /\ l \in Bucket(i)
      /\ IF table.buckets[i] = l
         THEN /\ table' = [table EXCEPT !.buckets[i] = link[l].next, !.count = @ - 1]
              /\ UNCHANGED link
         ELSE /\ link' = [m \in HashLinks |->
                            IF m \in prevs THEN [link[m] EXCEPT !.next = link[l].next]
                            ELSE link[m]]
              /\ table' = [table EXCEPT !.count = @ - 1]
      /\ joined' = RemoveAt(joined, n)
      /\ UNCHANGED given

(* fast_hashtable_free_items: its function gets every link, and the        *)
(* buckets still point to them; the table is good for free_memory only.    *)
FreeItems ==
  LET all == UNION {Bucket(i) : i \in DOMAIN table.buckets}
  IN  /\ given = {} /\ all # {}
      /\ given' = all
      /\ table' = [table EXCEPT !.count = @ - Cardinality(all)]
      /\ UNCHANGED <<link, joined>>

(* fast_hashtable_free_memory; links that are still in are the program's.  *)
FreeMemory ==
  /\ table' = NULL
  /\ link' = [l \in HashLinks |-> [key |-> NULL, next |-> NULL]]
  /\ joined' = << >> /\ given' = {}

HashNext ==
  \/ HashCreate
  \/ table # NULL /\ (Join \/ RemoveLink \/ FreeItems \/ FreeMemory)

(* fast_hashtable_lookup *)
Lookup(k) ==
  LET walk == Walk(BucketOf(k))
      hits == {n \in DOMAIN walk : walk[n] # NULL /\ link[walk[n]].key \in Equal[k]}
  IN  IF hits = {} THEN NULL ELSE walk[Min(hits)]

-----------------------------------------------------------------------------
(* Where a link stands: bucket and position. *)
PlacesOf(l) == {p \in (DOMAIN table.buckets) \X (1 .. Cardinality(HashLinks) + 1) :
                  Walk(p[1])[p[2]] = l}

(* lookup gives the newest link whose key the program's cmp takes for the  *)
(* one it looks for: of those in the same bucket when keys that cmp cannot *)
(* tell apart (a key and a longer one that begins with it) have different  *)
(* hashes.                                                                 *)
NewestFound ==
  table # NULL /\ given = {} => \A k \in HashKeys :
    LET same == {n \in DOMAIN joined : /\ link[joined[n]].key \in Equal[k]
                                       /\ BucketOf(link[joined[n]].key) = BucketOf(k)}
    IN  Lookup(k) = IF same = {} THEN NULL ELSE joined[Min(same)]

(* Every link that was joined and not removed is in exactly one bucket,    *)
(* once, and counted; the function of free_items gets each of them, and    *)
(* the table is empty for fast_hashtable_empty.                            *)
BucketsExact ==
  table # NULL =>
    /\ given = {} => table.count = Len(joined)
    /\ given # {} => table.count = 0 /\ given = ToSet(joined)
    /\ \A l \in ToSet(joined) : Cardinality(PlacesOf(l)) = 1
    /\ \A i \in DOMAIN table.buckets : Bucket(i) \subseteq ToSet(joined)
=============================================================================
