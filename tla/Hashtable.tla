----------------------------- MODULE Hashtable -----------------------------
(***************************************************************************)
(* lib/hashtable.c: the chained hash table a schema finds its dimensions   *)
(* by name with.  Keys are compared and hashed without regard to case, so  *)
(* a key stands for all its spellings.  Duplicate keys are allowed, the    *)
(* table grows to the next prime when its load limit is passed, and        *)
(* growing reverses the chains.  Memory is assumed not to run out.         *)
(***************************************************************************)
EXTENDS Integers, SequencesExt

CONSTANTS
  Key,      \* keys
  Hash,     \* Hash[k]: hash of a key
  Primes,   \* table lengths, increasing
  NULL

ASSUME HashtableAssumption ==
  /\ Hash \in [Key -> Nat]
  /\ Primes \in Seq(Nat \ {0}) /\ Primes # <<>>

(* ceil(length * max_load_factor), which is 0.65.                           *)
LoadLimit(length) == (65 * length + 99) \div 100

NoChains(length) == [i \in 0 .. length - 1 |-> <<>>]

(* primes[0] is greater than the 16 that create_string_hashtable asks for.  *)
CreateHashtable == [chains |-> NoChains(Primes[1]), prime |-> 1, count |-> 0]

IndexFor(length, k) == Hash[k] % length

(* A new entry goes to the head of its chain.                               *)
Chained(chains, length, e) == [chains EXCEPT ![IndexFor(length, e.k)] = <<e>> \o @]

(* The chains are emptied in order, each from its head.                     *)
Expand(h) ==
  IF h.prime = Len(Primes) THEN h
  ELSE LET length  == Primes[h.prime]
           newsize == Primes[h.prime + 1]
           entries == FlattenSeq([i \in 1 .. length |-> h.chains[i - 1]])
       IN [h EXCEPT !.prime = @ + 1,
                    !.chains = FoldLeft(LAMBDA chains, e : Chained(chains, newsize, e),
                                        NoChains(newsize), entries)]

(* Slip: the index is computed before the table grows.                      *)
InsertStale(h, k, v) ==
  LET roomy == IF h.count + 1 > LoadLimit(Primes[h.prime]) THEN Expand(h) ELSE h
  IN [roomy EXCEPT !.count = @ + 1,
                   !.chains = Chained(@, Primes[h.prime], [k |-> k, v |-> v])]

Insert(h, k, v) ==
  LET roomy == IF h.count + 1 > LoadLimit(Primes[h.prime]) THEN Expand(h) ELSE h
  IN [roomy EXCEPT !.count = @ + 1,
                   !.chains = Chained(@, Primes[roomy.prime], [k |-> k, v |-> v])]

(* The first entry of the chain with the key.                               *)
Search(h, k) ==
  LET chain == h.chains[IndexFor(Primes[h.prime], k)]
      i     == SelectInSeq(chain, LAMBDA e : e.k = k)
  IN IF i = 0 THEN NULL ELSE chain[i].v
=============================================================================
