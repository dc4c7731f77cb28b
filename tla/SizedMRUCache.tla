---------------------------- MODULE SizedMRUCache ----------------------------
(***************************************************************************)
(* The cache of program binaries: SizedMRUCache (src/libANGLE/             *)
(* SizedMRUCache.h) over the most-recently-used list of the base library.  *)
(* A cache is a record of its limit mMaximumTotalSize, its own account of  *)
(* what it holds, mCurrentSize, and mStore, the entries from the most to   *)
(* the least recently used one.                                            *)
(***************************************************************************)
EXTENDS Integers, SequencesExt

NewCache(maximumTotalSize) ==
    [mMaximumTotalSize |-> maximumTotalSize, mCurrentSize |-> 0, mStore |-> << >>]

Has(c, key) == \E i \in DOMAIN c.mStore : c.mStore[i].key = key

\* What the list's index has for a key that is there.
Position(c, key) == CHOOSE i \in DOMAIN c.mStore : c.mStore[i].key = key

Peek(c, key) == c.mStore[Position(c, key)]

Others(c, key) == RemoveAt(c.mStore, Position(c, key))

\* What is found becomes the most recently used.
get(c, key) == IF Has(c, key) THEN [c EXCEPT !.mStore = <<Peek(c, key)>> \o Others(c, key)] ELSE c

\* Mutant: the size of an entry that goes stays on the account.
eraseByKeySizeKept(c, key) == IF Has(c, key) THEN [c EXCEPT !.mStore = Others(c, key)] ELSE c

eraseByKey(c, key) ==
    IF Has(c, key)
    THEN [c EXCEPT !.mStore = Others(c, key), !.mCurrentSize = @ - Peek(c, key).size]
    ELSE c

clear(c) == [c EXCEPT !.mStore = << >>, !.mCurrentSize = 0]

resize(c, maximumTotalSize) == [clear(c) EXCEPT !.mMaximumTotalSize = maximumTotalSize]

Sizes(store) == FoldSeq(LAMBDA e, sum : sum + e.size, 0, store)

\* The n least recently used entries go.
Evict(c, n) ==
    LET kept == Len(c.mStore) - n
    IN  [c EXCEPT !.mStore = SubSeq(@, 1, kept),
                  !.mCurrentSize = @ - Sizes(SubSeq(c.mStore, kept + 1, Len(c.mStore)))]

\* Evicts while the account is above the limit.
shrinkToSize(c, limit) ==
    Evict(c, Min({n \in 0 .. Len(c.mStore) : Evict(c, n).mCurrentSize <= limit \/ n = Len(c.mStore)}))

\* Nothing happens to an entry that is too large, nor to one that it was to replace.
put(c, entry) ==
    LET erased == eraseByKey(c, entry.key)
        stored == [erased EXCEPT !.mStore = <<entry>> \o @, !.mCurrentSize = @ + entry.size]
    IN  IF entry.size > c.mMaximumTotalSize THEN c
        ELSE shrinkToSize(stored, c.mMaximumTotalSize)
===============================================================================
