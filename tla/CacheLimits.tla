----------------------------- MODULE CacheLimits ----------------------------
(***************************************************************************)
(* Which files a cleanup of the compilation cache deletes                  *)
(* (handle_on_cache_update in crates/cache/src/worker.rs).                 *)
(***************************************************************************)
EXTENDS Naturals, Sequences, FiniteSets, FiniteSetsExt, SequencesExt

CONSTANTS
    SizeLimit, CountLimit,  \* the soft limits of the configuration
    Percent                 \* both *_limit_percent_if_deleting

ASSUME LimitsAssumption == SizeLimit \in Nat /\ CountLimit \in Nat /\ Percent \in 0..100

YoungerByMtime(tolerance, a, b) == a.mtime > b.mtime

\* Younger files first, and files from the far future last of all.
Younger(tolerance, a, b) ==
    \/ a.mtime <= tolerance /\ b.mtime > tolerance
    \/ a.mtime <= tolerance /\ b.mtime <= tolerance /\ a.mtime > b.mtime

ByAge(entries, tolerance) == SetToSortSeq(entries, LAMBDA a, b : Younger(tolerance, a, b))

Total(index, i) == FoldLeft(LAMBDA sum, e : sum + e.size, 0, SubSeq(index, 1, i))

Exceeds(index, i, percent) ==
    \/ Total(index, i) > (SizeLimit * percent) \div 100
    \/ i > (CountLimit * percent) \div 100

CutAtLimit(index) ==
    LET over == {i \in DOMAIN index : Exceeds(index, i, 100)}
    IN  IF over = {} THEN Len(index) + 1 ELSE Min(over)

\* The place in the index of recognized files where deletion starts, after its end when
\* no limit is exceeded. Unrecognized files come after it and are always deleted.
StartDelete(index) ==
    LET over == {i \in DOMAIN index : Exceeds(index, i, 100)}
    IN  IF over = {} THEN Len(index) + 1
        ELSE Min({i \in 1..Min(over) : Exceeds(index, i, Percent)})

Deleted(index) == {index[i] : i \in StartDelete(index)..Len(index)}
=============================================================================
