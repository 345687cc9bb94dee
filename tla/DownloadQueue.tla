---------------------------- MODULE DownloadQueue ----------------------------
(***************************************************************************)
(* The bookkeeping the download managers share: retries is a priority      *)
(* queue of block numbers, here an ascending sequence, and the numbers not *)
(* yet asked for are found by walking up from the current height.          *)
(***************************************************************************)
EXTENDS Naturals, Sequences, FiniteSetsExt, SequencesExt

\* The first n elements of a sequence.
Upto(s, n) == SubSeq(s, 1, Min({n, Len(s)}))

\* The numbers of set S in ascending order.
Ascending(S) == SetToSortSeq(S, <)

\* prioritizedNumbers.push for each number of bns
PushAll(retries, bns) == SortSeq(retries \o bns, <)

\* getBatchFromRetries: at most cap numbers leave the queue; those at or below the
\* current height are dropped.
FromRetries(cap, cur, retries) ==
    SelectSeq(Upto(retries, cap), LAMBDA bn : bn > cur)

\* What getBatchFromRetries leaves in the queue.
RetriesLeft(cap, retries) == SubSeq(retries, Min({cap, Len(retries)}) + 1, Len(retries))

\* getBatchFromUnprocessed: the first cap numbers above the current height, up to
\* the target, that are neither requested nor processed.
FromUnprocessed(cap, cur, target, taken) ==
    Upto(Ascending(((cur + 1)..target) \ taken), cap)

=============================================================================
