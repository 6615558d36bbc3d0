------------------------------ MODULE Chunking ------------------------------
(***************************************************************************)
(* How the data-parallel helpers of fp cut n elements into chunks.  A      *)
(* helper that runs over a ThreadPool of w workers asks chunk_count for    *)
(* the number of chunks, rounds the chunk size up, and hands chunk c the   *)
(* half-open interval from Start(n, w, c) to End(n, w, c).  Indices are    *)
(* far from the width of size_t here, so they are naturals.                *)
(***************************************************************************)
EXTENDS Naturals

Least(a, b)    == IF a <= b THEN a ELSE b
Greatest(a, b) == IF a >= b THEN a ELSE b

\* detail::chunk_count: fine enough to balance skewed work, never more than one per element.
chunk_count(n, w) == Least(n, Greatest(1, w) * 4)

\* Division that rounds up, as every helper computes its chunk size.
CeilDiv(n, parts) == (n + parts - 1) \div parts

ChunkSize(n, w) == CeilDiv(n, chunk_count(n, w))

Start(n, w, c) == c * ChunkSize(n, w)
End(n, w, c)   == Least(n, Start(n, w, c) + ChunkSize(n, w))

\* Mutant: the loop runs while i <= e.
ElementsInclusive(n, w, c) == {i \in Start(n, w, c) .. End(n, w, c) : i < n}

\* for (i = s; i < e; ++i): what chunk c runs over.  It is empty when s >= n, which happens to
\* the last chunks because the size was rounded up.
Elements(n, w, c) == {i \in Start(n, w, c) .. End(n, w, c) : i < End(n, w, c)}

\* par_reduce seeds its accumulator with v[s] before it looks at the interval.
ReduceReads(n, w, c) == {Start(n, w, c)} \cup Elements(n, w, c)
=============================================================================
