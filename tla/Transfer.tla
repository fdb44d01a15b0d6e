------------------------------ MODULE Transfer ------------------------------
(***************************************************************************)
(* Chunked transfers: how core/chunker.py splits a payload and how         *)
(* core/reassembler.py puts the chunks together again, whatever the order  *)
(* in which they arrive, with repetitions, several transfers at a time,    *)
(* and a timeout.  The chunks come from peers: send_chunked itself fails   *)
(* on a TPCPNode, whose send_message cannot sign chunk_info (see CanSign   *)
(* in Inbound).  Time is kept as ages, up to Timeout + 1.                  *)
(***************************************************************************)
EXTENDS Integers, Sequences, SequencesExt

CONSTANTS
    Transfers,       \* transfer ids
    Size,            \* Size[t]: length of the payload of t, in bytes
    ChunkSize,       \* chunk_size_bytes
    Timeout,         \* timeout_seconds
    MaxChunkArrivals \* bound: calls of ingest

VARIABLES
    chunks,   \* _chunks: transfer |-> list of <<index, bytes>>
    received, \* _received_indices
    total,    \* _total_chunks
    stamp,    \* _timestamps, as ages
    results,  \* ghost: what ingest has returned, as <<transfer, bytes>>
    elapsed,  \* ghost: time since a transfer's first chunk arrived, -1 before
    inTime,   \* ghost: indices that arrived within Timeout of it
    ingests   \* bound counter

vars == <<chunks, received, total, stamp, results, elapsed, inTime, ingests>>

-----------------------------------------------------------------------------
(* send_chunked *)

Payload(t) == [k \in 1..Size[t] |-> <<t, k>>]

\* math.ceil(len(payload_bytes) / chunk_size_bytes)
TotalChunks(t) == (Size[t] + ChunkSize - 1) \div ChunkSize
Indices(t) == 0..(TotalChunks(t) - 1)

\* payload_bytes[start:end]
Chunk(t, i) ==
    LET start == i * ChunkSize
        end == Min({start + ChunkSize, Size[t]})
    IN  SubSeq(Payload(t), start + 1, end)

-----------------------------------------------------------------------------
(* ChunkReassembler *)

Init ==
    /\ chunks = <<>> /\ received = <<>> /\ total = <<>> /\ stamp = <<>>
    /\ results = {}
    /\ elapsed = [t \in Transfers |-> -1]
    /\ inTime = [t \in Transfers |-> {}]
    /\ ingests = 0

Only(f, S) == [t \in DOMAIN f \cap S |-> f[t]]
Put(f, t, v) == [u \in DOMAIN f \cup {t} |-> IF u = t THEN v ELSE f[u]]
Get(f, t, default) == IF t \in DOMAIN f THEN f[t] ELSE default

\* Mutant: a transfer is stale as soon as it reaches the timeout.
NotStaleAtTimeout == {t \in Transfers : t \in DOMAIN stamp => stamp[t] < Timeout}

\* _purge_stale keeps what is not older than timeout_seconds.
NotStale == {t \in Transfers : t \in DOMAIN stamp => stamp[t] <= Timeout}

Purge == <<Only(chunks, NotStale), Only(received, NotStale),
           Only(total, NotStale), Only(stamp, NotStale)>>

Keep(b) == chunks' = b[1] /\ received' = b[2] /\ total' = b[3] /\ stamp' = b[4]

Ingests ==
    /\ ingests < MaxChunkArrivals /\ ingests' = ingests + 1

\* Ghosts: chunk i of t has arrived.
Notes(t, i) ==
    /\ elapsed' = [elapsed EXCEPT ![t] = IF @ = -1 THEN 0 ELSE @]
    /\ inTime' = [inTime EXCEPT ![t] = IF elapsed[t] <= Timeout THEN @ \cup {i} ELSE @]

\* A chunk envelope without data_base64, or whose index is out of range, is
\* skipped, after the purge.
IngestWithoutData ==
    /\ Ingests
    /\ Keep(Purge)
    /\ UNCHANGED <<results, elapsed, inTime>>

IngestDuplicate(t, i) ==
    /\ Ingests
    /\ i \in Get(Only(received, NotStale), t, {})
    /\ Keep(Purge)
    /\ Notes(t, i)
    /\ UNCHANGED results

\* Mutant: the indices received so far outlive a finished transfer.
ForgetKeepsIndices(b, t) ==
    <<Only(b[1], Transfers \ {t}), b[2], Only(b[3], Transfers \ {t}), Only(b[4], Transfers \ {t})>>

\* The four dictionaries without t.
Forget(b, t) == [k \in 1..4 |-> Only(b[k], Transfers \ {t})]

\* Mutant: the chunks are joined in the order of arrival.
JoinUnsorted(list) == FoldLeft(LAMBDA bytes, c : bytes \o c[2], <<>>, list)

\* sorted(..., key=lambda x: x[0])
Sorted(list) ==
    LET order == CHOOSE p \in Bijection(DOMAIN list, DOMAIN list) :
                     \A j, k \in DOMAIN list : j < k => list[p[j]][1] <= list[p[k]][1]
    IN  [k \in DOMAIN list |-> list[order[k]]]

\* b"".join
Join(list) == FoldLeft(LAMBDA bytes, c : bytes \o c[2], <<>>, Sorted(list))

\* A new chunk is filed; the transfer's timestamp and total are those of its
\* first one.  The last one missing completes it.
IngestNew(t, i) ==
    LET p == Purge
        have == Get(p[2], t, {}) \cup {i}
        list == Append(Get(p[1], t, <<>>), <<i, Chunk(t, i)>>)
        filed == <<Put(p[1], t, list), Put(p[2], t, have),
                   Put(p[3], t, Get(p[3], t, TotalChunks(t))), Put(p[4], t, Get(p[4], t, 0))>>
    IN  /\ Ingests
        /\ i \notin Get(p[2], t, {})
        /\ Notes(t, i)
        /\ IF have = Indices(t)
           THEN /\ results' = results \cup {<<t, Join(list)>>}
                /\ Keep(Forget(filed, t))
           ELSE Keep(filed) /\ UNCHANGED results

Tick ==
    /\ stamp' = [t \in DOMAIN stamp |-> Min({stamp[t] + 1, Timeout + 1})]
    /\ elapsed' = [t \in Transfers |-> IF elapsed[t] = -1 THEN -1 ELSE Min({elapsed[t] + 1, Timeout + 1})]
    /\ UNCHANGED <<chunks, received, total, results, inTime, ingests>>

Next ==
    \/ \E t \in Transfers : \E i \in Indices(t) : IngestNew(t, i) \/ IngestDuplicate(t, i)
    \/ IngestWithoutData
    \/ Tick

-----------------------------------------------------------------------------
(* Properties *)

\* RFC-001, "Chunks MAY arrive out of order": ingest returns the payload that
\* was split, whatever the order, and however chunks were repeated or earlier
\* attempts purged.
Exact == \A r \in results : r[2] = Payload(r[1])

\* RFC-001, "If reassembly is not complete within 60 seconds of the first chunk,
\* the transfer is abandoned": not sooner.  A transfer all of whose chunks came
\* within the timeout of the first has been handed over.
InTimeIsDelivered ==
    \A t \in Transfers : inTime[t] = Indices(t) => \E r \in results : r[1] = t

\* The four dictionaries have the same keys: _purge_stale finds a transfer by
\* its timestamp only, and would never free the others.
BooksAgree ==
    /\ DOMAIN chunks = DOMAIN stamp /\ DOMAIN received = DOMAIN stamp /\ DOMAIN total = DOMAIN stamp
    /\ \A t \in DOMAIN stamp :
           received[t] = {chunks[t][k][1] : k \in DOMAIN chunks[t]} /\ received[t] # Indices(t)
=============================================================================
