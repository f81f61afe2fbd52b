-------------------------- MODULE ProposalStream --------------------------
(***************************************************************************)
(* Assembly of streamed proposals at a room node (handle_part): a stream   *)
(* is a header in slot 0, data chunks in slots 1..n, the proposer's        *)
(* signature in slot n + 1 and the transport's end marker in slot n + 2.   *)
(* The network delivers the parts of a stream in any order, any number of  *)
(* times or never; streams are keyed by the authenticated peer, so a peer  *)
(* that breaks the format does so only under its own keys.                 *)
(*                                                                         *)
(* A header is the height it proposes at (0 when valid_part_header refuses *)
(* it), a chunk is its size, a signature a name.  The batch an assembled   *)
(* stream carries is judged and recorded in RoomNode.                      *)
(***************************************************************************)
EXTENDS Integers, Sequences, FiniteSets, Functions

CONSTANTS
    ChunkBytes,    \* PROPOSAL_CHUNK_BYTES
    Traffics       \* the traffic that is considered: see traffic, below

VARIABLES
    streams,   \* App::streams: key -> state of the stream, 0 for None
    stale,     \* streams whose first part is older than STREAM_STALE
    decided,   \* height last swept
    got,       \* history: parts of an admitted sound stream since admission
    out,       \* history: assembled sound streams
    judged,    \* history: sound streams found invalid
    traffic    \* the streams and the limits; it never changes

streamVars == <<traffic, streams, stale, decided, got, out, judged>>

Sound      == traffic.sound     \* streams of sound proposers: [peer, id, height, chunks]
Rogue      == traffic.rogue     \* keys <<peer, id>> of peers that break the format
MaxBytes   == traffic.bytes     \* MAX_VALUE_BYTES
MaxStreams == traffic.streams   \* MAX_PROPOSAL_STREAMS
MaxPerPeer == traffic.perPeer   \* MAX_PROPOSAL_STREAMS_PER_PEER
MaxHeight  == traffic.height    \* bound: heights

\* MAX_PROPOSAL_CHUNKS: MAX_VALUE_BYTES.div_ceil(PROPOSAL_CHUNK_BYTES)
MaxChunks == (MaxBytes + ChunkBytes - 1) \div ChunkBytes

Key(s)      == <<s.peer, s.id>>
SoundKeys   == {Key(s) : s \in Sound}
Keys        == SoundKeys \cup Rogue
StreamOf(k) == CHOOSE s \in Sound : Key(s) = k

\* data_parts cuts a value into full chunks and a rest.
Cut(chunks, bytes) ==
               /\ Len(chunks) > 0
               /\ \A i \in 1..Len(chunks) - 1 : chunks[i] = ChunkBytes
               /\ chunks[Len(chunks)] \in 1..ChunkBytes
               /\ (Len(chunks) - 1) * ChunkBytes + chunks[Len(chunks)] <= bytes

ASSUME StreamAssumption ==
    /\ ChunkBytes \in Nat \ {0}
    /\ \A t \in Traffics :
        /\ {t.bytes, t.streams, t.perPeer, t.height} \subseteq Nat \ {0}
        /\ \A s \in t.sound : /\ Key(s) \notin t.rogue
                             /\ s.height \in 1..t.height
                             /\ s.chunks \in Seq(Nat) /\ Cut(s.chunks, t.bytes)

\* A part: its kind, the slot it claims and its content.
Part(kind, seq, body) == [kind |-> kind, seq |-> seq, body |-> body]
Signatures == {1, 2}

\* What send_part_stream emits: the header, the chunks, the signature, the
\* end marker, numbered in that order.
Parts(s) == LET n == Len(s.chunks) IN
    {Part("init", 0, s.height), Part("fin", n + 1, 1), Part("end", n + 2, 0)}
        \cup {Part("data", i, s.chunks[i]) : i \in 1..n}

RogueParts == LET slots == 0..MaxChunks + 3 IN
    {Part("init", q, h) : q \in 0..1, h \in 0..MaxHeight}
        \cup {Part("data", q, c) : q \in slots, c \in {0, 1, ChunkBytes, ChunkBytes + 1}}
        \cup {Part("fin", q, g) : q \in slots, g \in Signatures}
        \cup {Part("end", q, 0) : q \in slots}

Fresh == [init |-> 0, data |-> <<>>, len |-> 0, fin |-> 0, finSeq |-> 0, end |-> 0]

StreamInit ==
    /\ traffic \in Traffics
    /\ streams = [k \in {} |-> Fresh] /\ stale = {} /\ decided = 0
    /\ got = [k \in {} |-> {}] /\ out = {} /\ judged = {}

Live == DOMAIN streams

\* The shape send_part_stream emits, checked before anything is kept.
ShapeOk(p) ==
    CASE p.kind = "init" -> p.seq = 0 /\ p.body > 0
      [] p.kind = "data" -> p.seq \in 1..MaxChunks /\ p.body \in 1..ChunkBytes
      [] p.kind = "fin"  -> p.seq \in 2..MaxChunks + 1
      [] p.kind = "end"  -> p.seq \in 3..MaxChunks + 2

\* A new stream needs a free slot, globally and for its peer; nothing is evicted.
Admits(k) ==
    \/ k \in Live
    \/ /\ Cardinality(Live) < MaxStreams
       /\ Cardinality({l \in Live : l[1] = k[1]}) < MaxPerPeer

\* Mutant: the signature may not follow its last chunk directly.
AgreesOffByOne(s, p) ==
    CASE p.kind = "fin" -> \A i \in DOMAIN s.data : i < p.seq - 1
      [] OTHER -> TRUE

\* Whether a part agrees with what the stream already holds, whichever came first.
Agrees(s, p) ==
    CASE p.kind = "init" -> s.init \in {0, p.body}
      [] p.kind = "data" ->
           /\ s.finSeq # 0 => p.seq < s.finSeq
           /\ s.end # 0 => p.seq < s.end - 1
           /\ IF p.seq \in DOMAIN s.data THEN s.data[p.seq] = p.body
              ELSE Cardinality(DOMAIN s.data) < MaxChunks /\ s.len + p.body <= MaxBytes
      [] p.kind = "fin" ->
           /\ s.finSeq \in {0, p.seq} /\ s.fin \in {0, p.body}
           /\ s.end # 0 => p.seq = s.end - 1
           /\ \A i \in DOMAIN s.data : i < p.seq
      [] p.kind = "end" ->
           /\ s.end \in {0, p.seq}
           /\ s.finSeq # 0 => s.finSeq = p.seq - 1
           /\ \A i \in DOMAIN s.data : i < p.seq - 1

Put(s, p) ==
    CASE p.kind = "init" -> [s EXCEPT !.init = p.body]
      [] p.kind = "data" /\ p.seq \in DOMAIN s.data -> s
      [] p.kind = "data" /\ p.seq \notin DOMAIN s.data ->
           [s EXCEPT !.len = @ + p.body,
                     !.data = [i \in DOMAIN @ \cup {p.seq} |-> IF i = p.seq THEN p.body ELSE @[i]]]
      [] p.kind = "fin"  -> [s EXCEPT !.fin = p.body, !.finSeq = p.seq]
      [] p.kind = "end"  -> [s EXCEPT !.end = p.seq]

\* Mutant: a stream needs one more chunk than it has.
CompleteCrossed(s) ==
    /\ s.end # 0 /\ s.init # 0 /\ s.finSeq = s.end - 1
    /\ Cardinality(DOMAIN s.data) + 1 = s.end

Complete(s) ==
    /\ s.end # 0 /\ s.init # 0
    /\ s.finSeq = s.end - 1
    /\ DOMAIN s.data = 1..s.end - 2

\* assemble: the chunks in slot order.
Assemble(s) == [height |-> s.init, chunks |-> [i \in 1..Cardinality(DOMAIN s.data) |-> s.data[i]], fin |-> s.fin]

Forget(K) == /\ streams' = Restrict(streams, Live \ K)
             /\ stale' = stale \ K
             /\ got' = Restrict(got, DOMAIN got \ K)

\* Mutant: a full table makes room by dropping another stream.
RefuseEvicts(k) == /\ \E l \in Live : Forget({l})
                   /\ UNCHANGED <<out, judged>>

Refuse(k) == UNCHANGED <<streams, stale, got, out, judged>>

Judge(k) == /\ Forget({k})
            /\ judged' = judged \cup ({k} \cap SoundKeys)
            /\ UNCHANGED out

\* handle_part.  complete_part_stream goes on with what is assembled.
HandlePart(k, p) ==
    LET s == IF k \in Live THEN streams[k] ELSE Fresh
        t == Put(s, p)
    IN /\ UNCHANGED decided
       /\ CASE ~ShapeOk(p) -> Judge(k)
            [] ShapeOk(p) /\ ~Admits(k) -> Refuse(k)
            [] ShapeOk(p) /\ Admits(k) /\ ~Agrees(s, p) -> Judge(k)
            [] ShapeOk(p) /\ Admits(k) /\ Agrees(s, p) /\ Complete(t) ->
                 /\ Forget({k})
                 /\ out' = IF k \in SoundKeys THEN out \cup {<<k, Assemble(t)>>} ELSE out
                 /\ UNCHANGED judged
            [] OTHER ->
                 /\ streams' = [l \in Live \cup {k} |-> IF l = k THEN t ELSE streams[l]]
                 /\ got' = IF k \notin SoundKeys THEN got
                           ELSE [l \in DOMAIN got \cup {k} |->
                                   IF l # k THEN got[l]
                                   ELSE {p} \cup (IF k \in DOMAIN got THEN got[k] ELSE {})]
                 /\ UNCHANGED <<stale, out, judged>>

\* The network delivers a part of a sound stream, again or for the first time.
Deliver(k) == \E p \in Parts(StreamOf(k)) : HandlePart(k, p)

DeliverRogue(k) == \E p \in RogueParts : HandlePart(k, p)

\* STREAM_STALE passes since the first part of a stream.
Age(k) == /\ k \in Live /\ k \notin stale
          /\ stale' = stale \cup {k}
          /\ UNCHANGED <<streams, decided, got, out, judged>>

\* expire_streams, on every tick of the loop.
ExpireStreams == stale # {} /\ Forget(stale) /\ UNCHANGED <<decided, out, judged>>

\* sweep_decided, after a commit.
SweepDecided ==
    /\ decided < MaxHeight
    /\ decided' = decided + 1
    /\ Forget({k \in Live : streams[k].init \in 1..decided + 1})
    /\ UNCHANGED <<out, judged>>

StreamNext ==
    /\ UNCHANGED traffic
    /\ \/ \E k \in SoundKeys : Deliver(k)
       \/ \E k \in Rogue : DeliverRogue(k)
       \/ \E k \in Keys : Age(k)
       \/ ExpireStreams
       \/ SweepDecided

StreamSpec == StreamInit /\ [][StreamNext]_streamVars

-----------------------------------------------------------------------------

\* Types, and the memory the limits promise: at most MAX_PROPOSAL_STREAMS
\* streams, MAX_PROPOSAL_STREAMS_PER_PEER of one peer, each of at most
\* MAX_PROPOSAL_CHUNKS chunks of MAX_VALUE_BYTES together, whatever is sent.
StreamTypeOK ==
    /\ Live \subseteq Keys /\ stale \subseteq Live /\ decided \in 0..MaxHeight
    /\ DOMAIN got = Live \cap SoundKeys
    /\ Cardinality(Live) <= MaxStreams
    /\ \A peer \in {k[1] : k \in Keys} : Cardinality({k \in Live : k[1] = peer}) <= MaxPerPeer
    /\ \A k \in Live : LET s == streams[k] IN
         /\ s.init \in 0..MaxHeight /\ s.fin \in Signatures \cup {0}
         /\ s.finSeq \in {0} \cup 2..MaxChunks + 1 /\ s.end \in {0} \cup 3..MaxChunks + 2
         /\ DOMAIN s.data \subseteq 1..MaxChunks
         /\ s.len = SumFunction(s.data) /\ s.len <= MaxBytes

\* A stream whose parts agree with each other is never found invalid, in
\* whatever order they come and however often: the conflict tests of
\* handle_part compare each part with every part that may precede it.
SoundNeverRejected == judged = {}

\* A sound stream is assembled by the last of its parts to arrive, whichever
\* that is: none is left waiting with every slot filled, as the comment on
\* handle_part promises ("even when the marker arrives first").
AllPartsComplete == \A k \in DOMAIN got : got[k] # Parts(StreamOf(k))

\* What is assembled under a sound key is the proposer's value: its header, all
\* of its chunks in emission order and its signature.
AssembledExact == \A o \in out : LET s == StreamOf(o[1]) IN
    o[2] = [height |-> s.height, chunks |-> s.chunks, fin |-> 1]

\* An admitted sound stream leaves the table only when its last part arrives,
\* when it has outlived STREAM_STALE or when its height is decided: no other
\* peer's stream and no full table costs it its place (handle_part, "New
\* streams cannot evict another peer's live work").
NotEvicted == [][\A k \in DOMAIN got \ DOMAIN got' :
                    \/ Cardinality(Parts(StreamOf(k)) \ got[k]) = 1
                    \/ k \in stale
                    \/ streams[k].init \in 1..decided']_streamVars

-----------------------------------------------------------------------------
(* The parts above together, as the run checks them.                       *)

\* Within its bounds, the table takes every part of a sound proposal.
SoundIsTaken ==
    /\ StreamTypeOK
    /\ SoundNeverRejected

\* A stream is assembled when all its parts are there, exactly as they were sent.
AssemblyIsExact ==
    /\ AllPartsComplete
    /\ AssembledExact
=============================================================================
