--------------------------- MODULE JournalReader ---------------------------
(***************************************************************************)
(* Journal::read_published_range beside live writers.  The reader takes no *)
(* lock: it reads HEAD once and then markers and bundles one file at a     *)
(* time, while commits, recoveries and crashes of writers go on.  The      *)
(* caller is a follower whose cursor (the height and frontier it has)      *)
(* outlives the reader's own machine.                                      *)
(***************************************************************************)
EXTENDS Journal, Sequences

CONSTANTS SizeOf,      \* bundle.len(), in abstract units
          PageLimits,  \* bound: the <<max_bundles, max_bytes>> requests may carry
          NoFrontier   \* a request without expected_predecessor

ASSUME ReaderAssumption ==
    /\ SizeOf \in [Bundles -> Nat \ {0}]
    /\ PageLimits \subseteq (Nat \ {0}) \X (Nat \ {0})
    /\ NoFrontier \notin Frontiers

VARIABLES rpc,      \* the reader's next step
          request,  \* [after, expected, bundles, bytes]
          head,     \* the pin it read
          marker,   \* the marker it read last
          page,     \* the bundles of the page so far
          follower, \* the cursor of the follower: [height, frontier]
          fault     \* history: a read found the journal inconsistent

readerVars == <<rpc, request, head, marker, page, follower, fault>>

Requests ==
    [after : 0..MaxHeight, expected : Frontiers \cup {NoFrontier},
     bundles : Nat \ {0}, bytes : Nat \ {0}]

ReaderTypeOK ==
    /\ TypeOK
    /\ rpc \in {"idle", "pin", "tipMarker", "tip", "height", "bundle"}
    /\ request \in Requests
    /\ head \in Content
    /\ marker \in Content
    /\ page \in Seq(Bundles)
    /\ follower \in [height : 0..MaxHeight, frontier : Frontiers]
    /\ fault \in BOOLEAN

ReaderInit ==
    /\ Init
    /\ rpc = "idle"
    /\ request = [after |-> 0, expected |-> NoFrontier, bundles |-> 1, bytes |-> 1]
    /\ head = Absent
    /\ marker = Absent
    /\ page = <<>>
    /\ follower = [height |-> 0, frontier |-> GenesisNext]
    /\ fault = FALSE

-----------------------------------------------------------------------------
\* The follower asks for what comes after its cursor, with or without naming
\* the frontier it holds; a request outside the limits is refused unread.
BeginRead(e, n, s) ==
    /\ rpc = "idle"
    /\ rpc' = "pin"
    /\ request' = [after |-> follower.height, expected |-> e, bundles |-> n, bytes |-> s]
    /\ page' = <<>>
    /\ UNCHANGED <<head, marker, follower, fault>>

\* The read ends: with a fault, or refusing a cursor that is not on this log.
Stop(faulty) ==
    /\ rpc' = "idle"
    /\ fault' = (fault \/ faulty)
    /\ head' = Absent
    /\ marker' = Absent
    /\ page' = <<>>
    /\ UNCHANGED <<request, follower>>

NextAfter == request.after + Len(page)
BytesUsed ==
    LET sum[i \in 0..Len(page)] == IF i = 0 THEN 0 ELSE sum[i - 1] + SizeOf[page[i]]
    IN  sum[Len(page)]

\* The frontier the next bundle must extend, when one is known.
Expected ==
    IF page # <<>> THEN NextOf[page[Len(page)]]
    ELSE IF request.after = 0 THEN GenesisNext ELSE request.expected

\* The cursor is past the head, or its frontier is not the one there.
CursorConflict(pin) ==
    \/ request.after > HeightOfPin(pin)
    \/ request.after = 0 /\ request.expected \notin {NoFrontier, GenesisNext}
    \/ /\ request.after = HeightOfPin(pin)
       /\ Expected \notin {NoFrontier, FrontierOfPin(pin)}

\* Mutant: the tip is the highest marker of the index.
ReadHeadByIndex ==
    /\ rpc = "pin"
    /\ \E h \in Heights :
          /\ hdir.vis[h] \in Bundles
          /\ \A k \in Heights : k > h => hdir.vis[k] \notin Bundles
          /\ head' = hdir.vis[h]
    /\ rpc' = "tipMarker"
    /\ UNCHANGED <<request, marker, page, follower, fault>>

\* published_tip: one pin read; an absent HEAD is genesis whatever else is there.
ReadHead ==
    /\ rpc = "pin"
    /\ IF Pin = Torn \/ (Pin = Absent /\ CursorConflict(Pin))
       THEN Stop(Pin = Torn)
       ELSE /\ head' = Pin
            /\ rpc' = IF Pin = Absent THEN "height" ELSE "tipMarker"
            /\ UNCHANGED <<request, marker, page, follower, fault>>

ReadTipMarker ==
    /\ rpc = "tipMarker"
    /\ IF hdir.vis[HeightOf[head]] = head
       THEN rpc' = "tip" /\ UNCHANGED <<request, head, marker, page, follower, fault>>
       ELSE Stop(TRUE)

ReadTip ==
    /\ rpc = "tip"
    /\ IF bdir.vis[head] = head /\ ~CursorConflict(head)
       THEN rpc' = "height" /\ UNCHANGED <<request, head, marker, page, follower, fault>>
       ELSE Stop(bdir.vis[head] # head)

PageOpen == NextAfter < HeightOfPin(head) /\ Len(page) < request.bundles

\* The page is complete: the follower moves to its end.
Deliver ==
    /\ follower' = IF page = <<>> THEN follower
                   ELSE [height |-> NextAfter, frontier |-> NextOf[page[Len(page)]]]
    /\ rpc' = "idle"
    /\ head' = Absent
    /\ marker' = Absent
    /\ page' = <<>>
    /\ UNCHANGED <<request, fault>>

PageFull ==
    /\ rpc = "height"
    /\ ~PageOpen
    /\ Deliver

\* at_height for the next height; the tip was read already.
ReadMarker ==
    /\ rpc = "height"
    /\ PageOpen
    /\ LET id == IF NextAfter + 1 = HeightOfPin(head) THEN head ELSE hdir.vis[NextAfter + 1]
       IN  IF id \in Bundles
           THEN /\ marker' = id
                /\ rpc' = "bundle"
                /\ UNCHANGED <<request, head, page, follower, fault>>
           ELSE Stop(TRUE)

\* The bundle must be there, have that height and extend the frontier.  Its
\* predecessor can only disagree with the follower on the first of a page.
ReadBundle ==
    /\ rpc = "bundle"
    /\ LET whole  == bdir.vis[marker] = marker /\ HeightOf[marker] = NextAfter + 1
           linked == Expected \in {NoFrontier, PredOf[marker]}
           fits   == BytesUsed + SizeOf[marker] <= request.bytes
       IN  IF ~whole \/ ~linked \/ (~fits /\ page = <<>>)
           THEN Stop(~whole \/ (~linked /\ page # <<>>))
           ELSE IF ~fits THEN Deliver
           ELSE /\ page' = Append(page, marker)
                /\ rpc' = "height"
                /\ marker' = Absent
                /\ UNCHANGED <<request, head, follower, fault>>

ReaderStep ==
    ReadHead \/ ReadTipMarker \/ ReadTip \/ PageFull \/ ReadMarker \/ ReadBundle

Read ==
    \/ \E e \in {NoFrontier, follower.frontier}, limits \in PageLimits :
          BeginRead(e, limits[1], limits[2])
    \/ ReaderStep

\* A power loss ends the read with everything else; a writer's death does not.
ReaderNext ==
    \/ Read /\ UNCHANGED vars
    \/ LiveNext /\ UNCHANGED readerVars
    \/ PowerLoss /\ Stop(FALSE)

ReaderSpec == ReaderInit /\ [][ReaderNext]_<<vars, readerVars>>

\* The journal's own fairness; nothing obliges the follower to read.
FairReaderSpec ==
    /\ ReaderSpec
    /\ \A p \in Procs : WF_vars(Step(p))
    /\ \A p \in Procs, b \in Bundles : SF_vars(BeginCommit(p, b))

-----------------------------------------------------------------------------
\* A lock-free read never meets a journal in between two states: no missing
\* marker or bundle, no broken link, no damaged pin (SERVICE_UNAVAILABLE of the
\* public peer), however commits and recoveries interleave with it.
ReadsNeverFault == ~fault

\* What a read has collected is what the journal published: its pin and every
\* bundle of its page stand in the published log at their heights, although
\* the log may have grown since HEAD was read.
PageIsPublished ==
    rpc # "idle" =>
    /\ head \in Bundles =>
          /\ HeightOf[head] <= Len(PublishedLog)
          /\ PublishedLog[HeightOf[head]] = head
    /\ \A i \in 1..Len(page) :
          /\ request.after + i <= Len(PublishedLog)
          /\ page[i] = PublishedLog[request.after + i]

-----------------------------------------------------------------------------
(* The parts above together, as the run checks them.                       *)

\* A lock-free read beside commits, recoveries and crashes finds no half-made
\* state, and everything it has collected is published at its height.
ReadsAreSound ==
    /\ ReaderTypeOK
    /\ ReadsNeverFault
    /\ PageIsPublished
=============================================================================
