----------------------------- MODULE RelayScan -----------------------------
(***************************************************************************)
(* ScanDirectory: the directory into which a member copies its relay       *)
(* mailbox, item by item, with a cursor over what is published.  One       *)
(* process holds its lock from open to drop; the guard survives a timeout  *)
(* and may scan again.  The mailbox only grows, and the item at a position *)
(* is that position.                                                       *)
(*                                                                         *)
(* Two directories: root holds the namespace binding, the cursor and the   *)
(* sweep signature, items holds the items.  One action is one file or      *)
(* directory call; a file that was cut inside its write is a prefix.       *)
(***************************************************************************)
EXTENDS Integers, FiniteSets, FiniteSetsExt, DurableDir

CONSTANTS MaxItems,   \* bound: items in the mailbox
          Limit,      \* items of a page
          MaxScanFaults \* bound: errors, deaths and power losses

ASSUME ScanAssumption == MaxItems \in Nat /\ Limit \in Nat \ {0} /\ MaxScanFaults \in Nat

NAMESPACE == "namespace"
NAMESPACE_TMP == "namespace.tmp"
CURSOR == "cursor"
CURSOR_TMP == "cursor.tmp"
SIGNATURE == "signature"
SIGNATURE_TMP == "signature.tmp"
ITEM_TMP == 0      \* items/item.tmp; items/<position>.vhrelay is its position

RootNames == {NAMESPACE, NAMESPACE_TMP, CURSOR, CURSOR_TMP, SIGNATURE, SIGNATURE_TMP}
ItemNames == 0..MaxItems

\* Files: a position (cursor or item), the binding, or a signature, whole or cut.
Whole(v) == [whole |-> v]
Cut(v)   == [cut |-> v]
Binding  == Whole(-1)
Signed(entries, c) == Whole([entries |-> entries, cursor |-> c])

PrefixOf(file, v) == file \in {Whole(v), Cut(v)}

\* No file is the absence of one.
ASSUME AbsentIsNoFile == \A v \in -1..MaxItems : Absent \notin {Whole(v), Cut(v)}

VARIABLES root, items,   \* the two directories
          scanPc,        \* "closed", "open" or the next step of the call
          cursor,        \* ScanDirectory::cursor
          upto,          \* last position of the page in hand
          target,        \* first observed head of this scan, 0 before it
          head,          \* head of the mailbox
          bound,         \* history: an open has returned
          reported,      \* history: largest cursor of a returned report
          verdict,       \* "none", or the closed failure that was answered
          scanFaults

scanVars == <<root, items, scanPc, cursor, upto, target, head, bound, reported, verdict, scanFaults>>

Steps == {"bindSync", "bindRename", "bindDir", "rootSync", "positions",
          "sigSync", "sigRename", "sigDir", "page", "item", "itemSync", "itemRename",
          "itemsDir", "cursor", "cursorSync", "cursorRename", "cursorDir", "pageEnd"}

ScanInit ==
    /\ root = Stored([n \in RootNames |-> Absent])
    /\ items = Stored([n \in ItemNames |-> Absent])
    /\ scanPc = "closed"
    /\ cursor = 0
    /\ upto = 0
    /\ target = 0
    /\ head = 0
    /\ bound = FALSE
    /\ reported = 0
    /\ verdict = "none"
    /\ scanFaults = 0

-----------------------------------------------------------------------------
(* What the maps r of root and d of items say.                             *)

Has(m, n) == m[n] # Absent

\* read_cursor; -1 for a file that is not eight bytes
CursorOf(r) == CASE ~Has(r, CURSOR) -> 0
                 [] Has(r, CURSOR) /\ "whole" \in DOMAIN r[CURSOR] -> r[CURSOR].whole
                 [] OTHER -> -1

\* validate_cursor_pending: a scratch cursor is a prefix of the next position,
\* whose item is published
PendingIsSound(r, d, c) ==
    Has(r, CURSOR_TMP) =>
        /\ c + 1 \in ItemNames
        /\ PrefixOf(r[CURSOR_TMP], c + 1)
        /\ Has(d, c + 1)

\* items_signature
SignatureOf(d, c) == Signed(Cardinality({n \in ItemNames : Has(d, n)}), c)

\* the sweep of positions: every item up to the cursor, and at most the next one
Contiguous(d, c) ==
    LET here == {n \in ItemNames \ {ITEM_TMP} : Has(d, n)} IN
    /\ 1..c \subseteq here
    /\ here \subseteq 1..(c + 1)

\* open_from of a directory whose lock is free, up to the returned guard
Opens(r, d) ==
    /\ r[NAMESPACE] = Binding
    /\ CursorOf(r) >= 0
    /\ PendingIsSound(r, d, CursorOf(r))
    /\ Contiguous(d, CursorOf(r))

-----------------------------------------------------------------------------
Goto(from, to) == scanPc = from /\ scanPc' = to

cursorVars == <<cursor, upto, target>>
histVars == <<bound, reported, scanFaults>>

\* a check of the call: it goes on with step, or answers v and stays as it was
Check(ok, v, step) ==
    IF ok THEN step ELSE /\ verdict' = v
                         /\ scanPc' = IF scanPc = "positions" THEN "closed" ELSE "open"
                         /\ UNCHANGED <<root, items, cursorVars, head, histVars>>

\* open_from: a bound directory, an empty one, or neither
OpenBound ==
    /\ Goto("closed", "rootSync")
    /\ root.vis[NAMESPACE] = Binding
    /\ UNCHANGED <<root, items, cursorVars, head, histVars, verdict>>

OpenFresh ==
    /\ Goto("closed", "bindSync")
    /\ \A n \in RootNames : ~Has(root.vis, n)
    /\ root' = Write(root, NAMESPACE_TMP, Binding)
    /\ UNCHANGED <<items, cursorVars, head, histVars, verdict>>

OpenLegacy ==
    /\ scanPc = "closed"
    /\ root.vis[NAMESPACE] # Binding
    /\ \E n \in RootNames : Has(root.vis, n)
    /\ verdict' = "Legacy"
    /\ UNCHANGED <<root, items, scanPc, cursorVars, head, histVars>>

BindSync ==
    /\ Goto("bindSync", "bindRename")
    /\ root' = SyncFile(root, NAMESPACE_TMP)
    /\ UNCHANGED <<items, cursorVars, head, histVars, verdict>>

BindRename ==
    /\ Goto("bindRename", "bindDir")
    /\ root' = Rename(root, NAMESPACE_TMP, NAMESPACE)
    /\ UNCHANGED <<items, cursorVars, head, histVars, verdict>>

BindDir ==
    /\ Goto("bindDir", "rootSync")
    /\ root' = SyncDir(root)
    /\ UNCHANGED <<items, cursorVars, head, histVars, verdict>>

\* every open forces what an earlier run left visible, then reads the cursor
RootSync ==
    /\ Goto("rootSync", "positions")
    /\ root' = SyncDir(root)
    /\ cursor' = CursorOf(root.vis)
    /\ target' = 0
    /\ UNCHANGED <<items, upto, head, histVars, verdict>>

\* positions: the fast path of an unchanged signature
PositionsIdle ==
    /\ Goto("positions", "open")
    /\ cursor >= 0 /\ PendingIsSound(root.vis, items.vis, cursor)
    /\ root.vis[SIGNATURE] = SignatureOf(items.vis, cursor)
    /\ bound' = TRUE
    /\ UNCHANGED <<root, items, cursorVars, head, reported, scanFaults, verdict>>

\* or the sweep, whose signature is then written through a scratch
PositionsSweep ==
    /\ scanPc = "positions"
    /\ Check(Opens(root.vis, items.vis), "Corrupt",
             /\ scanPc' = "sigSync"
             /\ root' = Write(Delete(root, SIGNATURE_TMP), SIGNATURE_TMP,
                              SignatureOf(items.vis, cursor))
             /\ UNCHANGED <<items, cursorVars, head, histVars, verdict>>)

SigSync ==
    /\ Goto("sigSync", "sigRename")
    /\ root' = SyncFile(root, SIGNATURE_TMP)
    /\ UNCHANGED <<items, cursorVars, head, histVars, verdict>>

SigRename ==
    /\ Goto("sigRename", "sigDir")
    /\ root' = Rename(root, SIGNATURE_TMP, SIGNATURE)
    /\ UNCHANGED <<items, cursorVars, head, histVars, verdict>>

SigDir ==
    /\ Goto("sigDir", "open")
    /\ root' = SyncDir(root)
    /\ bound' = TRUE
    /\ UNCHANGED <<items, cursorVars, head, reported, scanFaults, verdict>>

-----------------------------------------------------------------------------
(* A scan.                                                                 *)

\* Mutant: the head is taken for the position after the last item.
FetchBelowHead ==
    /\ scanPc \in {"open", "page"}
    /\ LET goal == IF scanPc = "page" THEN target ELSE Max({head - 1, cursor})
           last == Min({cursor + Limit, head, goal})
       IN
       /\ target' = goal
       /\ upto' = last
       /\ scanPc' = IF last > cursor THEN "item" ELSE "pageEnd"
    /\ UNCHANGED <<root, items, cursor, head, histVars, verdict>>

\* scan_pages asks for a page after the cursor; its first head is the target
Fetch ==
    /\ scanPc \in {"open", "page"}
    /\ LET goal == IF scanPc = "page" THEN target ELSE head
           last == Min({cursor + Limit, head, goal})
       IN
       /\ target' = goal
       /\ upto' = last
       /\ scanPc' = IF last > cursor THEN "item" ELSE "pageEnd"
    /\ UNCHANGED <<root, items, cursor, head, histVars, verdict>>

\* publish_item: an item that is already there only needs its barrier
ItemPresent ==
    /\ scanPc = "item"
    /\ Has(items.vis, cursor + 1)
    /\ Check(items.vis[cursor + 1] = Whole(cursor + 1), "Corrupt",
             /\ scanPc' = "cursor"
             /\ items' = SyncDir(items)
             /\ UNCHANGED <<root, cursorVars, head, histVars, verdict>>)

\* Mutant: any scratch is taken for another mailbox's evidence.
ItemWriteStrict ==
    /\ scanPc = "item"
    /\ ~Has(items.vis, cursor + 1)
    /\ Check(~Has(items.vis, ITEM_TMP), "Corrupt",
             /\ scanPc' = "itemSync"
             /\ items' = Write(items, ITEM_TMP, Whole(cursor + 1))
             /\ UNCHANGED <<root, cursorVars, head, histVars, verdict>>)

\* a scratch that is a prefix of this very item is replaced
ItemWrite ==
    /\ scanPc = "item"
    /\ ~Has(items.vis, cursor + 1)
    /\ Check(Has(items.vis, ITEM_TMP) => PrefixOf(items.vis[ITEM_TMP], cursor + 1), "Corrupt",
             /\ scanPc' = "itemSync"
             /\ items' = Write(Delete(items, ITEM_TMP), ITEM_TMP, Whole(cursor + 1))
             /\ UNCHANGED <<root, cursorVars, head, histVars, verdict>>)

\* Mutant: the item is renamed without a barrier on its bytes.
ItemSyncSkipped ==
    /\ Goto("itemSync", "itemRename")
    /\ UNCHANGED <<items, root, cursorVars, head, histVars, verdict>>

ItemSync ==
    /\ Goto("itemSync", "itemRename")
    /\ items' = SyncFile(items, ITEM_TMP)
    /\ UNCHANGED <<root, cursorVars, head, histVars, verdict>>

ItemRename ==
    /\ Goto("itemRename", "itemsDir")
    /\ items' = Rename(items, ITEM_TMP, cursor + 1)
    /\ UNCHANGED <<root, cursorVars, head, histVars, verdict>>

ItemsDir ==
    /\ Goto("itemsDir", "cursor")
    /\ items' = SyncDir(items)
    /\ UNCHANGED <<root, cursorVars, head, histVars, verdict>>

\* publish_cursor
CursorWrite ==
    /\ scanPc = "cursor"
    /\ Check(PendingIsSound(root.vis, items.vis, cursor), "Corrupt",
             /\ scanPc' = "cursorSync"
             /\ root' = Write(Delete(root, CURSOR_TMP), CURSOR_TMP, Whole(cursor + 1))
             /\ UNCHANGED <<items, cursorVars, head, histVars, verdict>>)

CursorSync ==
    /\ Goto("cursorSync", "cursorRename")
    /\ root' = SyncFile(root, CURSOR_TMP)
    /\ UNCHANGED <<items, cursorVars, head, histVars, verdict>>

CursorRename ==
    /\ Goto("cursorRename", "cursorDir")
    /\ root' = Rename(root, CURSOR_TMP, CURSOR)
    /\ UNCHANGED <<items, cursorVars, head, histVars, verdict>>

CursorDir ==
    /\ scanPc = "cursorDir"
    /\ root' = SyncDir(root)
    /\ cursor' = cursor + 1
    /\ scanPc' = IF cursor + 1 < upto THEN "item" ELSE "pageEnd"
    /\ UNCHANGED <<items, upto, target, head, histVars, verdict>>

\* the report: scan ends at its target, scan_page_until after any page; at the
\* target, residue that the source does not account for is an error
Report ==
    /\ scanPc = "pageEnd"
    /\ Check(cursor = target => /\ ~Has(items.vis, ITEM_TMP)
                                /\ cursor < MaxItems => ~Has(items.vis, cursor + 1),
             "Corrupt",
             /\ scanPc' = "open"
             /\ reported' = Max({reported, cursor})
             /\ target' = 0
             /\ UNCHANGED <<root, items, cursor, upto, head, bound, scanFaults, verdict>>)

NextPage ==
    /\ Goto("pageEnd", "page")
    /\ cursor < target
    /\ UNCHANGED <<root, items, cursorVars, head, histVars, verdict>>

Close ==
    /\ Goto("open", "closed")
    /\ UNCHANGED <<root, items, cursorVars, head, histVars, verdict>>

-----------------------------------------------------------------------------
\* a sender's item is retained by the mailbox
Grow ==
    /\ head < MaxItems
    /\ head' = head + 1
    /\ UNCHANGED <<root, items, scanPc, cursorVars, histVars, verdict>>

Faulty == scanFaults < MaxScanFaults /\ scanFaults' = scanFaults + 1

\* the relay does not answer, or a deadline check between two publications
\* fails: the driver keeps the guard
Pause ==
    /\ scanPc \in {"page", "item", "cursor", "pageEnd"}
    /\ Faulty
    /\ scanPc' = "open"
    /\ UNCHANGED <<root, items, cursorVars, head, bound, reported, verdict>>

\* the process dies, or a file call fails and the driver gives the directory up
Die ==
    /\ scanPc \in Steps
    /\ Faulty
    /\ scanPc' = "closed"
    /\ UNCHANGED <<root, items, cursorVars, head, bound, reported, verdict>>

\* the same inside a write
DieInWrite ==
    /\ Faulty
    /\ scanPc' = "closed"
    /\ \/ /\ scanPc = "bindSync"
          /\ root' = Write(root, NAMESPACE_TMP, Cut(-1))
          /\ UNCHANGED items
       \/ /\ scanPc = "sigSync"
          /\ root' = Write(root, SIGNATURE_TMP, Cut(SignatureOf(items.vis, cursor).whole))
          /\ UNCHANGED items
       \/ /\ scanPc = "itemSync"
          /\ items' = Write(items, ITEM_TMP, Cut(cursor + 1))
          /\ UNCHANGED root
       \/ /\ scanPc = "cursorSync"
          /\ root' = Write(root, CURSOR_TMP, Cut(cursor + 1))
          /\ UNCHANGED items
    /\ UNCHANGED <<cursorVars, head, bound, reported, verdict>>

\* every map a power loss can leave of a directory
AnyDisk(d) ==
    {[n \in DOMAIN d.vis |->
        IF n \in t /\ m[n] # Absent /\ "whole" \in DOMAIN m[n] THEN Cut(m[n].whole) ELSE m[n]] :
      m \in d.disk, t \in SUBSET d.dirty}

PowerLoss ==
    /\ Faulty
    /\ \E r \in AnyDisk(root), d \in AnyDisk(items) :
         /\ root' = Stored(r)
         /\ items' = Stored(d)
    /\ scanPc' = "closed"
    /\ UNCHANGED <<cursorVars, head, bound, reported, verdict>>

-----------------------------------------------------------------------------
OpenStep ==
    \/ BindSync \/ BindRename \/ BindDir \/ RootSync
    \/ PositionsIdle \/ PositionsSweep \/ SigSync \/ SigRename \/ SigDir

ScanStep ==
    \/ ItemPresent \/ ItemWrite \/ ItemSync \/ ItemRename \/ ItemsDir
    \/ CursorWrite \/ CursorSync \/ CursorRename \/ CursorDir
    \/ Report \/ NextPage

ScanNext ==
    \/ OpenBound \/ OpenFresh \/ OpenLegacy \/ OpenStep
    \/ Fetch \/ ScanStep \/ Close
    \/ Grow
    \/ Pause \/ Die \/ DieInWrite \/ PowerLoss

ScanSpec == ScanInit /\ [][ScanNext]_scanVars

\* A driver opens a closed directory, gets on with a call that runs and scans
\* again and again while it has the guard.
ScanFairness ==
    /\ WF_scanVars(OpenBound \/ OpenFresh \/ OpenLegacy)
    /\ WF_scanVars(OpenStep \/ ScanStep)
    /\ SF_scanVars(Fetch)

ScanLiveSpec == ScanSpec /\ ScanFairness

-----------------------------------------------------------------------------
ScanTypeOK ==
    /\ DOMAIN root.vis = RootNames /\ root.dirty \subseteq RootNames
    /\ DOMAIN items.vis = ItemNames /\ items.dirty \subseteq ItemNames
    /\ scanPc \in {"closed", "open"} \cup Steps
    /\ cursor \in 0..MaxItems /\ upto \in 0..MaxItems /\ target \in 0..MaxItems
    /\ head \in 0..MaxItems
    /\ verdict \in {"none", "Corrupt", "Legacy"}
    /\ scanFaults \in 0..MaxScanFaults

\* The cursor never outruns the items: in every state a power loss can leave,
\* the item of each position up to the cursor is there and whole.
CursorHasItsItems ==
    \A r \in AnyDisk(root), d \in AnyDisk(items) :
        \A k \in 1..CursorOf(r) : d[k] = Whole(k)

\* Once open has returned, the directory opens again after any crash; no
\* scratch, signature or half-done publication makes it Corrupt or Legacy.
AlwaysResumes ==
    bound => \A r \in AnyDisk(root), d \in AnyDisk(items) : Opens(r, d)

\* A scan of a mailbox that only grows never takes its own residue, on the
\* guard that made it or on a later one, for another mailbox's evidence.
ScansNeverFault == verdict # "Corrupt"

\* The cursor of a returned report survives every power loss: the consumer,
\* which has acted on it, is never asked to start before it.
ReportSurvives ==
    \A r \in AnyDisk(root) : CursorOf(r) >= reported

\* Every retained item is eventually under the durable cursor, unless the very
\* first initialization was interrupted.
CatchesUp == \A k \in 1..MaxItems : (head >= k) ~> (cursor >= k \/ verdict = "Legacy")

-----------------------------------------------------------------------------
(* The parts above together, as the run checks them.                       *)

\* No residue of a crash keeps the directory from opening or a scan from going on.
Resumable ==
    /\ ScanTypeOK
    /\ AlwaysResumes
    /\ ScansNeverFault

\* The durable cursor is never ahead of the items nor behind a returned report.
CursorIsTrue ==
    /\ CursorHasItsItems
    /\ ReportSurvives
=============================================================================
