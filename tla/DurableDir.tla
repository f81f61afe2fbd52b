---------------------------- MODULE DurableDir ----------------------------
(***************************************************************************)
(* A directory of files as the program sees it and as a power loss may     *)
(* leave it.  This is the operating system under the journal and the       *)
(* snapshot stores, modelled from the calls those crates make: create and  *)
(* write, hard_link, rename, remove_file, File::sync_all on a file and     *)
(* File::sync_all on a directory.                                          *)
(*                                                                         *)
(*   vis    what every process reads now: name -> content                  *)
(*   disk   every name map the disk may hold now: directory updates reach  *)
(*          it in the order they were made, each one atomically, and only  *)
(*          syncing the directory forces them                              *)
(*   dirty  names whose content was written and not yet synced: a power    *)
(*          loss may tear it                                               *)
(*                                                                         *)
(* A killed process loses nothing that is visible; a power loss keeps one  *)
(* map of disk and may tear any dirty file.                                *)
(***************************************************************************)
CONSTANTS Absent,   \* content of a name that does not exist
          Torn      \* content of a file that was only partly written

ASSUME AbsentIsNotTorn == Absent # Torn

\* The directories over names N whose files hold values of V.
Dirs(N, V) == [vis : [N -> V], disk : SUBSET [N -> V], dirty : SUBSET N]

\* A directory whose map m is durable.
Stored(m) == [vis |-> m, disk |-> {m}, dirty |-> {}]

\* One directory update: the new map becomes visible and may reach the disk.
Update(d, m, unsynced) == [vis |-> m, disk |-> d.disk \cup {m}, dirty |-> unsynced]

\* create (or truncate) n and write v to it.
Write(d, n, v) == Update(d, [d.vis EXCEPT ![n] = v], d.dirty \cup {n})

\* hard_link a as b: both names now reach one file.
Link(d, a, b) ==
    Update(d, [d.vis EXCEPT ![b] = d.vis[a]],
           d.dirty \cup IF a \in d.dirty THEN {b} ELSE {})

\* rename a over b.
Rename(d, a, b) ==
    Update(d, [d.vis EXCEPT ![b] = d.vis[a], ![a] = Absent],
           d.dirty \cup IF a \in d.dirty THEN {b} ELSE {})

\* remove_file n; an absent name is left alone.  Until the directory is synced
\* the disk may still hold the file, so its content stays as it was.
Delete(d, n) == Update(d, [d.vis EXCEPT ![n] = Absent], d.dirty)

\* sync_all on the file n, and on the directory itself.
SyncFile(d, n) == [d EXCEPT !.dirty = @ \ {n}]
SyncDir(d)     == [vis   |-> d.vis,
                   disk  |-> {d.vis},
                   dirty |-> {n \in d.dirty : d.vis[n] # Absent}]

\* The map m after the files t were torn.
Tear(m, t) == [n \in DOMAIN m |-> IF n \in t /\ m[n] # Absent THEN Torn ELSE m[n]]

\* Every directory a power loss can leave.
PowerLossOutcomes(d) == {Stored(Tear(m, t)) : m \in d.disk, t \in SUBSET d.dirty}
=============================================================================
