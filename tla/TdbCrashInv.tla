---------------------------- MODULE TdbCrashInv ----------------------------
(***************************************************************************)
(* The inductive invariant behind AllOrNothing and AreaSound: what file    *)
(* and disk hold at each step of a commit and of a recovery, and what a    *)
(* kill or a power cut in that step leaves behind.                         *)
(***************************************************************************)
EXTENDS TdbInv

\* Kills and cuts that do no damage: neither from the head of a new recovery area
\* to the first sync, and no kill in a commit or a recovery that has begun to take
\* the record back and has not synced that.
Orderly ==
    /\ LiveKillsAlone
    /\ KillAt \cap {"newarea", "sync4", "rmagic", "rtrunc", "rsync2"} = {}
    /\ "newarea" \notin CutAt

-----------------------------------------------------------------------------
(* A file f, and what of it is on a disk d *)

\* The words from h to h + m lie before s and are not in R.
Within(h, m, s, R) == \A o \in h..h + m : o < s /\ o \notin R

\* Neither has a valid recovery record, both hold the contents c, and whichever
\* head, size and record a power cut leaves, the area is no part of them.  The
\* record at w is still to be written or synced.
Clean(f, d, c, w) ==
    /\ Shows(f, c) /\ Shows(d, c) /\ \A o \in c[Heads] : 1 < o
    /\ 1 < d.size /\ d.size <= f.size /\ \A o \in d.magic : o < d.size
    /\ \A h \in {f.head, d.head} \ {0} :
          /\ 1 < h /\ h < f.size /\ h \notin f.magic \cup d.magic
          /\ h # w => \A s \in {f.size, d.size} : h < s =>
                /\ Within(h, f.max[h], s, c[Heads])
                /\ Within(h, d.max[h], s, c[Heads])

\* Both have the record at w that leads from any mixture of old and new words
\* back to the contents old, and its area can be read.
Logged(f, d, w, old, new) ==
    LET log == f.log[w]
    IN  /\ 1 < w /\ d.log[w] = log /\ d.max[w] = f.max[w]
        /\ 1 < log.eof /\ log.eof <= f.size /\ log.eof <= d.size
        /\ \A o \in old[Heads] \cup new[Heads] : 1 < o
        /\ Heads \in DOMAIN log.saved /\ log.saved[Heads] = old[Heads]
        /\ Cardinality(DOMAIN log.saved) <= f.max[w]
        /\ \A o \in old[Heads] :
              /\ o < log.eof
              /\ IF o \in DOMAIN log.saved
                 THEN log.saved[o] = old[o]
                 ELSE f.data[o] = old[o] /\ d.data[o] = old[o]
        /\ {f.data[Heads], d.data[Heads]} \subseteq {old[Heads], new[Heads]}
        /\ \A o \in w..w + f.max[w] : o \notin old[Heads] \cup new[Heads]
        /\ \A s \in {f.size, d.size, log.eof} : w < s => Within(w, f.max[w], s, {})

\* A power cut leaves a record that leads back to old or one that is not valid
\* and then the contents c, or a head behind the end of the file.
Either(f, d, w, old, new, c) ==
    /\ Logged(f, d, w, old, new)
    /\ f.head \in {0, w} /\ d.head \in {f.head, w}
    /\ f.head = 0 \/ w \notin f.magic \cap d.magic => Shows(f, c) /\ Shows(d, c)

\* The next tdb_open_ex goes back to old.
Redo(f, d, w, old, new) ==
    /\ Either(f, d, w, old, new, old)
    /\ f.head = w /\ w < f.size /\ w < d.size /\ w \in f.magic

-----------------------------------------------------------------------------
(* A transaction t and its commit, with the history b *)

\* Before the commit has a place for its record: words that become reachable
\* are elements and lie behind the end of the file.
Prepared(f, t) ==
    LET e == t.elems
    IN  /\ Heads \in DOMAIN e
        /\ f.data[Heads] \subseteq e[Heads]
        /\ DOMAIN e \subseteq e[Heads] \cup {Heads}
        /\ 1 < t.old
        /\ \A o \in e[Heads] :
              /\ 1 < o /\ o < t.map
              /\ o \in f.data[Heads] \/ (o \in DOMAIN e /\ t.old <= o)

\* From then on: what the elements make of the old contents, and that the place
\* of the record is free of both.
Promised(f, d, t, b) ==
    LET e == t.elems
    IN  /\ Heads \in DOMAIN e /\ e[Heads] = b.new[Heads]
        /\ DOMAIN e \subseteq e[Heads] \cup {Heads}
        /\ \A o \in b.new[Heads] :
              /\ 1 < o /\ o < t.map
              /\ IF o \in DOMAIN e
                 THEN b.new[o] = e[o]
                 ELSE o \in b.old[Heads] /\ b.new[o] = b.old[o]
        /\ \A o \in b.old[Heads] : 1 < o /\ o < t.eof
        /\ 1 < t.eof /\ t.eof <= f.size
        /\ t.old = f.size /\ f.size <= t.map
        /\ 1 < t.where
        /\ tdb_recovery_size(e, t.eof) <= t.room
        /\ Within(t.where, t.room, f.size, b.old[Heads] \cup b.new[Heads])
        /\ \A s \in {t.eof, d.size} : t.where < s => Within(t.where, t.room, s, {})

\* The record is in the file.
Recorded(f, t, b) ==
    LET log == f.log[t.where]
    IN  /\ f.max[t.where] = t.room
        /\ log.eof = t.eof
        /\ DOMAIN log.saved = Saved(t.elems, t.eof)
        /\ \A o \in DOMAIN log.saved \cap (b.old[Heads] \cup {Heads}) : log.saved[o] = b.old[o]

\* While elements are written, the new contents are in the file but for the
\* elements that are left, and these are saved.
Writing(f, t, b) ==
    LET e == t.elems
        log == f.log[t.where]
    IN  /\ \A o \in DOMAIN e : o < log.eof => o \in DOMAIN log.saved
        /\ DOMAIN e \subseteq b.new[Heads] \cup {Heads}
        /\ \A o \in b.new[Heads] : o < f.size
        /\ \A o \in b.new[Heads] \cup {Heads} :
              (IF o \in DOMAIN e THEN e[o] ELSE f.data[o]) = b.new[o]

\* While saved words are restored.
Restoring(f, t) ==
    LET saved == f.log[t.where].saved
    IN  /\ DOMAIN t.elems \subseteq DOMAIN saved
        /\ \A o \in DOMAIN saved :
              (IF o \in DOMAIN t.elems THEN t.elems[o] ELSE f.data[o]) = saved[o]

-----------------------------------------------------------------------------
(* The stages *)

Early == {"tx", "upgrade", "global", "setup"}
Setup == {"head", "body", "sync1", "magic"}
Ending == {"rhead", "rmagic", "rtrunc", "rsync2"}
Late == Live \cup {"sync4", "restore"} \cup Ending

\* The commit has a new area, whose record at the place x is not on the disk yet.
Fresh(x, t) == x \in {"body", "sync1"} /\ t.eof # t.old

\* What a process knows at the place x of its commit or of its recovery.
Stage(x, f, d, t, b) ==
    LET w == t.where
    IN  /\ x \in Early => Prepared(f, t)
        /\ x \in Setup \cup {"sync2", "expand"} => Promised(f, d, t, b)
        /\ x \in Setup => Clean(f, d, b.old, IF Fresh(x, t) THEN w ELSE 0)
        /\ x = "head" => w \notin f.magic \cup d.magic /\ t.eof # t.old
        /\ x \in {"body", "sync1", "magic"} => f.head = w
        /\ x \in {"sync1", "magic", "sync2", "expand"} => Recorded(f, t, b)
        /\ x = "magic" => f = d
        /\ x \in Live \cup {"restore", "rhead"} => Redo(f, d, w, b.old, b.new)
        /\ x \in {"sync2", "expand"} => Shows(f, b.old) /\ f.size = d.size
        /\ x \in {"expand", "write", "unmagic"} => w \in d.magic
        /\ x = "write" => Writing(f, t, b)
        /\ x \in {"unmagic", "sync4"} => Shows(f, b.new) /\ Shows(d, b.new)
        /\ x = "sync4" =>
              /\ Either(f, d, w, b.old, b.new, b.new)
              /\ f.head = w /\ w < f.size /\ w \notin f.magic
        /\ x = "restore" => Restoring(f, t)
        /\ x \in {"restore"} \cup Ending => t.eof = f.log[w].eof
        /\ x \in Ending =>
              /\ Either(f, d, w, b.old, b.new, b.old)
              /\ Shows(f, b.old) /\ Shows(d, b.old)
        /\ x \in Ending \ {"rhead"} => f.head = IF t.eof <= w THEN 0 ELSE w
        /\ x \in {"rtrunc", "rsync2"} => w \notin f.magic
        /\ x = "rsync2" => f.size = t.eof

\* What holds when no process is in such a place: the contents before or after
\* the last commit are there, or the next open goes back to the old ones, or a
\* power cut has left a head behind the end of the file.
Resting ==
    \/ /\ 1 < file.size /\ file.size <= file.head /\ file = disk /\ cuts > 0
       /\ \A p \in Proc : pc[p] \in {"closed", "recover"}
    \/ \E c \in {db.old, db.new} : Clean(file, disk, c, 0)
    \/ Redo(file, disk, file.head, db.old, db.new)

CrashInv ==
    /\ \A p \in Proc : Stage(pc[p], file, disk, tx[p], db)
    /\ (\A p \in Proc : pc[p] \notin Setup \cup Late) => Resting
=============================================================================
