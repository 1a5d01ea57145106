---------------------------- MODULE LiteJournal ----------------------------
(***************************************************************************)
(* The NOVA lite journal (src/unnamed/part_001, "NOVA journaling           *)
(* facility"): a per-CPU ring of undo entries between a head and a tail    *)
(* pointer, used to make multi-inode directory operations atomic, and its  *)
(* mount-time recovery (nova_lite_journal_soft_init).                      *)
(*                                                                         *)
(* Persistent memory is modelled at cache-line granularity: every location *)
(* has a volatile value (vmem, what the CPU reads) and a persistent value  *)
(* (pmem, what survives a power failure).  A store changes vmem only.  A   *)
(* dirty line may be written back at any moment (Evict).  A clflush or an  *)
(* NT store puts the line in "flushed", and the sfence of                  *)
(* nova_flush_buffer(.., 1) makes every flushed line persistent.  Under    *)
(* eADR (ExtendedADR) the caches are in the persistence domain, so a crash *)
(* loses nothing.                                                          *)
(*                                                                         *)
(* The client of the journal, the directory operations of namei.c (not in  *)
(* src/), is modelled from spec 4.4: it creates a transaction over some    *)
(* inodes (and at most one raw field), updates their primary copies        *)
(* durably, commits, and then brings the mirror (replica) inodes up to     *)
(* date.                                                                   *)
(***************************************************************************)
EXTENDS Integers, Sequences, FiniteSets

CONSTANTS
    NCPU,          \* number of per-CPU journals
    NumSlots,      \* journal entries per ring (one page in the code)
    MaxTxnEntries, \* most entries one transaction appends (< NumSlots)
    Inodes,        \* inodes a directory operation may touch
    Fields,        \* raw 64-bit fields journaled by JOURNAL_ENTRY
    Vals,          \* values an inode or a field can hold
    ReplicaInode,  \* the replica_inode module parameter
    ExtendedADR,   \* caches are persistent (eADR) or not (ADR)
    None

ASSUME MaxTxnEntries < NumSlots

CPUs  == 1 .. NCPU
Slots == 0 .. NumSlots - 1

\* Entry type tags.  A zeroed (never written) slot has type 0.
JOURNAL_INODE == 1
JOURNAL_ENTRY == 2
EINVAL == 22

\* The checksum of an entry is modelled by the exact contents it covers.
Csum(type, d1, d2) == <<type, d1, d2>>
\* A zeroed slot's checksum field matches no contents.
NoCsum == <<>>
ZeroEntry == [type |-> 0, data1 |-> 0, data2 |-> 0, csum |-> NoCsum]
Entries == [type : {0, JOURNAL_INODE, JOURNAL_ENTRY},
            data1 : Inodes \cup Fields \cup {0},
            data2 : Inodes \cup Vals \cup {0},
            csum : {NoCsum} \cup (Nat \X (Inodes \cup Fields \cup {0})
                                 \X (Inodes \cup Vals \cup {0}))]

\* Cache-line locations.
PairLoc(c)     == <<"pair", c>>
SlotLoc(c, i)  == <<"slot", c, i>>
InodeLoc(x)    == <<"inode", x>>
FieldLoc(f)    == <<"field", f>>
DataLocs == {InodeLoc(x) : x \in Inodes} \cup {FieldLoc(f) : f \in Fields}
Locs == DataLocs \cup {PairLoc(c) : c \in CPUs} \cup {SlotLoc(c, i) : c \in CPUs, i \in Slots}

VARIABLES
    vmem,      \* volatile view of every location
    pmem,      \* persistent contents of every location
    flushed,   \* lines clflushed or NT-stored, not yet fenced
    alter,     \* the mirror (alter_pi) copy of every inode, kept durable
    txn,       \* per CPU: the directory operation in flight
    mount,     \* nova_lite_journal_soft_init: loop state and ret
    committed  \* ghost: inode and field values as of the last commit

vars == <<vmem, pmem, flushed, alter, txn, mount, committed>>

IdleTxn == [phase |-> "idle", inodes |-> {}, fields |-> {}, tail |-> 0]
Running == [pc |-> "running", cpu |-> 0, cur |-> 0, ret |-> 0]

Pair(c) == vmem[PairLoc(c)]

\* Store to a set of locations; a later fence persists those in "flushed".
Fence(v, fl) == [l \in Locs |-> IF l \in fl THEN v[l] ELSE pmem[l]]

(***************************************************************************)
(* next_lite_journal: the next entry, wrapping at the end of the page.     *)
(***************************************************************************)
NextLiteJournalWrapLate(i) == IF i + 1 > NumSlots THEN 0 ELSE i + 1

NextLiteJournal(i) == IF i + 1 >= NumSlots THEN 0 ELSE i + 1

\* The slots from head up to (excluding) tail, in ring order.
RECURSIVE Window(_, _)
Window(h, t) == IF h = t THEN <<>> ELSE <<h>> \o Window(NextLiteJournal(h), t)

(***************************************************************************)
(* nova_update_entry_checksum / nova_check_entry_integrity.                *)
(***************************************************************************)
WithChecksum(e) == [e EXCEPT !.csum = Csum(e.type, e.data1, e.data2)]

EntryIntact(e) == e.csum = Csum(e.type, e.data1, e.data2)

(***************************************************************************)
(* nova_append_inode_journal: data2 is written only with replica inodes;  *)
(* otherwise the slot keeps whatever data2 it held.                        *)
(***************************************************************************)
AppendInodeJournalCsumFirst(old, x) ==
    LET e == [old EXCEPT !.type = JOURNAL_INODE, !.data1 = x,
                         !.csum = Csum(JOURNAL_INODE, x, old.data2)]
    IN  IF ReplicaInode THEN [e EXCEPT !.data2 = x] ELSE e

AppendInodeJournal(old, x) ==
    LET e == [old EXCEPT !.type = JOURNAL_INODE, !.data1 = x]
    IN  WithChecksum(IF ReplicaInode THEN [e EXCEPT !.data2 = x] ELSE e)

\* nova_append_entry_journal: the before-image of one raw field.
AppendEntryJournal(f, v) ==
    WithChecksum([type |-> JOURNAL_ENTRY, data1 |-> f, data2 |-> v, csum |-> NoCsum])

\* The journal items of a transaction, in the order the code appends them.
Item(kind, obj) == [kind |-> kind, obj |-> obj]

\* Mutant: the father_ino entry is written but its return value is not
\* assigned to temp, so the tail stops short of it.
RECURSIVE AppendItemsFieldNoAdvance(_, _, _, _)
AppendItemsFieldNoAdvance(v, c, h, items) ==
    IF items = <<>> THEN [mem |-> v, tail |-> h]
    ELSE LET it == Head(items)
             old == v[SlotLoc(c, h)]
             e == IF it.kind = "inode" THEN AppendInodeJournal(old, it.obj)
                  ELSE AppendEntryJournal(it.obj, v[FieldLoc(it.obj)])
         IN  AppendItemsFieldNoAdvance([v EXCEPT ![SlotLoc(c, h)] = e], c,
                 IF it.kind = "field" THEN h ELSE NextLiteJournal(h), Tail(items))

\* Write the items into the ring of CPU c from slot h; returns the new vmem
\* and the tail marker.
RECURSIVE AppendItems(_, _, _, _)
AppendItems(v, c, h, items) ==
    IF items = <<>> THEN [mem |-> v, tail |-> h]
    ELSE LET it == Head(items)
             old == v[SlotLoc(c, h)]
             e == IF it.kind = "inode" THEN AppendInodeJournal(old, it.obj)
                  ELSE AppendEntryJournal(it.obj, v[FieldLoc(it.obj)])
         IN  AppendItems([v EXCEPT ![SlotLoc(c, h)] = e], c,
                         NextLiteJournal(h), Tail(items))

(***************************************************************************)
(* Directory operations are serialised by inode locks: a new transaction   *)
(* only touches inodes and fields no other CPU has in flight, and (spec    *)
(* 4.4 client) whose mirror is up to date.                                 *)
(***************************************************************************)
TxnLocs(c) == {InodeLoc(x) : x \in txn[c].inodes}
              \cup {FieldLoc(f) : f \in txn[c].fields}

Busy == UNION {txn[c].inodes \cup txn[c].fields : c \in CPUs}

CanJournal(items) ==
    LET objs == {items[j].obj : j \in 1 .. Len(items)}
    IN  /\ Len(items) <= MaxTxnEntries
        /\ objs \cap Busy = {}
        /\ \A x \in objs \cap Inodes : alter[x] = vmem[InodeLoc(x)]

(***************************************************************************)
(* nova_create_inode_transaction / nova_create_rename_transaction: BUG()   *)
(* unless head = tail; append the entries (stores only), set the tail, and *)
(* flush the pointer line with a fence.                                    *)
(***************************************************************************)
CreateTransaction(c, items) ==
    /\ mount.pc = "running"
    /\ txn[c].phase = "idle"
    /\ CanJournal(items)
    /\ Pair(c).head = Pair(c).tail
    /\ LET r == AppendItems(vmem, c, Pair(c).head, items)
           v == [r.mem EXCEPT ![PairLoc(c)].tail = r.tail]
           fl == flushed \cup {PairLoc(c)}
       IN  /\ vmem' = v
           /\ pmem' = Fence(v, fl)
           /\ flushed' = {}
           /\ txn' = [txn EXCEPT ![c] =
                [phase |-> "open", tail |-> r.tail,
                 inodes |-> {items[j].obj : j \in 1 .. Len(items)} \cap Inodes,
                 fields |-> {items[j].obj : j \in 1 .. Len(items)} \cap Fields]]
    /\ UNCHANGED <<alter, mount, committed>>

\* nova_create_inode_transaction(inode1, inode2).
CreateInodeTransaction(c, x1, x2) ==
    CreateTransaction(c, <<Item("inode", x1), Item("inode", x2)>>)

\* nova_create_rename_transaction: old_inode and old_dir always, new_inode,
\* new_dir and father_ino when present.
Opt(kind, o) == IF o = None THEN <<>> ELSE <<Item(kind, o)>>

CreateRenameTransaction(c, oi, od, ni, nd, fa) ==
    CreateTransaction(c, <<Item("inode", oi), Item("inode", od)>>
                         \o Opt("inode", ni) \o Opt("inode", nd)
                         \o Opt("field", fa))

(***************************************************************************)
(* The directory operation updates a journaled inode or field in place,    *)
(* persisting it (spec 4.4 client, namei.c).                               *)
(***************************************************************************)
UpdateInPlace(c, l, val) ==
    /\ mount.pc = "running"
    /\ txn[c].phase = "open"
    /\ vmem' = [vmem EXCEPT ![l] = val]
    /\ pmem' = [pmem EXCEPT ![l] = val]
    /\ UNCHANGED <<flushed, alter, txn, mount, committed>>

UpdateInode(c, x, val) ==
    x \in txn[c].inodes /\ UpdateInPlace(c, InodeLoc(x), val)

UpdateField(c, f, val) ==
    f \in txn[c].fields /\ UpdateInPlace(c, FieldLoc(f), val)

(***************************************************************************)
(* nova_commit_lite_transaction: BUG() unless the tail is the marker; head *)
(* := tail and flush the pointer line with a fence.  The commit point.     *)
(***************************************************************************)
CommitLiteTransaction(c) ==
    /\ mount.pc = "running"
    /\ txn[c].phase = "open"
    /\ Pair(c).tail = txn[c].tail
    /\ LET v == [vmem EXCEPT ![PairLoc(c)].head = txn[c].tail]
       IN  /\ vmem' = v
           /\ pmem' = Fence(v, flushed \cup {PairLoc(c)})
    /\ flushed' = {}
    /\ txn' = [txn EXCEPT ![c] = IdleTxn]
    /\ committed' = [l \in DataLocs |->
                       IF l \in TxnLocs(c) THEN vmem[l] ELSE committed[l]]
    /\ UNCHANGED <<alter, mount>>

(***************************************************************************)
(* The mirror copy of an inode nobody is changing is brought up to date    *)
(* with its primary (spec 4.4 client: the replica follows the commit).     *)
(***************************************************************************)
SyncReplica(x) ==
    /\ mount.pc = "running"
    /\ x \notin Busy
    /\ alter[x] # vmem[InodeLoc(x)]
    /\ alter' = [alter EXCEPT ![x] = vmem[InodeLoc(x)]]
    /\ UNCHANGED <<vmem, pmem, flushed, txn, mount, committed>>

(***************************************************************************)
(* Recovery.  nova_recover_journal_inode copies the mirror inode over the  *)
(* primary with an NT store, unless replica inodes are off (FIXME: then it *)
(* does nothing).  nova_recover_journal_entry stores the saved value back  *)
(* and clflushes it without a fence.  Other types are only logged.         *)
(***************************************************************************)
RecoverJournalInodeNoop(v, fl, e) == [mem |-> v, fl |-> fl]

RecoverJournalInode(v, fl, e) ==
    IF ~ReplicaInode THEN [mem |-> v, fl |-> fl]
    ELSE [mem |-> [v EXCEPT ![InodeLoc(e.data1)] = alter[e.data2]],
          fl  |-> fl \cup {InodeLoc(e.data1)}]

RecoverJournalEntry(v, fl, e) ==
    [mem |-> [v EXCEPT ![FieldLoc(e.data1)] = e.data2],
     fl  |-> fl \cup {FieldLoc(e.data1)}]

UndoLiteJournalEntry(v, fl, e) ==
    CASE e.type = JOURNAL_INODE -> RecoverJournalInode(v, fl, e)
      [] e.type = JOURNAL_ENTRY -> RecoverJournalEntry(v, fl, e)
      [] OTHER                  -> [mem |-> v, fl |-> fl]

WindowSlots(c) ==
    LET w == Window(Pair(c).head, Pair(c).tail) IN {w[j] : j \in DOMAIN w}

(***************************************************************************)
(* nova_lite_journal_soft_init: for each CPU whose head # tail, check      *)
(* every entry (nova_check_journal_entries) and break with -EINVAL on a    *)
(* checksum failure, else recover (nova_recover_lite_journal), which sets  *)
(* ret to 0.  ret is never initialised: when no CPU needed recovery the    *)
(* function returns whatever the stack held (None here).                   *)
(***************************************************************************)
Checking == mount.pc = "check" /\ mount.cpu \in CPUs

SoftInitSkip ==
    /\ Checking
    /\ Pair(mount.cpu).head = Pair(mount.cpu).tail
    /\ mount' = [mount EXCEPT !.cpu = @ + 1]
    /\ UNCHANGED <<vmem, pmem, flushed, alter, txn, committed>>

SoftInitCorrupt ==
    /\ Checking
    /\ Pair(mount.cpu).head # Pair(mount.cpu).tail
    /\ \E i \in WindowSlots(mount.cpu) : ~EntryIntact(vmem[SlotLoc(mount.cpu, i)])
    /\ mount' = [mount EXCEPT !.pc = "return", !.ret = -EINVAL]
    /\ UNCHANGED <<vmem, pmem, flushed, alter, txn, committed>>

SoftInitRecover ==
    /\ Checking
    /\ Pair(mount.cpu).head # Pair(mount.cpu).tail
    /\ \A i \in WindowSlots(mount.cpu) : EntryIntact(vmem[SlotLoc(mount.cpu, i)])
    /\ mount' = [mount EXCEPT !.pc = "replay", !.cur = Pair(mount.cpu).head]
    /\ UNCHANGED <<vmem, pmem, flushed, alter, txn, committed>>

\* nova_recover_lite_journal, loop body: undo one entry.
RecoverEntry ==
    /\ mount.pc = "replay"
    /\ mount.cur # Pair(mount.cpu).tail
    /\ LET r == UndoLiteJournalEntry(vmem, flushed,
                                     vmem[SlotLoc(mount.cpu, mount.cur)])
       IN  /\ vmem' = r.mem
           /\ flushed' = r.fl
    /\ mount' = [mount EXCEPT !.cur = NextLiteJournal(@)]
    /\ UNCHANGED <<pmem, alter, txn, committed>>

\* nova_recover_lite_journal: journal_tail = journal_head (a plain store).
RecoverResetTail ==
    /\ mount.pc = "replay"
    /\ mount.cur = Pair(mount.cpu).tail
    /\ vmem' = [vmem EXCEPT ![PairLoc(mount.cpu)].tail = Pair(mount.cpu).head]
    /\ mount' = [mount EXCEPT !.pc = "flush"]
    /\ UNCHANGED <<pmem, flushed, alter, txn, committed>>

RecoverFlushNoFence ==
    /\ mount.pc = "flush"
    /\ pmem' = pmem
    /\ flushed' = flushed \cup {PairLoc(mount.cpu)}
    /\ mount' = [mount EXCEPT !.pc = "check", !.cpu = @ + 1, !.ret = 0]
    /\ UNCHANGED <<vmem, alter, txn, committed>>

\* nova_recover_lite_journal: flush the pointer line with a fence; ret = 0.
RecoverFlush ==
    /\ mount.pc = "flush"
    /\ pmem' = Fence(vmem, flushed \cup {PairLoc(mount.cpu)})
    /\ flushed' = {}
    /\ mount' = [mount EXCEPT !.pc = "check", !.cpu = @ + 1, !.ret = 0]
    /\ UNCHANGED <<vmem, alter, txn, committed>>

\* The value an uninitialised ret can hold: zero or not.
RetOutcomes(r) == IF r = None THEN {0, 1} ELSE {r}

\* soft_init returns; a non-zero value fails the mount.
SoftInitReturn ==
    /\ \/ mount.pc = "return"
       \/ mount.pc = "check" /\ mount.cpu > NCPU
    /\ \E r \in RetOutcomes(mount.ret) :
          mount' = IF r = 0 THEN Running
                   ELSE [mount EXCEPT !.pc = "failed", !.ret = r]
    /\ UNCHANGED <<vmem, pmem, flushed, alter, txn, committed>>

(***************************************************************************)
(* Hardware.  A dirty cache line is written back at any time.  A power     *)
(* failure keeps the persistent image (all of vmem under eADR), clears the *)
(* caches and the running operations, and mounts again.                   *)
(***************************************************************************)
Evict(l) ==
    /\ vmem[l] # pmem[l]
    /\ pmem' = [pmem EXCEPT ![l] = vmem[l]]
    /\ UNCHANGED <<vmem, flushed, alter, txn, mount, committed>>

CrashImage == IF ExtendedADR THEN vmem ELSE pmem

Mounting == [pc |-> "check", cpu |-> 1, cur |-> 0, ret |-> None]

Crash ==
    /\ vmem' = CrashImage
    /\ pmem' = CrashImage
    /\ flushed' = {}
    /\ txn' = [c \in CPUs |-> IdleTxn]
    /\ mount' = Mounting
    /\ UNCHANGED <<alter, committed>>

(***************************************************************************)
(* nova_lite_journal_hard_init: every pair points at the start of a fresh  *)
(* journal page (head = tail), persisted, then soft_init runs.             *)
(***************************************************************************)
V0 == CHOOSE v \in Vals : TRUE

InitMem == [l \in Locs |->
              CASE l[1] = "pair" -> [head |-> 0, tail |-> 0]
                [] l[1] = "slot" -> ZeroEntry
                [] OTHER         -> V0]

Init ==
    /\ vmem = InitMem
    /\ pmem = InitMem
    /\ flushed = {}
    /\ alter = [x \in Inodes |-> V0]
    /\ txn = [c \in CPUs |-> IdleTxn]
    /\ mount = Mounting
    /\ committed = [l \in DataLocs |-> V0]

MaybeInode == Inodes \cup {None}

Next ==
    \/ \E c \in CPUs, x1, x2 \in Inodes :
          x1 # x2 /\ CreateInodeTransaction(c, x1, x2)
    \/ \E c \in CPUs, oi, od \in Inodes, ni, nd \in MaybeInode,
          fa \in Fields \cup {None} :
          /\ Cardinality({oi, od, ni, nd} \ {None})
                = Len(<<oi, od>> \o Opt("inode", ni) \o Opt("inode", nd))
          /\ CreateRenameTransaction(c, oi, od, ni, nd, fa)
    \/ \E c \in CPUs, x \in Inodes, v \in Vals : UpdateInode(c, x, v)
    \/ \E c \in CPUs, f \in Fields, v \in Vals : UpdateField(c, f, v)
    \/ \E c \in CPUs : CommitLiteTransaction(c)
    \/ \E x \in Inodes : SyncReplica(x)
    \/ SoftInitSkip \/ SoftInitCorrupt \/ SoftInitRecover
    \/ RecoverEntry \/ RecoverResetTail \/ RecoverFlush \/ SoftInitReturn
    \/ \E l \in Locs : Evict(l)
    \/ Crash

Spec == Init /\ [][Next]_vars

(***************************************************************************)
(* Properties.                                                             *)
(***************************************************************************)
TypeOK ==
    /\ \A c \in CPUs : vmem[PairLoc(c)] \in [head : Slots, tail : Slots]
                       /\ pmem[PairLoc(c)] \in [head : Slots, tail : Slots]
    /\ \A c \in CPUs, i \in Slots : vmem[SlotLoc(c, i)] \in Entries
    /\ \A l \in DataLocs : vmem[l] \in Vals /\ pmem[l] \in Vals
    /\ flushed \subseteq Locs
    /\ alter \in [Inodes -> Vals]
    /\ \A c \in CPUs : txn[c].phase \in {"idle", "open"} /\ txn[c].tail \in Slots
    /\ mount.pc \in {"running", "check", "replay", "flush", "return", "failed"}
    /\ mount.cpu \in 0 .. NCPU + 1

\* Atomicity of directory operations (spec 4.4): whenever the file system
\* is mounted, every inode and field that no operation is changing holds the
\* value of the last commit, across any number of crashes, including
\* crashes during nova_recover_lite_journal.
CommittedStateRecovered ==
    mount.pc = "running" =>
        \A l \in DataLocs \ UNION {TxnLocs(c) : c \in CPUs} :
            vmem[l] = committed[l]

\* Spec 3, journal entry: in the image a crash would leave, every entry
\* between head and tail is fully written with a valid checksum, so
\* nova_check_journal_entries cannot fail the mount.
JournalWindowIntact ==
    \A c \in CPUs :
        LET p == CrashImage[PairLoc(c)]
            w == Window(p.head, p.tail)
        IN  \A j \in DOMAIN w : EntryIntact(CrashImage[SlotLoc(c, w[j])])

\* The pointer pair is flushed with a fence by nova_commit_lite_transaction
\* and by nova_recover_lite_journal: while the file system is mounted and
\* no transaction is open on a CPU, its persistent head equals its tail,
\* so a crash then replays nothing.
PointersDurableWhenIdle ==
    mount.pc = "running" =>
        \A c \in CPUs : txn[c].phase = "idle" =>
            pmem[PairLoc(c)].head = pmem[PairLoc(c)].tail


\* While mounted, the window [head, tail) of every CPU's ring holds exactly
\* one entry for each inode and field of the transaction open on it, and
\* nothing when none is open: create_*_transaction sets the tail past every
\* entry it appended, commit and recovery empty the window, and after a wrap
\* no entry of an earlier transaction, whose checksum is still valid, is
\* inside it.
WindowHoldsOpenTxn ==
    mount.pc = "running" =>
        \A c \in CPUs :
            LET w == Window(Pair(c).head, Pair(c).tail)
                objs == txn[c].inodes \cup txn[c].fields
            IN  /\ Len(w) = Cardinality(objs)
                /\ {vmem[SlotLoc(c, w[j])].data1 : j \in DOMAIN w} = objs
====
