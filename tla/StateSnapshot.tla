----------------------------- MODULE StateSnapshot -----------------------------
(***************************************************************************)
(* Snapshots of an event journal and their recovery into an empty          *)
(* directory (research/portfolio_state_snapshot.py, the INTRADAY kind).    *)
(*                                                                         *)
(* The source journal is what EventJournal promises, an EventChain.  The   *)
(* target is EventJournal itself, file by file: the recovery appends the   *)
(* records of the snapshot through the calls of one writer, while other    *)
(* callers may append to the same directory.  The archive is a store of    *)
(* its own, written with the same create-only primitive.                   *)
(***************************************************************************)
EXTENDS EventJournal

CONSTANTS
  Terminal,     \* per MIGRATE_IN record, the seal its provenance names
  Bound, LiveRecord,  \* bounds: heads that are bound, records callers append
  MaxSnapshots, \* bound on the files in the archive
  Restorer      \* the writer that recovers

Live == Writer \ {Restorer}

Imports(S) == {r \in S : r.kind = "MIGRATE_IN"}
Seals(S)   == {r \in S : r.kind = "MIGRATE_OUT"}

ASSUME SnapshotAssumption ==
  /\ Restorer \in Writer
  /\ Terminal \in [Imports(Record) -> Seals(Record)]
  /\ \A H \in SUBSET Record : H # Absent /\ H # Torn

VARIABLES
  source,       \* the records of the source journal
  checkpoint,   \* the head the caller's binding vouches for
  archive,      \* per head, the snapshot file with its history
  save,         \* the save call: step, head and history
  saved,        \* heads a save was reported for
  restore,      \* the restore call: step, head, history, records appended
  restored      \* heads a recovery was reported for

backup       == <<source, checkpoint, archive, save, saved>>
snapshotVars == <<vars, backup, restore, restored>>

Idle == [step |-> "idle", head |-> Absent, history |-> {}, done |-> {}]

SnapshotInit ==
  /\ Init
  /\ source = {} /\ checkpoint = Absent
  /\ archive = [h \in Record |-> Absent]
  /\ save = Idle /\ saved = {}
  /\ restore = Idle /\ restored = {}

-----------------------------------------------------------------------------
(* Histories: the chain of an identity and of all it migrated from.        *)

Chained(S, i) == {r \in S : r.identity = i}

(* The identities one gets to from i, from each root to the seal it names. *)
Closed(S, L) == \A r \in Imports(S) : r.identity \in L => Terminal[r].identity \in L

Lineage(S, i) ==
  {j \in Identity : \A L \in SUBSET Identity : i \in L /\ Closed(S, L) => j \in L}

History(S, h) == {r \in S : r.identity \in Lineage(S, h.identity)}

HistoryUpTo(S, h) ==
  {r \in History(S, h) : r.identity = h.identity => r.sequence <= h.sequence}

(* Mutant of Verified: what an identity migrated from is not looked at. *)
VerifiedAlone(S, h) == IsHead(Chained(S, h.identity), h)

(* read_portfolio_event_state for a binding whose head is h, _verify_chain *)
(* included: every chain is complete, every migration names the seal of    *)
(* its source, and no identity is met twice.                               *)
Verified(S, h) ==
  /\ IsHead(Chained(S, h.identity), h)
  /\ \A i \in Lineage(S, h.identity) :
       /\ ValidChain(Chained(S, i))
       /\ \E r \in Chained(S, i) : r.kind \in RootKinds
       /\ \A r \in Imports(Chained(S, i)) :
            /\ IsHead(Chained(S, Terminal[r].identity), Terminal[r])
            /\ i \notin Lineage(S, Terminal[r].identity)

-----------------------------------------------------------------------------
(* The source goes on while it is saved; the caller learns of its heads.   *)
(* Nothing of this is shared with the target, so it is taken to happen     *)
(* before the directory of the target is touched.                          *)

Source == INSTANCE EventChain WITH committed <- source, receipts <- {}

Untouched == \A a \in Address : files[a] = Absent
Quiet     == restore.step = "idle" /\ restored = {} /\ Untouched

SourceCommits(r) ==
  /\ Quiet
  /\ Source!Commit(r)
  /\ r.kind = "MIGRATE_IN" => Terminal[r] \in source
  /\ UNCHANGED <<vars, checkpoint, archive, save, saved, restore, restored>>

Bind(h) ==
  /\ Quiet
  /\ h \in Bound /\ checkpoint # h
  /\ Verified(source, h)
  /\ checkpoint' = h
  /\ UNCHANGED <<vars, source, archive, save, saved, restore, restored>>

-----------------------------------------------------------------------------
(* _save: read the chain, then those it came from, validate, read again,   *)
(* create, read back.                                                      *)

SaveStep(from, to) ==
  /\ Quiet
  /\ save.step = from
  /\ save' = IF to = "idle" THEN Idle ELSE [save EXCEPT !.step = to]
  /\ UNCHANGED <<vars, source, checkpoint, restore, restored>>

SaveRead ==
  /\ Quiet
  /\ save.step = "idle"
  /\ checkpoint # Absent
  /\ Verified(source, checkpoint)
  /\ save' = [Idle EXCEPT !.step = "read", !.head = checkpoint,
                          !.history = Chained(source, checkpoint.identity)]
  /\ UNCHANGED <<vars, source, checkpoint, archive, saved, restore, restored>>

(* The sources of the migrations that were met and are not read yet. *)
Missing ==
  {Terminal[r].identity : r \in Imports(save.history)} \ {r.identity : r \in save.history}

SaveAncestor(i) ==
  /\ Quiet
  /\ save.step = "read"
  /\ i \in Missing /\ Chained(source, i) # {}
  /\ save' = [save EXCEPT !.history = @ \union Chained(source, i)]
  /\ UNCHANGED <<vars, source, checkpoint, archive, saved, restore, restored>>

SaveReread ==
  /\ save.step = "read" /\ Missing = {}
  /\ Verified(save.history, save.head)
  /\ IsHead(Chained(source, save.head.identity), save.head)
  /\ SaveStep("read", "create")
  /\ UNCHANGED <<archive, saved>>

(* The source went on: SNAPSHOT_SOURCE_CHANGED. *)
SaveChanged ==
  /\ save.step = "read" /\ Missing = {}
  /\ ~IsHead(Chained(source, save.head.identity), save.head)
  /\ SaveStep("read", "idle")
  /\ UNCHANGED <<archive, saved>>

SaveClaim ==
  /\ save.step = "create" /\ archive[save.head] = Absent
  /\ Cardinality({h \in Record : archive[h] # Absent}) < MaxSnapshots
  /\ SaveStep("create", "write")
  /\ archive' = [archive EXCEPT ![save.head] = Torn]
  /\ UNCHANGED saved

SaveWrite ==
  /\ SaveStep("write", "readback")
  /\ archive' = [archive EXCEPT ![save.head] = save.history]
  /\ UNCHANGED saved

(* The address is taken: whatever create_text raises, the file is read. *)
SaveTaken ==
  /\ save.step = "create" /\ archive[save.head] # Absent
  /\ SaveStep("create", "readback")
  /\ UNCHANGED <<archive, saved>>

(* Mutant of SaveConfirm: what create_text left is not read back. *)
SaveUnread ==
  /\ SaveStep("readback", "idle")
  /\ saved' = saved \union {save.head}
  /\ UNCHANGED archive

SaveConfirm ==
  /\ save.step = "readback" /\ archive[save.head] = save.history
  /\ SaveStep("readback", "idle")
  /\ saved' = saved \union {save.head}
  /\ UNCHANGED archive

(* The call fails, or its process ends, at any step. *)
SaveFails ==
  /\ save.step # "idle"
  /\ SaveStep(save.step, "idle")
  /\ UNCHANGED <<archive, saved>>

-----------------------------------------------------------------------------
(* _restore.  The directory is found empty once, before the first append.  *)

(* _read_snapshot: whole, and of the head the caller's binding expects. *)
Vouched(h) == archive[h] \notin {Absent, Torn} /\ h = checkpoint

RestoreStart(h) ==
  /\ Quiet /\ save.step = "idle"
  /\ Vouched(h)
  /\ restore' = [step |-> "append", head |-> h, history |-> archive[h], done |-> {}]
  /\ UNCHANGED <<vars, backup, restored>>

Todo == restore.history \ restore.done

(* Ancestors first, each chain in its order. *)
Before(r, s) ==
  IF r.identity = s.identity THEN r.sequence <= s.sequence
  ELSE r.identity \in Lineage(restore.history, s.identity)

Upcoming(r) == r \in Todo /\ \A s \in Todo : Before(r, s)

RestoreAppend ==
  /\ restore.step = "append"
  /\ \E r \in Todo : Upcoming(r) /\ Start(Restorer, r)
  /\ UNCHANGED <<backup, restore, restored>>

(* What create_text answers tells a receipt apart, which the recovery does *)
(* not look at: it is taken to tell the truth.                             *)
RestoreProceeds ==
  /\ \/ List(Restorer) \/ LoadFresh(Restorer) \/ CheckScope(Restorer)
     \/ Claim(Restorer) \/ TakenBySame(Restorer)
     \/ Write(Restorer) /\ created'[Restorer]
  /\ UNCHANGED <<backup, restore, restored>>

RestoreReceipt ==
  /\ LoadKnown(Restorer) \/ Confirm(Restorer)
  /\ restore' = [restore EXCEPT !.done = @ \union {rec[Restorer]}]
  /\ UNCHANGED <<backup, restored>>

(* append raises: what it did is unknown. *)
RestoreRaises ==
  /\ \/ LoadRefused(Restorer) \/ ScopeRefused(Restorer) \/ TakenByOther(Restorer)
     \/ Unconfirmed(Restorer) \/ Interrupt(Restorer)
  /\ restore' = [restore EXCEPT !.step = "reconcile"]
  /\ UNCHANGED <<backup, restored>>

Prefix(r) == {s \in restore.history : s.identity = r.identity /\ s.sequence <= r.sequence}

Reconciled(r) == Loadable(r.identity) /\ CurrentChain(r.identity) = Prefix(r)

(* One read decides, and the record is never appended a second time. *)
RestoreReconcile ==
  /\ restore.step = "reconcile"
  /\ \E r \in Todo :
       /\ Upcoming(r) /\ Reconciled(r)
       /\ restore' = [restore EXCEPT !.step = "append", !.done = @ \union {r}]
  /\ UNCHANGED <<vars, backup, restored>>

InTarget == UNION {CurrentChain(i) : i \in {j \in Identity : Loadable(j)}}

(* Mutant of RestoreVerify: every record has its receipt, that is enough. *)
RestoreUnverified ==
  /\ restore.step = "append" /\ Todo = {} /\ pc[Restorer] = "idle"
  /\ restored' = restored \union {restore.head}
  /\ restore' = Idle
  /\ UNCHANGED <<vars, backup>>

RestoreVerify ==
  /\ restore.step = "append" /\ Todo = {} /\ pc[Restorer] = "idle"
  /\ Verified(InTarget, restore.head)
  /\ History(InTarget, restore.head) = restore.history
  /\ restored' = restored \union {restore.head}
  /\ restore' = Idle
  /\ UNCHANGED <<vars, backup>>

(* The call gives up or its process ends: what is in the target stays. *)
RestoreFails ==
  /\ restore.step # "idle"
  /\ restore' = Idle
  /\ IF pc[Restorer] = "idle" THEN UNCHANGED vars ELSE Interrupt(Restorer)
  /\ UNCHANGED <<backup, restored>>

(* Other callers append to the directory that is being recovered. *)
LiveCall(w) ==
  /\ ~Quiet
  /\ Call(w)
  /\ rec'[w] \in LiveRecord \union {Absent}
  /\ UNCHANGED <<backup, restore, restored>>

SnapshotNext ==
  \/ \E r \in Record : SourceCommits(r) \/ Bind(r) \/ RestoreStart(r)
  \/ \E i \in Identity : SaveAncestor(i)
  \/ SaveRead \/ SaveReread \/ SaveChanged \/ SaveClaim \/ SaveWrite \/ SaveTaken
  \/ SaveConfirm \/ SaveFails
  \/ RestoreAppend \/ RestoreProceeds \/ RestoreReceipt \/ RestoreRaises
  \/ RestoreReconcile \/ RestoreVerify \/ RestoreFails
  \/ \E w \in Live : LiveCall(w)

SnapshotSpec == SnapshotInit /\ [][SnapshotNext]_snapshotVars

-----------------------------------------------------------------------------
Snapshots == {h \in Record : archive[h] \notin {Absent, Torn}}

(* A snapshot is the complete history of the source up to its head, and    *)
(* one that was reported saved stays readable.                             *)
SavedIsHistory ==
  /\ saved \subseteq Snapshots
  /\ \A h \in Snapshots : archive[h] = HistoryUpTo(source, h)

(* A recovery is reported when the directory holds the history of the head *)
(* the caller vouches for, no more and no less, whoever wrote to it, and   *)
(* never for an older one that the archive still has.                      *)
RestoredExactly ==
  [][\A h \in restored' \ restored :
       /\ h = checkpoint
       /\ Verified(InTarget, h)
       /\ History(InTarget, h) = HistoryUpTo(source, h)]_snapshotVars

(* A directory that verifies for a head holds all that led to it: a        *)
(* recovery that was cut short is never taken for a complete one.          *)
PartialNeverVerifies ==
  \A h \in Snapshots :
    Verified(InTarget, h) => archive[h] \subseteq InTarget
===============================================================================
