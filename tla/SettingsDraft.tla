---------------------------- MODULE SettingsDraft ----------------------------
(***************************************************************************)
(* Settings drafts (research/portfolio_settings_draft_io.py): a call that  *)
(* has persisted an event goes on to store the draft it came with, in a    *)
(* create-only file named by the head of the chain; later a consumer       *)
(* reads a draft back, with a receipt and a checkpoint of his own.         *)
(*                                                                         *)
(* The calls are those of IntradayState, every event persisted through     *)
(* persist_portfolio_settings_draft.  An artifact is determined by the     *)
(* record of its event, whose digest covers the frozen request, context    *)
(* and packet, and is represented by that record.                          *)
(***************************************************************************)
EXTENDS IntradayState

CONSTANT Reader   \* the consumers

VARIABLES
  drafts,    \* the files, by head digest: the artifact, NoRecord if torn
  making,    \* per call: the artifact it is storing, and how far it is
  handed,    \* the artifacts whose receipts were given out
  reading,   \* per consumer: what it asked for, and how far it is
  ready      \* per consumer: what passed its last preflight

artifacts == <<drafts, making, handed>>
consumers == <<reading, ready>>
allVars   == <<vars, artifacts, consumers>>

NotMaking == [step |-> "none", record |-> NoRecord]
NotReading ==
  [step |-> "none", head |-> NoRecord, receipt |-> NoRecord, afterOpen |-> FALSE]

DraftInit ==
  /\ Init
  /\ drafts = [s \in {} |-> NoRecord]
  /\ making = [c \in Call |-> NotMaking]
  /\ handed = {}
  /\ reading = [k \in Reader |-> NotReading]
  /\ ready = [k \in Reader |-> NoRecord]

-----------------------------------------------------------------------------
(* persist_portfolio_settings_draft, the part before the draft: a call of  *)
(* IntradayState.  Only an event that was just persisted and read back,    *)
(* and whose preview came without gaps, goes on.                           *)
Make(c, step, r) == making' = [making EXCEPT ![c] = [step |-> step, record |-> r]]

(* Mutant of Settled: the draft is stored before its state is read back. *)
SettledUnread(c) ==
  /\ Confirm(c) \/ Unconfirmed(c)
  /\ IF HasDraft(todo[c][1]) THEN Make(c, "create", todo[c][1]) ELSE UNCHANGED making

Settled(c) ==
  \/ /\ Confirm(c)
     /\ IF HasDraft(todo[c][1]) THEN Make(c, "create", todo[c][1]) ELSE UNCHANGED making
  \/ Unconfirmed(c) /\ UNCHANGED making

StateCall(c) ==
  /\ making[c].step = "none"
  /\ \/ /\ \/ \E i \in Identity, state \in [open: BOOLEAN, peak: {1}] : Initialize(c, i, state)
           \/ \E i \in Identity, d \in Delivery : Persist(c, i, d) \/ Replay(c, i, d)
           \/ \E i, j \in Identity : Migrate(c, i, j)
           \/ Claim(c) \/ Write(c) \/ NothingWritten(c) \/ ConfirmSeal(c) \/ Crash(c)
        /\ UNCHANGED making
     \/ Settled(c)
  /\ UNCHANGED <<drafts, handed, consumers>>

(* create_text: the file is made exclusively and then written. *)
At(c) == making[c].record.sha

Put(s, content) ==
  drafts' = [t \in DOMAIN drafts \union {s} |-> IF t = s THEN content ELSE drafts[t]]

(* read_text and _parse: a whole artifact, or nothing. *)
Parsed(s) == IF s \in DOMAIN drafts THEN drafts[s] ELSE NoRecord

(* Mutant of CreateDraft: whatever is there is replaced. *)
CreateDraftAnew(c) ==
  /\ making[c].step = "create"
  /\ Put(At(c), NoRecord)
  /\ Make(c, "write", making[c].record)
  /\ UNCHANGED <<vars, handed, consumers>>

CreateDraft(c) ==
  /\ making[c].step = "create" /\ At(c) \notin DOMAIN drafts
  /\ Put(At(c), NoRecord)
  /\ Make(c, "write", making[c].record)
  /\ UNCHANGED <<vars, handed, consumers>>

WriteDraft(c) ==
  /\ making[c].step = "write"
  /\ Put(At(c), making[c].record)
  /\ Make(c, "read", making[c].record)
  /\ UNCHANGED <<vars, handed, consumers>>

(* The file is there already, or the store failed: the exception is noted. *)
DraftNotWritten(c) ==
  /\ making[c].step = "create"
  /\ Make(c, "read", making[c].record)
  /\ UNCHANGED <<vars, drafts, handed, consumers>>

(* Mutant of ReadDraft: the receipt is for whatever is there. *)
ReadDraftUnparsed(c) ==
  /\ making[c].step = "read"
  /\ making' = [making EXCEPT ![c] = NotMaking]
  /\ handed' = handed \union {Parsed(At(c))}
  /\ UNCHANGED <<vars, drafts, consumers>>

(* One read decides what is reported, whatever became of the write. *)
ReadDraft(c) ==
  /\ making[c].step = "read"
  /\ making' = [making EXCEPT ![c] = NotMaking]
  /\ handed' = IF Parsed(At(c)) = making[c].record
               THEN handed \union {making[c].record} ELSE handed
  /\ UNCHANGED <<vars, drafts, consumers>>

CrashMaking(c) ==
  /\ crashes < MaxCrashes
  /\ making[c].step # "none" /\ (making[c].step = "write" => MidWrite)
  /\ crashes' = crashes + 1
  /\ making' = [making EXCEPT ![c] = NotMaking]
  /\ UNCHANGED <<chainVars, unreadable, calls, issued, drafts, handed, consumers>>

-----------------------------------------------------------------------------
(* read_portfolio_settings_draft and the preflight that renames its        *)
(* status.  The consumer brings the receipt of some draft, with the frozen *)
(* inputs it came from, and the checkpoint he holds for the head.          *)
AnyOpen == \E r \in committed : r.state.open

Preflight(k, head, receipt) ==
  /\ reading[k].step = "none"
  /\ reading' = [reading EXCEPT ![k] =
       [step |-> "state", head |-> head, receipt |-> receipt, afterOpen |-> AnyOpen]]
  /\ ready' = [ready EXCEPT ![k] = NoRecord]
  /\ UNCHANGED <<vars, artifacts>>

(* Mutant of StateIsCurrent: any record of the chain will do. *)
StateOnChain(r) == r \in Of(r.identity) /\ Verified(r.identity) /\ r.kind = "EVENT"

StateIsCurrent(r) == ReadBack(r) /\ r.kind = "EVENT"

Refused(k) == reading' = [reading EXCEPT ![k] = NotReading] /\ UNCHANGED ready

ReadState(k) ==
  /\ reading[k].step = "state"
  /\ IF StateIsCurrent(reading[k].head)
     THEN reading' = [reading EXCEPT ![k].step = "artifact"] /\ UNCHANGED ready
     ELSE Refused(k)
  /\ UNCHANGED <<vars, artifacts>>

(* The file is looked up by the head, and has to be what the receipt says. *)
ReadArtifact(k) ==
  /\ reading[k].step = "artifact"
  /\ LET found == Parsed(reading[k].head.sha)
     IN  ready' = IF found = reading[k].receipt /\ found = reading[k].head
                  THEN [ready EXCEPT ![k] = found] ELSE ready
  /\ reading' = [reading EXCEPT ![k] = NotReading]
  /\ UNCHANGED <<vars, artifacts>>

DraftNext ==
  \/ \E c \in Call :
       \/ StateCall(c)
       \/ CreateDraft(c) \/ WriteDraft(c) \/ DraftNotWritten(c) \/ ReadDraft(c)
       \/ CrashMaking(c)
  \/ \E k \in Reader :
       \/ \E head \in committed, receipt \in handed : Preflight(k, head, receipt)
       \/ ReadState(k) \/ ReadArtifact(k)

DraftSpec == DraftInit /\ [][DraftNext]_allVars

-----------------------------------------------------------------------------
Steps   == {"none", "create", "write", "read"}
Stages  == {"none", "state", "artifact"}

DraftTypeOK ==
  /\ TypeOK
  /\ \A s \in DOMAIN drafts : MaybeRecord(drafts[s])
  /\ \A c \in Call :
       /\ making[c].step \in Steps /\ MaybeRecord(making[c].record)
       /\ making[c].step # "none" => pc[c] = "idle" /\ making[c].record # NoRecord
  /\ \A r \in handed : RecordOK(r)
  /\ \A k \in Reader :
       /\ reading[k].step \in Stages
       /\ MaybeRecord(reading[k].head) /\ MaybeRecord(reading[k].receipt)
       /\ reading[k].afterOpen \in BOOLEAN
       /\ MaybeRecord(ready[k])

(* Draft and state are two writes and either may be lost: the state is     *)
(* always the first, so that no draft is ever found for an event that the  *)
(* chain does not hold.                                                    *)
DraftFollowsState ==
  \A s \in DOMAIN drafts : \E r \in committed : r.sha = s

(* A draft that was reported stored stays as it is, whoever stores the     *)
(* same event's draft again or dies on it.                                 *)
ReceiptHonoured ==
  \A r \in handed : r.sha \in DOMAIN drafts /\ drafts[r.sha] = r

(* A preflight that begins when a breaker is open never clears a draft     *)
(* that was computed for a closed one, whichever receipt and checkpoint    *)
(* the consumer brings.                                                    *)
Cleared(k) == ready'[k] # NoRecord /\ ready'[k] # ready[k]

OpenBlocksOldDrafts ==
  [][\A k \in Reader : Cleared(k) /\ reading[k].afterOpen => ready'[k].state.open]_allVars
===============================================================================
