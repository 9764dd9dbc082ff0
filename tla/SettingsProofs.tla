---------------------------- MODULE SettingsProofs ----------------------------
(***************************************************************************)
(* Proofs about SettingsDraft, for any number of calls and consumers: a    *)
(* draft is only ever found for an event of the chain, one that was        *)
(* reported stored stays as it is, and no consumer that begins with a      *)
(* breaker open is given a draft for a closed one.                         *)
(* They rest on the invariant of IntradayState: every step of SettingsDraft*)
(* is one of its steps, or leaves the calls and the chains alone.          *)
(***************************************************************************)
EXTENDS SettingsDraft, IntradayProofs

(* What is being stored, and what is stored, is on the chain already. *)
Stored == \A s \in DOMAIN drafts : \E r \in committed : r.sha = s
Making == \A c \in Call : making[c].step # "none" => making[c].record \in committed

(* A receipt is for a record of the chain, and its file is there. *)
Honoured == handed \subseteq committed /\ ReceiptHonoured

(* A consumer that began with a breaker open and has seen its head as the  *)
(* head of the chain holds a head whose breaker is open.                   *)
Reading ==
  \A k \in Reader : reading[k].afterOpen =>
    /\ AnyOpen
    /\ reading[k].step = "artifact" => reading[k].head.state.open

Stage == {"step", "head", "receipt", "afterOpen"}

DraftShapes ==
  /\ DOMAIN making = Call
  /\ DOMAIN reading = Reader /\ DOMAIN ready = Reader
  /\ \A k \in Reader : DOMAIN reading[k] = Stage

DraftInv == IInv /\ DraftShapes /\ Stored /\ Making /\ Honoured /\ Reading

-----------------------------------------------------------------------------
(* The calls: their steps are steps of IntradayState. *)
LEMMA CallStep ==
  ASSUME NEW c \in Call, StateCall(c) PROVE [Next]_vars
BY DEF StateCall, Settled, Next

LEMMA NextGrows ==
  ASSUME [Next]_vars PROVE committed \subseteq committed'
<1>1. CASE UNCHANGED vars
  BY <1>1 DEF vars, chainVars
<1>2. CASE Next
  <2>1. ASSUME NEW c \in Call, NEW i, NEW j, NEW x,
               Initialize(c, i, x) \/ Persist(c, i, x) \/ Replay(c, i, x) \/ Migrate(c, i, j)
        PROVE  committed' = committed
    BY <2>1 DEF Initialize, Persist, Replay, Migrate, Begin, chainVars
  <2>2. ASSUME NEW c \in Call,
               \/ Claim(c) \/ NothingWritten(c)
               \/ ConfirmSeal(c) \/ Confirm(c) \/ Unconfirmed(c) \/ Crash(c)
        PROVE  committed' = committed
    BY <2>2 DEF Claim, NothingWritten, ConfirmSeal, Confirm, Unconfirmed, Crash, chainVars
  <2>3. ASSUME NEW c \in Call, Write(c) PROVE committed \subseteq committed'
    BY <2>3 DEF Write, Commit
  <2> QED BY <1>2, <2>1, <2>2, <2>3 DEF Next
<1> QED BY <1>1, <1>2

(* Readers and drafts look at the chain only, and the chain only grows. *)
LEMMA ReadingGrows ==
  ASSUME DraftShapes, Reading, committed \subseteq committed', reading' = reading
  PROVE  Reading'
BY DEF Reading, AnyOpen

LEMMA StoredGrows ==
  ASSUME Stored, Honoured, committed \subseteq committed', drafts' = drafts, handed' = handed
  PROVE  Stored' /\ Honoured'
BY DEF Stored, Honoured, ReceiptHonoured

LEMMA CallKeeps ==
  ASSUME DraftInv, NEW c \in Call, StateCall(c)
  PROVE  DraftInv'
<1>1. IInv' /\ committed \subseteq committed'
  BY CallStep, StepKeeps, NextGrows DEF DraftInv
<1>2. drafts' = drafts /\ handed' = handed /\ reading' = reading /\ ready' = ready
  BY DEF StateCall, consumers
<1>3. Stored' /\ Honoured' /\ Reading'
  BY <1>1, <1>2, StoredGrows, ReadingGrows DEF DraftInv
<1>4. CASE making' = making
  BY <1>1, <1>2, <1>3, <1>4 DEF DraftInv, DraftShapes, Making
<1>5. CASE making' # making
  <2>1. /\ Confirm(c)
        /\ making' = [making EXCEPT ![c] = [step |-> "create", record |-> todo[c][1]]]
    BY <1>5 DEF StateCall, Settled, Make
  <2>2. todo[c][1] \in committed
    BY <2>1 DEF Confirm, ReadBack, Of
  <2>3. Making'
    BY <1>1, <2>1, <2>2 DEF DraftInv, DraftShapes, Making
  <2> QED BY <1>1, <1>2, <1>3, <2>1, <2>3 DEF DraftInv, DraftShapes
<1> QED BY <1>4, <1>5

-----------------------------------------------------------------------------
(* The artifact files. *)
LEMMA OneRecordPerDigest ==
  ASSUME Chains, NEW r \in committed, NEW s \in committed, r.sha = s.sha
  PROVE  r = s
BY DigestTells DEF Chains, Wells, Well, Unique

LEMMA StoringKeeps ==
  ASSUME DraftInv, NEW c \in Call,
         \/ CreateDraft(c) \/ WriteDraft(c) \/ DraftNotWritten(c) \/ ReadDraft(c) \/ CrashMaking(c)
  PROVE  DraftInv'
<1>1. /\ committed' = committed /\ pc' = pc /\ todo' = todo /\ out' = out
      /\ reading' = reading /\ ready' = ready /\ making[c].step # "none"
  BY DEF CreateDraft, WriteDraft, DraftNotWritten, ReadDraft, CrashMaking,
         vars, chainVars, calls, consumers
<1>2. IInv'
  BY <1>1, StutterKeeps DEF DraftInv
<1>3. making[c].record \in committed
  BY <1>1 DEF DraftInv, Making
<1>4. Reading'
  BY <1>1, ReadingGrows DEF DraftInv
<1>5. Stored' /\ Honoured'
  <2>1. CASE drafts' = drafts
    <3>1. Stored'
      BY <1>1, <2>1 DEF DraftInv, Stored
    <3>2. ASSUME handed' # handed
          PROVE  /\ handed' = handed \union {making[c].record}
                 /\ Parsed(At(c)) = making[c].record /\ making[c].record # NoRecord
      <4>1. ReadDraft(c)
        BY <3>2 DEF CreateDraft, WriteDraft, DraftNotWritten, ReadDraft, CrashMaking
      <4>2. making[c].record.kind \in Kinds
        BY <1>3 DEF DraftInv, IInv, Chains, Wells, Well
      <4>3. NoRecord.kind \notin Kinds
        BY DEF NoRecord, Kinds, RootKinds
      <4> QED BY <3>2, <4>1, <4>2, <4>3 DEF ReadDraft
    <3>3. Honoured'
      BY <1>1, <1>3, <2>1, <3>2 DEF DraftInv, Honoured, ReceiptHonoured, Parsed, At
    <3> QED BY <3>1, <3>3
  <2>2. CASE drafts' # drafts
    <3>1. PICK x : Put(At(c), x) /\ (At(c) \in DOMAIN drafts => x = making[c].record)
      BY <2>2 DEF CreateDraft, WriteDraft, DraftNotWritten, ReadDraft, CrashMaking
    <3>2. handed' = handed
      BY <2>2 DEF CreateDraft, WriteDraft, DraftNotWritten, ReadDraft, CrashMaking
    <3>3. DOMAIN drafts' = DOMAIN drafts \union {At(c)}
      BY <3>1 DEF Put
    <3>4. Stored'
      BY <1>1, <1>3, <3>3 DEF DraftInv, Stored, At
    <3>5. ASSUME NEW r \in handed PROVE r.sha \in DOMAIN drafts' /\ drafts'[r.sha] = r
      <4>1. r \in committed /\ r.sha \in DOMAIN drafts /\ drafts[r.sha] = r
        BY DEF DraftInv, Honoured, ReceiptHonoured
      <4>2. CASE r.sha = At(c)
        <5>1. r = making[c].record
          BY <1>3, <4>1, <4>2, OneRecordPerDigest DEF DraftInv, At, IInv
        <5> QED BY <3>1, <3>3, <4>1, <4>2, <5>1 DEF Put
      <4>3. CASE r.sha # At(c)
        BY <3>1, <3>3, <4>1, <4>3 DEF Put
      <4> QED BY <4>2, <4>3
    <3> QED BY <1>1, <3>2, <3>4, <3>5 DEF DraftInv, Honoured, ReceiptHonoured
  <2> QED BY <2>1, <2>2
<1>6. DOMAIN making' = Call /\ Making'
  <2>1. CASE making' = [making EXCEPT ![c] = NotMaking]
    BY <1>1, <2>1 DEF DraftInv, DraftShapes, Making, NotMaking
  <2>2. CASE \E s : Make(c, s, making[c].record)
    BY <1>1, <1>3, <2>2 DEF DraftInv, DraftShapes, Making, Make
  <2> QED BY <2>1, <2>2 DEF CreateDraft, WriteDraft, DraftNotWritten, ReadDraft, CrashMaking
<1> QED BY <1>1, <1>2, <1>4, <1>5, <1>6 DEF DraftInv, DraftShapes

-----------------------------------------------------------------------------
(* The consumers. *)
LEMMA ConsumerQuiet ==
  ASSUME DraftInv, UNCHANGED <<vars, artifacts>>, DOMAIN ready' = Reader,
         DOMAIN reading' = Reader, \A k \in Reader : DOMAIN reading'[k] = Stage,
         Reading'
  PROVE  DraftInv'
<1>1. committed' = committed /\ drafts' = drafts /\ making' = making /\ handed' = handed /\ IInv'
  BY StutterKeeps DEF DraftInv, vars, chainVars, calls, artifacts
<1> QED BY <1>1 DEF DraftInv, DraftShapes, Stored, Making, Honoured, ReceiptHonoured

LEMMA PreflightKeeps ==
  ASSUME DraftInv, NEW k \in Reader, NEW head, NEW receipt, Preflight(k, head, receipt)
  PROVE  DraftInv'
<1>1. /\ reading' = [reading EXCEPT ![k] =
           [step |-> "state", head |-> head, receipt |-> receipt, afterOpen |-> AnyOpen]]
      /\ ready' = [ready EXCEPT ![k] = NoRecord]
      /\ UNCHANGED <<vars, artifacts>> /\ committed' = committed
  BY DEF Preflight, vars, chainVars
<1>2. Reading'
  BY <1>1 DEF DraftInv, DraftShapes, Reading, AnyOpen
<1> QED BY <1>1, <1>2, ConsumerQuiet DEF DraftInv, DraftShapes, Stage

(* The head that is read back dominates all that is committed. *)
LEMMA ReadStateKeeps ==
  ASSUME DraftInv, NEW k \in Reader, ReadState(k)
  PROVE  DraftInv'
<1>1. UNCHANGED <<vars, artifacts>> /\ committed' = committed /\ ready' = ready
  BY DEF ReadState, Refused, vars, chainVars
<1>2. CASE StateIsCurrent(reading[k].head)
  <2>1. reading' = [reading EXCEPT ![k].step = "artifact"]
    BY <1>2 DEF ReadState
  <2>2. ASSUME AnyOpen PROVE reading[k].head.state.open
    BY <1>2, <2>2, ConfirmedDominates DEF StateIsCurrent, AnyOpen, DraftInv
  <2>3. Reading'
    BY <1>1, <2>1, <2>2 DEF DraftInv, DraftShapes, Stage, Reading, AnyOpen
  <2> QED BY <1>1, <2>1, <2>3, ConsumerQuiet DEF DraftInv, DraftShapes, Stage
<1>3. CASE ~StateIsCurrent(reading[k].head)
  <2>1. reading' = [reading EXCEPT ![k] = NotReading]
    BY <1>3 DEF ReadState, Refused
  <2>2. Reading'
    BY <1>1, <2>1 DEF DraftInv, DraftShapes, Reading, AnyOpen, NotReading
  <2> QED BY <1>1, <2>1, <2>2, ConsumerQuiet DEF DraftInv, DraftShapes, Stage, NotReading
<1> QED BY <1>2, <1>3

LEMMA ReadArtifactKeeps ==
  ASSUME DraftInv, NEW k \in Reader, ReadArtifact(k)
  PROVE  DraftInv'
<1>1. /\ UNCHANGED <<vars, artifacts>> /\ committed' = committed
      /\ reading' = [reading EXCEPT ![k] = NotReading] /\ DOMAIN ready' = Reader
  BY DEF ReadArtifact, vars, chainVars, DraftInv, DraftShapes
<1>2. Reading'
  BY <1>1 DEF DraftInv, DraftShapes, Reading, AnyOpen, NotReading
<1> QED BY <1>1, <1>2, ConsumerQuiet DEF DraftInv, DraftShapes, Stage, NotReading

-----------------------------------------------------------------------------
(* The invariant holds from the start and is kept by every step. *)
LEMMA DraftInitHolds == DraftInit => DraftInv
<1> SUFFICES ASSUME DraftInit PROVE DraftInv
  OBVIOUS
<1>1. IInv
  BY InitHolds DEF DraftInit
<1>2. DraftShapes /\ Stored /\ Making /\ Honoured /\ Reading
  BY DEF DraftInit, Honoured, ReceiptHonoured, DraftShapes, Stage, NotMaking, NotReading, Stored, Making, Reading
<1> QED BY <1>1, <1>2 DEF DraftInv

LEMMA DraftStepKeeps == DraftInv /\ [DraftNext]_allVars => DraftInv'
<1> SUFFICES ASSUME DraftInv, [DraftNext]_allVars PROVE DraftInv'
  OBVIOUS
<1>1. CASE UNCHANGED allVars
  BY <1>1, ConsumerQuiet DEF allVars, consumers, DraftInv, DraftShapes, Reading, AnyOpen,
                             vars, chainVars
<1>2. ASSUME NEW c \in Call,
             \/ StateCall(c)
             \/ CreateDraft(c) \/ WriteDraft(c) \/ DraftNotWritten(c) \/ ReadDraft(c)
             \/ CrashMaking(c)
      PROVE  DraftInv'
  BY <1>2, CallKeeps, StoringKeeps
<1>3. ASSUME NEW k \in Reader,
             \/ \E head \in committed, receipt \in handed : Preflight(k, head, receipt)
             \/ ReadState(k) \/ ReadArtifact(k)
      PROVE  DraftInv'
  BY <1>3, PreflightKeeps, ReadStateKeeps, ReadArtifactKeeps
<1> QED BY <1>1, <1>2, <1>3 DEF DraftNext

LEMMA DraftInductive == DraftSpec => []DraftInv
<1>1. DraftInit => DraftInv
  BY DraftInitHolds
<1>2. DraftInv /\ [DraftNext]_allVars => DraftInv'
  BY DraftStepKeeps
<1> QED BY <1>1, <1>2, PTL DEF DraftSpec

-----------------------------------------------------------------------------
(* State and draft are written one after the other, and whichever write is *)
(* lost: what is found under a digest belongs to an event of the chain     *)
(* (persist_portfolio_settings_draft).                                     *)
THEOREM StateFirst == DraftSpec => []DraftFollowsState
<1>1. DraftInv => DraftFollowsState
  BY DEF DraftInv, Stored, DraftFollowsState
<1> QED BY <1>1, DraftInductive, PTL

(* What the receipt says stays true (persist_portfolio_settings_draft):    *)
(* deliveries of one event that store its draft at once or again, cut      *)
(* short or not, leave a file that was reported stored as it is.           *)
THEOREM ReceiptsHold == DraftSpec => []ReceiptHonoured
<1>1. DraftInv => ReceiptHonoured
  BY DEF DraftInv, Honoured
<1> QED BY <1>1, DraftInductive, PTL

(* The head a preflight reads back cannot be older than a breaker that was *)
(* open when it began.                                                     *)
LEMMA ClearedIsOpen ==
  DraftInv /\ [DraftNext]_allVars =>
    [\A k \in Reader : Cleared(k) /\ reading[k].afterOpen => ready'[k].state.open]_allVars
<1> SUFFICES ASSUME DraftInv, DraftNext, NEW k \in Reader, Cleared(k), reading[k].afterOpen
             PROVE  ready'[k].state.open
  BY DEF allVars
<1>1. ready' # ready /\ ready'[k] # NoRecord /\ ready'[k] # ready[k]
  BY DEF Cleared
<1>2. \E j \in Reader :
        ReadArtifact(j) \/ \E head, receipt : Preflight(j, head, receipt)
  BY <1>1 DEF DraftNext, StateCall, CreateDraft, WriteDraft, DraftNotWritten, ReadDraft,
              CrashMaking, ReadState, Refused, consumers
<1>3. PICK j \in Reader :
        ReadArtifact(j) \/ \E head, receipt : Preflight(j, head, receipt)
  BY <1>2
<1>4. ~\E head, receipt : Preflight(j, head, receipt)
  BY <1>1 DEF Preflight, DraftInv, DraftShapes
<1>5. j = k /\ reading[k].step = "artifact" /\ ready'[k] = reading[k].head
  BY <1>1, <1>3, <1>4 DEF ReadArtifact, DraftInv, DraftShapes
<1> QED BY <1>5 DEF DraftInv, Reading

(* A preflight that begins with a breaker open anywhere in the scope       *)
(* (read_portfolio_settings_draft) clears no draft for a closed one.       *)
THEOREM OpenBlocks == DraftSpec => OpenBlocksOldDrafts
BY DraftInductive, ClearedIsOpen, PTL DEF DraftSpec, OpenBlocksOldDrafts

(* Only the part of a call that IntradayState has issues anything: what    *)
(* stores, reads or loses a draft leaves that alone.                       *)
LEMMA DraftStepIsFresh ==
  DraftInv /\ [DraftNext]_allVars =>
    [\A r \in issued' \ issued : r.state.open \/ \A s \in committed : ~s.state.open]_vars
<1> SUFFICES ASSUME DraftInv, DraftNext, NEW r \in issued' \ issued, ~r.state.open
             PROVE  \A s \in committed : ~s.state.open
  BY DEF allVars, vars
<1>1. ASSUME NEW c \in Call,
             \/ CreateDraft(c) \/ WriteDraft(c) \/ DraftNotWritten(c) \/ ReadDraft(c)
             \/ CrashMaking(c)
      PROVE  issued' = issued
  BY <1>1 DEF CreateDraft, WriteDraft, DraftNotWritten, ReadDraft, CrashMaking, vars
<1>2. ASSUME NEW k \in Reader, NEW head, NEW receipt,
             Preflight(k, head, receipt) \/ ReadState(k) \/ ReadArtifact(k)
      PROVE  issued' = issued
  BY <1>2 DEF Preflight, ReadState, ReadArtifact, vars
<1>3. PICK c \in Call : StateCall(c)
  BY <1>1, <1>2 DEF DraftNext
<1>4. [\A q \in issued' \ issued : q.state.open \/ \A s \in committed : ~s.state.open]_vars
  BY <1>3, CallStep, StepIsFresh DEF DraftInv
<1> QED BY <1>4 DEF vars

(* The draft a call of persist_portfolio_settings_draft goes on to store   *)
(* is as fresh as one that IntradayState hands out: none for a closed      *)
(* breaker once an open one is committed, whatever became of other drafts. *)
THEOREM DraftsStayFresh == DraftSpec => NoStaleDraft
BY DraftInductive, DraftStepIsFresh, PTL DEF DraftSpec, NoStaleDraft, allVars

-----------------------------------------------------------------------------
(* Types.  A draft is only stored by a call that is done with its state.   *)
LEMMA CallAlone ==
  ASSUME IInv, NEW c \in Call, StateCall(c), NEW e \in Call \ {c}
  PROVE  pc'[e] = pc[e]
<1>1. ASSUME NEW i, NEW j, NEW x,
             Initialize(c, i, x) \/ Persist(c, i, x) \/ Replay(c, i, x) \/ Migrate(c, i, j)
      PROVE  pc'[e] = pc[e]
  BY <1>1 DEF Initialize, Persist, Replay, Migrate, Begin, IInv, Shapes
<1>2. ASSUME \/ Claim(c) \/ Write(c) \/ NothingWritten(c)
             \/ ConfirmSeal(c) \/ Confirm(c) \/ Unconfirmed(c) \/ Crash(c)
      PROVE  pc'[e] = pc[e]
  BY <1>2 DEF Claim, Write, NothingWritten, ConfirmSeal, Confirm, Unconfirmed, Crash, End,
              IInv, Shapes
<1> QED BY <1>1, <1>2 DEF StateCall, Settled

LEMMA CommittedIsRecord ==
  ASSUME IInv, TypeOK, NEW r \in committed
  PROVE  RecordOK(r) /\ r # NoRecord
<1>1. r.kind \in Kinds /\ NoRecord.kind \notin Kinds
  BY DEF IInv, Chains, Wells, Well, NoRecord, Kinds, RootKinds
<1> QED BY <1>1 DEF TypeOK

(* What a call is storing; what a consumer holds. *)
StoringOK(m) == m.step \in Steps /\ MaybeRecord(m.record)

AskedOK(a) ==
  /\ a.step \in Stages /\ MaybeRecord(a.head) /\ MaybeRecord(a.receipt)
  /\ a.afterOpen \in BOOLEAN

NotBusy(c) == making[c].step # "none" => pc[c] = "idle" /\ making[c].record # NoRecord

FilesTyped ==
  /\ \A s \in DOMAIN drafts : MaybeRecord(drafts[s])
  /\ \A c \in Call : StoringOK(making[c]) /\ NotBusy(c)
  /\ \A k \in Reader : AskedOK(reading[k]) /\ MaybeRecord(ready[k])

LEMMA TypedByParts ==
  ASSUME DraftInv
  PROVE  DraftTypeOK <=> TypeOK /\ FilesTyped
<1>1. TypeOK => \A r \in handed : RecordOK(r)
  BY DEF DraftInv, Honoured, TypeOK
<1> QED BY <1>1 DEF DraftTypeOK, FilesTyped, StoringOK, AskedOK, NotBusy

LEMMA CallTyped ==
  ASSUME DraftInv, DraftInv', TypeOK', FilesTyped, NEW c \in Call, StateCall(c)
  PROVE  FilesTyped'
<1>1. /\ drafts' = drafts /\ reading' = reading /\ ready' = ready
      /\ making[c].step = "none"
  BY DEF StateCall, consumers
<1>2. CASE making' = making
  <2>1. ASSUME NEW e \in Call PROVE NotBusy(e)'
    <3>1. e # c => pc'[e] = pc[e]
      BY CallAlone DEF DraftInv
    <3> QED BY <1>1, <1>2, <3>1 DEF FilesTyped, NotBusy
  <2> QED BY <1>1, <1>2, <2>1 DEF FilesTyped, StoringOK, AskedOK, MaybeRecord, RecordOK
<1>3. CASE making' # making
  <2>1. /\ Confirm(c)
        /\ making' = [making EXCEPT ![c] = [step |-> "create", record |-> todo[c][1]]]
    BY <1>3 DEF StateCall, Settled, Make
  <2>2. pc' = [pc EXCEPT ![c] = "idle"] /\ committed' = committed
    BY <2>1 DEF Confirm, End, chainVars
  <2>3. PICK r : r = todo[c][1]
    OBVIOUS
  <2>4. RecordOK(r) /\ r # NoRecord
    <3>1. r \in committed'
      BY <2>1, <2>2, <2>3 DEF Confirm, ReadBack, Of
    <3>2. r.kind \in Kinds /\ NoRecord.kind \notin Kinds
      BY <2>2, <3>1 DEF DraftInv, IInv, Chains, Wells, Well, NoRecord, Kinds, RootKinds
    <3> QED BY <3>1, <3>2 DEF TypeOK
  <2>5. ASSUME NEW e \in Call PROVE StoringOK(making'[e]) /\ NotBusy(e)'
    <3>1. CASE e = c
      <4>1. making'[e] = [step |-> "create", record |-> r] /\ pc'[e] = "idle"
        BY <2>1, <2>2, <2>3, <3>1 DEF DraftInv, DraftShapes, IInv, Shapes
      <4> QED BY <2>4, <4>1 DEF StoringOK, NotBusy, Steps, MaybeRecord
    <3>2. CASE e # c
      <4>1. making'[e] = making[e] /\ pc'[e] = pc[e]
        BY <2>1, <2>2, <3>2 DEF DraftInv, DraftShapes, IInv, Shapes
      <4> QED BY <4>1 DEF FilesTyped, NotBusy
    <3> QED BY <3>1, <3>2
  <2> QED BY <1>1, <2>5 DEF FilesTyped, StoringOK, AskedOK, MaybeRecord, RecordOK
<1> QED BY <1>2, <1>3

LEMMA StoringTyped ==
  ASSUME DraftInv, TypeOK, FilesTyped, NEW c \in Call,
         \/ CreateDraft(c) \/ WriteDraft(c) \/ DraftNotWritten(c) \/ ReadDraft(c) \/ CrashMaking(c)
  PROVE  TypeOK' /\ FilesTyped'
<1>1. /\ UNCHANGED <<committed, unreadable, pc, todo, out, issued, reading, ready>>
      /\ making[c].step # "none"
      /\ crashes' = crashes \/ (crashes' = crashes + 1 /\ crashes < MaxCrashes)
  BY DEF CreateDraft, WriteDraft, DraftNotWritten, ReadDraft, CrashMaking,
         vars, chainVars, calls, consumers
<1>2. TypeOK'
  <2>1. crashes' \in 0..MaxCrashes
    BY <1>1, IntradayAssumption DEF TypeOK
  <2> QED BY <1>1, <2>1 DEF TypeOK, RecordOK, OutputOK, MaybeRecord
<1>3. RecordOK(making[c].record) /\ making[c].record # NoRecord /\ pc[c] = "idle"
  BY <1>1, CommittedIsRecord DEF DraftInv, Making, FilesTyped, NotBusy
<1>4. \A s \in DOMAIN drafts' : MaybeRecord(drafts'[s])
  <2>1. CASE drafts' = drafts
    BY <2>1 DEF FilesTyped
  <2>2. CASE drafts' # drafts
    <3>1. PICK x : Put(At(c), x) /\ MaybeRecord(x)
      BY <1>3, <2>2 DEF CreateDraft, WriteDraft, DraftNotWritten, ReadDraft, CrashMaking, MaybeRecord
    <3> QED BY <3>1 DEF Put, FilesTyped
  <2> QED BY <2>1, <2>2
<1>5. PICK m : making' = [making EXCEPT ![c] = m] /\ StoringOK(m) /\ (m.step # "none" => m.record = making[c].record)
  <2>1. CASE making' = [making EXCEPT ![c] = NotMaking]
    <3>1. StoringOK(NotMaking) /\ NotMaking.step = "none"
      BY DEF StoringOK, NotMaking, Steps, MaybeRecord
    <3> QED BY <2>1, <3>1
  <2>2. CASE \E s \in {"write", "read"} : Make(c, s, making[c].record)
    <3>1. PICK s \in {"write", "read"} : Make(c, s, making[c].record)
      BY <2>2
    <3>2. PICK n : n = [step |-> s, record |-> making[c].record]
      OBVIOUS
    <3>3. StoringOK(n) /\ n.record = making[c].record
      BY <1>3, <3>2 DEF StoringOK, Steps, MaybeRecord
    <3> QED BY <3>1, <3>2, <3>3 DEF Make
  <2> QED BY <2>1, <2>2 DEF CreateDraft, WriteDraft, DraftNotWritten, ReadDraft, CrashMaking
<1>6. ASSUME NEW e \in Call PROVE StoringOK(making'[e]) /\ NotBusy(e)'
  <2>1. making'[e] = IF e = c THEN m ELSE making[e]
    BY <1>5 DEF DraftInv, DraftShapes
  <2> QED BY <1>1, <1>3, <1>5, <2>1 DEF FilesTyped, NotBusy
<1> QED BY <1>1, <1>2, <1>4, <1>6 DEF FilesTyped, StoringOK, AskedOK, MaybeRecord, RecordOK

LEMMA ConsumerTyped ==
  ASSUME DraftInv, TypeOK, FilesTyped, NEW k \in Reader,
         \/ \E head \in committed, receipt \in handed : Preflight(k, head, receipt)
         \/ ReadState(k) \/ ReadArtifact(k)
  PROVE  TypeOK' /\ FilesTyped'
<1>1. UNCHANGED <<vars, artifacts>>
  BY DEF Preflight, ReadState, ReadArtifact
<1>2. TypeOK'
  BY <1>1 DEF TypeOK, RecordOK, OutputOK, MaybeRecord, vars, chainVars, calls
<1>3. PICK a : reading' = [reading EXCEPT ![k] = a] /\ AskedOK(a)
  <2>1. CASE \E head \in committed, receipt \in handed : Preflight(k, head, receipt)
    <3>1. PICK head \in committed, receipt \in handed : Preflight(k, head, receipt)
      BY <2>1
    <3>2. MaybeRecord(head) /\ MaybeRecord(receipt)
      BY DEF DraftInv, Honoured, TypeOK, MaybeRecord
    <3>3. AnyOpen \in BOOLEAN
      BY DEF AnyOpen
    <3>4. PICK a : a = [step |-> "state", head |-> head, receipt |-> receipt, afterOpen |-> AnyOpen]
      OBVIOUS
    <3>5. AskedOK(a)
      BY <3>2, <3>3, <3>4 DEF AskedOK, Stages
    <3> QED BY <3>1, <3>4, <3>5 DEF Preflight
  <2>2. CASE reading' = [reading EXCEPT ![k] = NotReading]
    <3>1. AskedOK(NotReading)
      BY DEF AskedOK, NotReading, Stages, MaybeRecord
    <3> QED BY <2>2, <3>1
  <2>3. CASE reading' = [reading EXCEPT ![k].step = "artifact"]
    <3>1. PICK a : a = [reading[k] EXCEPT !.step = "artifact"]
      OBVIOUS
    <3>2. /\ a.step = "artifact" /\ a.head = reading[k].head /\ a.receipt = reading[k].receipt
          /\ a.afterOpen = reading[k].afterOpen
      BY <3>1 DEF DraftInv, DraftShapes, Stage
    <3>3. AskedOK(a)
      BY <3>2 DEF AskedOK, FilesTyped, Stages
    <3> QED BY <2>3, <3>1, <3>3
  <2> QED BY <2>1, <2>2, <2>3 DEF ReadState, ReadArtifact, Refused
<1>4. ready' = ready \/ \E r : ready' = [ready EXCEPT ![k] = r] /\ MaybeRecord(r)
  <2>1. MaybeRecord(NoRecord)
    BY DEF MaybeRecord
  <2>2. MaybeRecord(Parsed(reading[k].head.sha))
    BY DEF Parsed, FilesTyped, MaybeRecord
  <2> QED BY <2>1, <2>2 DEF Preflight, ReadState, Refused, ReadArtifact
<1>5. ASSUME NEW l \in Reader PROVE AskedOK(reading'[l]) /\ MaybeRecord(ready'[l])
  <2>1. reading'[l] = IF l = k THEN a ELSE reading[l]
    BY <1>3 DEF DraftInv, DraftShapes
  <2>2. MaybeRecord(ready'[l])
    BY <1>4 DEF DraftInv, DraftShapes, FilesTyped
  <2> QED BY <1>3, <2>1, <2>2 DEF FilesTyped
<1>6. UNCHANGED <<drafts, making, pc>>
  BY <1>1 DEF vars, calls, artifacts
<1> QED BY <1>2, <1>5, <1>6 DEF FilesTyped, StoringOK, AskedOK, NotBusy, MaybeRecord, RecordOK

LEMMA DraftStepTyped ==
  DraftInv /\ DraftInv' /\ TypeOK /\ FilesTyped /\ [DraftNext]_allVars => TypeOK' /\ FilesTyped'
<1> SUFFICES ASSUME DraftInv, DraftInv', TypeOK, FilesTyped, [DraftNext]_allVars
             PROVE  TypeOK' /\ FilesTyped'
  OBVIOUS
<1>1. CASE UNCHANGED allVars
  BY <1>1 DEF allVars, vars, chainVars, calls, artifacts, consumers, TypeOK, RecordOK, OutputOK,
              MaybeRecord, FilesTyped, StoringOK, AskedOK, NotBusy
<1>2. ASSUME NEW c \in Call, StateCall(c) PROVE TypeOK' /\ FilesTyped'
  <2>1. TypeOK'
    BY <1>2, CallStep, StepTyped DEF DraftInv
  <2> QED BY <1>2, <2>1, CallTyped
<1>3. ASSUME NEW c \in Call,
             \/ CreateDraft(c) \/ WriteDraft(c) \/ DraftNotWritten(c) \/ ReadDraft(c)
             \/ CrashMaking(c)
      PROVE  TypeOK' /\ FilesTyped'
  BY <1>3, StoringTyped
<1>4. ASSUME NEW k \in Reader,
             \/ \E head \in committed, receipt \in handed : Preflight(k, head, receipt)
             \/ ReadState(k) \/ ReadArtifact(k)
      PROVE  TypeOK' /\ FilesTyped'
  BY <1>4, ConsumerTyped
<1> QED BY <1>1, <1>2, <1>3, <1>4 DEF DraftNext

(* The files, the calls and the consumers hold whole records or nothing,   *)
(* and a call that stores a draft is done with its state                   *)
(* (persist_portfolio_settings_draft).                                     *)
THEOREM DraftTypeCorrect == DraftSpec => []DraftTypeOK
<1>1. DraftInit => TypeOK /\ FilesTyped
  <2> SUFFICES ASSUME DraftInit PROVE TypeOK /\ FilesTyped
    OBVIOUS
  <2>1. TypeOK
    BY InitTyped DEF DraftInit
  <2>2. MaybeRecord(NoRecord)
    BY DEF MaybeRecord
  <2> HIDE DEF NoRecord
  <2> QED BY <2>1, <2>2 DEF DraftInit, FilesTyped, NotMaking, NotReading, StoringOK, AskedOK,
                            NotBusy, Steps, Stages
<1>2. DraftInv /\ DraftInv' /\ TypeOK /\ FilesTyped /\ [DraftNext]_allVars => TypeOK' /\ FilesTyped'
  BY DraftStepTyped
<1>3. DraftInv /\ TypeOK /\ FilesTyped => DraftTypeOK
  BY TypedByParts
<1> QED BY <1>1, <1>2, <1>3, DraftInductive, PTL DEF DraftSpec
===============================================================================
