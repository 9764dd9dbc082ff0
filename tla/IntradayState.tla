---------------------------- MODULE IntradayState ----------------------------
(***************************************************************************)
(* The intraday risk state of one scope (research/                         *)
(* portfolio_intraday_state_io.py): concurrent calls that initialize it,   *)
(* persist an event, or hand it over to the identity of a new policy, each *)
(* a sequence of reads and of appends to the event journal.                *)
(*                                                                         *)
(* The journal is what EventJournal was shown to implement, the chains of  *)
(* EventChain, together with the files an append leaves unreadable while   *)
(* it writes or when it is interrupted.  Its receipts are copied to the    *)
(* output and decide nothing: what an append did is found by reading.      *)
(***************************************************************************)
EXTENDS EventChain, FiniteSets, Sequences

CONSTANTS
  Call,        \* the calls that may be under way at the same time
  Delivery,    \* the events a caller may deliver, see DeliveryFields
  Scope,       \* the place of the origin file, next to the identities
  MaxCrashes,  \* bound on the calls that die
  MidWrite     \* TRUE if a call may die between creating a file and writing it

(* What the deliveries differ in: identifier and content, the time of the *)
(* observation, whether it trips the breaker, its high-water mark, and     *)
(* whether the settings preview comes to a draft.                          *)
DeliveryFields ==
  [id: EventId, at: Nat, trip: BOOLEAN, peak: Nat, draft: BOOLEAN]

ASSUME IntradayAssumption ==
  /\ Delivery \subseteq DeliveryFields
  /\ Scope \notin Identity
  /\ MaxCrashes \in Nat
  /\ MidWrite \in BOOLEAN

VARIABLES
  unreadable,  \* places (identities and Scope) with a file nobody can read
  pc,          \* per call: idle, append, write or confirm
  todo,        \* per call: the records it still has to append, in order
  out,         \* per call: its output
  issued,      \* the records with which a settings draft was handed out
  crashes

calls == <<pc, todo, out>>
vars  == <<committed, receipts, unreadable, calls, issued, crashes>>

-----------------------------------------------------------------------------
(* Records.  The state keeps the protections the handoff must not lose.    *)

NoRecord == [kind |-> "NONE"]

State  == [open: BOOLEAN, peak: Nat]
Digest(i, n, e) == <<i, n, e>>

Built(i, kind, e, n, at, previous, state, cause) ==
  [identity |-> i, kind |-> kind, event_id |-> e, sequence |-> n, observed_at |-> at,
   previous |-> previous, sha |-> Digest(i, n, e), state |-> state, cause |-> cause]

RootRecord(i, kind, e, at, state, cause) == Built(i, kind, e, 0, at, NoSha, state, cause)

After(head, kind, e, at, state, cause) ==
  Built(head.identity, kind, e, head.sequence + 1, at, head.sha, state, cause)

InitialRecord(i, state) ==
  RootRecord(i, "INITIALIZE", <<"init", state.open>>, 0, state, [initial |-> state])

(* A trip opens the breaker, an open breaker stays open. *)
EventRecord(head, d) ==
  After(head, "EVENT", d.id, d.at,
        [open |-> head.state.open \/ d.trip, peak |-> d.peak], d)

Handoff(prior, destination) ==
  [source |-> prior.identity, destination |-> destination, head |-> prior.sha]

HandoffId(prior, destination) == <<"handoff", destination, prior.sequence>>

Outgoing(prior, destination) ==
  After(prior, "MIGRATE_OUT", HandoffId(prior, destination),
        prior.observed_at, prior.state, Handoff(prior, destination))

(* Mutant of Incoming: the destination starts with a closed breaker. *)
IncomingClosed(prior, destination) ==
  RootRecord(destination, "MIGRATE_IN", HandoffId(prior, destination),
             prior.observed_at, [prior.state EXCEPT !.open = FALSE],
             Handoff(prior, destination))

Incoming(prior, destination) ==
  RootRecord(destination, "MIGRATE_IN", HandoffId(prior, destination),
             prior.observed_at, prior.state, Handoff(prior, destination))

-----------------------------------------------------------------------------
(* Reading.  load_chain needs the origin file and all files of the         *)
(* identity; _verify_chain follows the chain back through its handoffs.    *)

HeadOf(i) == CHOOSE r \in Of(i) : \A s \in Of(i) : s.sequence <= r.sequence
Root(i)   == CHOOSE r \in Of(i) : IsRoot(r)

Readable(i) == {i, Scope} \cap unreadable = {}

SourceOf(i) ==
  IF Of(i) # {} /\ Root(i).kind = "MIGRATE_IN" THEN {Root(i).cause.source} ELSE {}

(* The identities an identity was handed over from, itself included: those *)
(* that no set with the identity and closed under handoffs leaves out.     *)
HandoffClosed(S) == \A k \in S : SourceOf(k) \subseteq S

Lineage(i) ==
  {j \in Identity : \A S \in SUBSET (Identity \ {j}) : i \in S => ~HandoffClosed(S)}

(* An identity that was handed over from itself, however far back. *)
Cyclic(i) == \E k \in SourceOf(i) : i \in Lineage(k)

ProtectionsKept(old, new) ==
  /\ old.open => new.open
  /\ old.peak <= new.peak

ValidStates(i) ==
  \A p, r \in Of(i) : Linked(p, r) => ProtectionsKept(p.state, r.state)

SealValid(i) ==
  \A s \in Of(i) : s.kind = "MIGRATE_OUT" =>
    \E p \in Of(i) : s = Outgoing(p, s.cause.destination)

RootValid(i) ==
  Root(i).kind = "MIGRATE_IN" =>
    \E p, s \in Of(Root(i).cause.source) :
      s = Outgoing(p, i) /\ Root(i) = Incoming(p, i)

Verified(i) ==
  \A j \in Lineage(i) :
    /\ Readable(j) /\ Of(j) # {}
    /\ ~Cyclic(j)
    /\ ValidStates(j) /\ SealValid(j) /\ RootValid(j)

Sealed(i) == \E s \in Of(i) : s.kind = "MIGRATE_OUT"

-----------------------------------------------------------------------------
NoOutput == [status |-> "none", record |-> NoRecord, draft |-> FALSE, retired |-> "no"]

Init ==
  /\ ChainInit
  /\ unreadable = {}
  /\ pc = [c \in Call |-> "idle"]
  /\ todo = [c \in Call |-> <<>>]
  /\ out = [c \in Call |-> NoOutput]
  /\ issued = {}
  /\ crashes = 0

Begin(c, records, retired) ==
  /\ pc' = [pc EXCEPT ![c] = "append"]
  /\ todo' = [todo EXCEPT ![c] = records]
  /\ out' = [out EXCEPT ![c] = [NoOutput EXCEPT !.record = records[1], !.retired = retired]]
  /\ UNCHANGED <<chainVars, unreadable, issued, crashes>>

End(c, status, draft) ==
  /\ pc' = [pc EXCEPT ![c] = "idle"]
  /\ todo' = [todo EXCEPT ![c] = <<>>]
  /\ out' = [out EXCEPT ![c].status = status, ![c].draft = draft]

(* A call that a check refuses ends without a trace: only the calls that   *)
(* go on are steps.                                                        *)
Initialize(c, i, state) ==
  /\ pc[c] = "idle"
  /\ Readable(i)
  /\ Of(i) \subseteq {InitialRecord(i, state)}
  /\ Begin(c, <<InitialRecord(i, state)>>, "no")

(* The caller's checkpoint is the head that is read here, anything else is *)
(* refused.  The preview is computed from that head and held, unseen by    *)
(* the caller, until the append is confirmed.                              *)
Persist(c, i, d) ==
  /\ pc[c] = "idle"
  /\ Of(i) # {} /\ ~Sealed(i)
  /\ \A r \in Of(i) : r.event_id # d.id
  /\ Verified(i)
  /\ HeadOf(i).observed_at <= d.at
  /\ ProtectionsKept(HeadOf(i).state, EventRecord(HeadOf(i), d).state)
  /\ Begin(c, <<EventRecord(HeadOf(i), d)>>, "no")

(* The event at the head is delivered again: its state is recovered, the   *)
(* draft is not.                                                           *)
Replay(c, i, d) ==
  /\ pc[c] = "idle"
  /\ Of(i) # {}
  /\ HeadOf(i).kind = "EVENT" /\ HeadOf(i).cause = d
  /\ Verified(i)
  /\ out' = [out EXCEPT ![c] = [NoOutput EXCEPT !.status = "already", !.record = HeadOf(i)]]
  /\ UNCHANGED <<chainVars, unreadable, pc, todo, issued, crashes>>

(* Seal, then import; a source that is sealed for this very handoff is     *)
(* only imported.                                                          *)
PriorOf(i) == CHOOSE r \in Of(i) : r.kind # "MIGRATE_OUT" /\
                \A s \in Of(i) : s.kind # "MIGRATE_OUT" => s.sequence <= r.sequence

Migratable(i, j) ==
  /\ i # j /\ Of(i) # {}
  /\ Sealed(i) => HeadOf(i) = Outgoing(PriorOf(i), j)
  /\ Readable(j) /\ Of(j) \subseteq {Incoming(PriorOf(i), j)}
  /\ Verified(i)

(* Mutants of Migrate: import first; a seal taken for granted; a sealed    *)
(* source is not taken up again.                                           *)
MigrateImportFirst(c, i, j) ==
  /\ pc[c] = "idle"
  /\ Migratable(i, j)
  /\ IF Sealed(i)
     THEN Begin(c, <<Incoming(PriorOf(i), j)>>, "yes")
     ELSE Begin(c, <<Incoming(PriorOf(i), j), Outgoing(PriorOf(i), j)>>, "unknown")

MigrateUnread(c, i, j) ==
  /\ pc[c] = "idle"
  /\ Migratable(i, j)
  /\ IF Sealed(i)
     THEN Begin(c, <<Incoming(PriorOf(i), j)>>, "yes")
     ELSE Begin(c, <<Outgoing(PriorOf(i), j), Incoming(PriorOf(i), j)>>, "yes")

MigrateOnce(c, i, j) ==
  /\ pc[c] = "idle"
  /\ Migratable(i, j) /\ ~Sealed(i)
  /\ Begin(c, <<Outgoing(PriorOf(i), j), Incoming(PriorOf(i), j)>>, "unknown")

Migrate(c, i, j) ==
  /\ pc[c] = "idle"
  /\ Migratable(i, j)
  /\ IF Sealed(i)
     THEN Begin(c, <<Incoming(PriorOf(i), j)>>, "yes")
     ELSE Begin(c, <<Outgoing(PriorOf(i), j), Incoming(PriorOf(i), j)>>, "unknown")

-----------------------------------------------------------------------------
(* _append_confirm: one append, whose outcome is not looked at, one read.  *)

Place(r) == IF r.kind = "INITIALIZE" THEN Scope ELSE r.identity

Claim(c) ==
  /\ pc[c] = "append"
  /\ Readable(todo[c][1].identity)
  /\ Appendable(todo[c][1])
  /\ unreadable' = unreadable \union {Place(todo[c][1])}
  /\ pc' = [pc EXCEPT ![c] = "write"]
  /\ UNCHANGED <<chainVars, todo, out, issued, crashes>>

Write(c) ==
  /\ pc[c] = "write"
  /\ Commit(todo[c][1])
  /\ unreadable' = unreadable \ {Place(todo[c][1])}
  /\ pc' = [pc EXCEPT ![c] = "confirm"]
  /\ UNCHANGED <<todo, out, issued, crashes>>

(* The record is already there, may not be appended, or the store failed. *)
NothingWritten(c) ==
  /\ pc[c] = "append"
  /\ pc' = [pc EXCEPT ![c] = "confirm"]
  /\ UNCHANGED <<chainVars, unreadable, todo, out, issued, crashes>>

(* Mutant of ReadBack: the record only has to be somewhere on the chain.   *)
ReadBackAnywhere(r) == r \in Of(r.identity) /\ Verified(r.identity)

(* The read with the new record as the checkpoint: it must be the head. *)
ReadBack(r) == r \in Of(r.identity) /\ Verified(r.identity) /\ HeadOf(r.identity) = r

ConfirmSeal(c) ==
  /\ pc[c] = "confirm" /\ Len(todo[c]) = 2
  /\ ReadBack(todo[c][1])
  /\ pc' = [pc EXCEPT ![c] = "append"]
  /\ todo' = [todo EXCEPT ![c] = Tail(@)]
  /\ out' = [out EXCEPT ![c].record = todo[c][2], ![c].retired = "yes"]
  /\ UNCHANGED <<chainVars, unreadable, issued, crashes>>

HasDraft(r) == r.kind = "EVENT" /\ r.cause.draft

Confirm(c) ==
  /\ pc[c] = "confirm" /\ Len(todo[c]) = 1
  /\ ReadBack(todo[c][1])
  /\ End(c, "confirmed", HasDraft(todo[c][1]))
  /\ issued' = IF HasDraft(todo[c][1]) THEN issued \union {todo[c][1]} ELSE issued
  /\ UNCHANGED <<chainVars, unreadable, crashes>>

Unconfirmed(c) ==
  /\ pc[c] = "confirm"
  /\ ~ReadBack(todo[c][1])
  /\ End(c, "gaps", FALSE)
  /\ UNCHANGED <<chainVars, unreadable, issued, crashes>>

(* The process of a call dies: the caller has no output to go by. *)
Crash(c) ==
  /\ crashes < MaxCrashes
  /\ pc[c] # "idle" /\ (pc[c] = "write" => MidWrite)
  /\ crashes' = crashes + 1
  /\ pc' = [pc EXCEPT ![c] = "idle"]
  /\ todo' = [todo EXCEPT ![c] = <<>>]
  /\ out' = [out EXCEPT ![c] = NoOutput]
  /\ UNCHANGED <<chainVars, unreadable, issued>>

Next ==
  \E c \in Call :
    \/ \E i \in Identity, state \in [open: BOOLEAN, peak: {1}] : Initialize(c, i, state)
    \/ \E i \in Identity, d \in Delivery : Persist(c, i, d) \/ Replay(c, i, d)
    \/ \E i, j \in Identity : Migrate(c, i, j)
    \/ Claim(c) \/ Write(c) \/ NothingWritten(c)
    \/ ConfirmSeal(c) \/ Confirm(c) \/ Unconfirmed(c)
    \/ Crash(c)

Spec == Init /\ [][Next]_vars

(* A call that has begun to write or to read back goes on, the store does  *)
(* not fail for ever, and an operator keeps resuming a handoff whose       *)
(* source is sealed.                                                       *)
Resume(c) == \E i, j \in Identity : Sealed(i) /\ Migrate(c, i, j)

Proceed(c) == NothingWritten(c) \/ Write(c) \/ ConfirmSeal(c) \/ Confirm(c) \/ Unconfirmed(c)

Fairness ==
  \A c \in Call : WF_vars(Proceed(c)) /\ SF_vars(Claim(c)) /\ SF_vars(Resume(c))

LiveSpec == Spec /\ Fairness

-----------------------------------------------------------------------------
RecordNames ==
  {"identity", "kind", "event_id", "sequence", "observed_at", "previous", "sha", "state", "cause"}

RecordOK(r) ==
  /\ DOMAIN r = RecordNames
  /\ r.identity \in Identity /\ r.kind \in Kinds
  /\ r.sequence \in Nat /\ r.observed_at \in Nat
  /\ r.sha = Digest(r.identity, r.sequence, r.event_id)
  /\ r.state \in State

MaybeRecord(r) == r = NoRecord \/ RecordOK(r)

OutputOK(o) ==
  /\ o.status \in {"none", "already", "confirmed", "gaps"}
  /\ MaybeRecord(o.record)
  /\ o.draft \in BOOLEAN
  /\ o.retired \in {"no", "unknown", "yes"}

TypeOK ==
  /\ \A r \in committed : RecordOK(r)
  /\ unreadable \subseteq Identity \union {Scope}
  /\ pc \in [Call -> {"idle", "append", "write", "confirm"}]
  /\ \A c \in Call :
       /\ \A k \in 1..Len(todo[c]) : RecordOK(todo[c][k])
       /\ Len(todo[c]) \in 0..2
       /\ pc[c] = "idle" <=> todo[c] = <<>>
       /\ OutputOK(out[c])
  /\ \A r \in issued : RecordOK(r)
  /\ crashes \in 0..MaxCrashes

Live(i) == Of(i) # {} /\ ~Sealed(i)

(* "one scope allows one initial start" and "after the seal the old   *)
(* identity can produce no event": however calls race and die, at most one *)
(* identity of the scope ever accepts events.                              *)
OneLiveIdentity ==
  \A i, j \in Identity : Live(i) /\ Live(j) => i = j

(* The breaker and the high-water mark survive every handoff: an identity  *)
(* that accepts events knows all that was ever committed in the scope.     *)
ProtectionsSurvive ==
  \A i \in Identity : Live(i) =>
    \A r \in committed : ProtectionsKept(r.state, HeadOf(i).state)

(* source_retired = True is only reported when the source is sealed, and   *)
(* for the destination of this very call.                                  *)
RetiredTruth ==
  \A c \in Call : out[c].retired = "yes" =>
    \E s \in committed : s.kind = "MIGRATE_OUT" /\ s.cause = out[c].record.cause

(* What these calls write the verification accepts: a scope is only ever   *)
(* blocked by a file that was left unreadable.                             *)
NeverSelfBlocked ==
  unreadable = {} => \A i \in Identity : Of(i) # {} => Verified(i)

(* A draft computed for a closed breaker is not handed out once an open    *)
(* one has been committed, by whichever call.                              *)
NoStaleDraft ==
  [][\A r \in issued' \ issued :
       r.state.open \/ \A s \in committed : ~s.state.open]_vars

(* "the replay of the same frozen request does not return the draft again" *)
(* (docs/research/intraday-risk-state.zh-CN.md).                           *)
DraftOnce ==
  [][\A c \in Call : out'[c] # out[c] /\ out'[c].draft => out'[c].record \notin issued]_vars

(* A source that is sealed gets its destination, as long as no file is     *)
(* left unreadable and the operator resumes.                               *)
Imported(s) == \E r \in committed : r.kind = "MIGRATE_IN" /\ r.cause = s.cause

HandoffCompletes ==
  \A i \in Identity : Sealed(i) ~> \A s \in Of(i) : s.kind = "MIGRATE_OUT" => Imported(s)
===============================================================================
