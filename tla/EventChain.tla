------------------------------ MODULE EventChain ------------------------------
(***************************************************************************)
(* What PortfolioEventJournal promises to its callers, without files: for  *)
(* every identity an append-only chain of records, grown one record at a   *)
(* time at its head, and receipts that are only given for records that     *)
(* are on the chain.  EventJournal is shown to implement this module.      *)
(***************************************************************************)
EXTENDS Naturals

CONSTANTS Identity, EventId, Sha, NoSha, Record

VARIABLES
  committed,   \* the records on the chains
  receipts     \* <<record, status>> handed back to a caller of append

chainVars == <<committed, receipts>>

RootKinds == {"INITIALIZE", "MIGRATE_IN"}
Kinds     == RootKinds \union {"EVENT", "MIGRATE_OUT"}
Status    == {"created", "already_appended"}

(***************************************************************************)
(* The fields of a record the chain rules look at.  sha stands for the     *)
(* content digest, previous for previous_record_sha256.                    *)
(***************************************************************************)
RecordFields ==
  [identity: Identity, kind: Kinds, event_id: EventId, sequence: Nat,
   observed_at: Nat, previous: Sha \union {NoSha}, sha: Sha]

Linked(p, r) ==
  /\ p.kind # "MIGRATE_OUT"
  /\ r.previous = p.sha
  /\ r.sequence = p.sequence + 1
  /\ r.identity = p.identity
  /\ r.observed_at >= p.observed_at
  /\ r.event_id # p.event_id

Of(i) == {r \in committed : r.identity = i}

IsRoot(r) == r.kind \in RootKinds

(* A root may only be committed on an empty chain, and INITIALIZE once for *)
(* all identities; any other record only directly after the head: the     *)
(* record that has no successor yet.                                       *)
Appendable(r) ==
  /\ \A s \in Of(r.identity) : s.event_id # r.event_id
  /\ r.kind = "INITIALIZE" => \A s \in committed : s.kind # "INITIALIZE"
  /\ IF IsRoot(r)
     THEN Of(r.identity) = {}
     ELSE \E p \in Of(r.identity) :
            /\ Linked(p, r)
            /\ \A s \in Of(r.identity) : s.previous # p.sha

ChainInit ==
  /\ committed = {}
  /\ receipts = {}

Commit(r) ==
  /\ Appendable(r)
  /\ committed' = committed \union {r}
  /\ UNCHANGED receipts

Acknowledge(r, status) ==
  /\ r \in committed
  /\ receipts' = receipts \union {<<r, status>>}
  /\ UNCHANGED committed

ChainNext ==
  \E r \in Record :
    \/ Commit(r)
    \/ \E status \in Status : Acknowledge(r, status)

ChainSpec == ChainInit /\ [][ChainNext]_chainVars
===============================================================================
