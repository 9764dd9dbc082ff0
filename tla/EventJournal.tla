----------------------------- MODULE EventJournal -----------------------------
(***************************************************************************)
(* PortfolioEventJournal (research/portfolio_event_journal.py): one scope  *)
(* of a create-only event journal in a local object store, appended to by  *)
(* several writers that share nothing but the files.                       *)
(*                                                                         *)
(* The scope directory holds origin.json (the INITIALIZE record) and one   *)
(* directory per identity, with root.json (a MIGRATE_IN record) and        *)
(* successors/<sha of the predecessor>.json.  append() loads the chain,    *)
(* creates ONE file at the address its predecessor determines, and loads   *)
(* the chain again before it hands out a receipt.                          *)
(***************************************************************************)
EXTENDS Naturals, FiniteSets

CONSTANTS
  Identity,   \* the portfolio identities of the scope
  EventId, Sha,
  NoSha,      \* previous_record_sha256 of a root record: None
  Record,     \* the (well-formed) records callers may present
  Writer,
  Absent,     \* no file at an address
  Torn,       \* a file that exists and cannot be read: being written, or
              \* left behind (with or without a temporary file) by a writer
              \* that was interrupted
  Scope       \* the scope directory, next to the identity directories

RootKinds == {"INITIALIZE", "MIGRATE_IN"}
Kinds     == RootKinds \union {"EVENT", "MIGRATE_OUT"}
Status    == {"created", "already_appended"}

RecordFields ==
  [identity: Identity, kind: Kinds, event_id: EventId, sequence: Nat,
   observed_at: Nat, previous: Sha \union {NoSha}, sha: Sha]

(***************************************************************************)
(* What _record checks of every record it lets through.  A digest has no   *)
(* collisions: that is what the whole hash chain rests on.                 *)
(***************************************************************************)
ASSUME RecordAssumption ==
  /\ Record \subseteq RecordFields
  /\ NoSha \notin Sha
  /\ \A r, s \in Record : r.sha = s.sha => r = s
  /\ \A r \in Record : r.kind \in RootKinds <=> r.previous = NoSha
  /\ \A r \in Record : r.kind \in RootKinds <=> r.sequence = 0

ASSUME StoreAssumption ==
  /\ Absent \notin Record /\ Torn \notin Record /\ Absent # Torn
  /\ Scope \notin Identity
  /\ {"origin", "root"} \cap Sha = {}

VARIABLES
  files,      \* [Address -> Record \union {Absent, Torn}]
  pc,         \* per writer: where its append() stands
  rec,        \* per writer: the record it appends
  listed,     \* per writer: the successor addresses _inventory listed
  view,       \* per writer: the chain of its last load_chain, as a set
  created,    \* per writer: the receipt of create_text
  receipts    \* <<record, status>> returned by append so far

locals == <<pc, rec, listed, view, created>>
vars   == <<files, locals, receipts>>

-----------------------------------------------------------------------------
(* Addresses. *)

Address  == [dir: Identity \union {Scope}, name: Sha \union {"origin", "root"}]
Origin   == [dir |-> Scope, name |-> "origin"]
RootOf(i)        == [dir |-> i, name |-> "root"]
Successor(i, a)  == [dir |-> i, name |-> a]

AddressOf(r) ==
  CASE r.kind = "INITIALIZE" -> Origin
    [] r.kind = "MIGRATE_IN" -> RootOf(r.identity)
    [] OTHER                 -> Successor(r.identity, r.previous)

-----------------------------------------------------------------------------
(* Chains.  A chain is the set of its records: the sequence numbers order  *)
(* it, and an address holds one record, so no record has two successors.   *)

(* Mutant of Linked: a sealed chain accepts further records. *)
LinkedAfterSeal(p, r) ==
  /\ r.previous = p.sha
  /\ r.sequence = p.sequence + 1
  /\ r.identity = p.identity
  /\ r.observed_at >= p.observed_at
  /\ r.event_id # p.event_id

Linked(p, r) ==
  /\ p.kind # "MIGRATE_OUT"
  /\ r.previous = p.sha
  /\ r.sequence = p.sequence + 1
  /\ r.identity = p.identity
  /\ r.observed_at >= p.observed_at
  /\ r.event_id # p.event_id

ValidChain(C) ==
  /\ \A r \in C : r.kind \notin RootKinds => \E p \in C : Linked(p, r)
  /\ \A r, s \in C : r.event_id = s.event_id => r = s

IsHead(C, h) == h \in C /\ \A s \in C : s.sequence <= h.sequence

(* validate_event_chain([*chain, record]) for a chain that is valid and    *)
(* does not know the event id yet.                                         *)
Extends(C, r) ==
  IF C = {} THEN r.kind \in RootKinds ELSE \E h \in C : IsHead(C, h) /\ Linked(h, r)

-----------------------------------------------------------------------------
(* load_chain.  It lists the successors first and reads afterwards: the    *)
(* files it follows are the listed ones, never those created meanwhile.    *)

Listing(i) == {a \in Sha : files[Successor(i, a)] # Absent}

OriginIs(i) == files[Origin] \in Record /\ files[Origin].identity = i

RootFile(i) ==
  IF files[RootOf(i)] # Absent THEN files[RootOf(i)]
  ELSE IF OriginIs(i) THEN files[Origin] ELSE Absent

ChainOf(i, L) ==
  ({RootFile(i)} \union {files[Successor(i, a)] : a \in L}) \ {Absent}

(* Mutant of Loads: an identity that has two roots is read from one of them. *)
LoadsOneRoot(i, L) ==
  /\ files[Origin] # Torn
  /\ Torn \notin ChainOf(i, L)
  /\ RootFile(i) = Absent => L = {}
  /\ ValidChain(ChainOf(i, L))

Loads(i, L) ==
  /\ files[Origin] # Torn                               \* _origin
  /\ files[RootOf(i)] # Absent => ~OriginIs(i)          \* duplicate root
  /\ Torn \notin ChainOf(i, L)
  /\ RootFile(i) = Absent => L = {}                     \* orphan successor
  /\ ValidChain(ChainOf(i, L))

-----------------------------------------------------------------------------
(* append().  The variables rec, listed, view and created are locals of the *)
(* call: a writer that is idle has none.                                   *)

Init ==
  /\ files = [a \in Address |-> Absent]
  /\ pc = [w \in Writer |-> "idle"]
  /\ rec = [w \in Writer |-> Absent]
  /\ listed = [w \in Writer |-> {}]
  /\ view = [w \in Writer |-> {}]
  /\ created = [w \in Writer |-> FALSE]
  /\ receipts = {}

Goto(w, step) == pc' = [pc EXCEPT ![w] = step]

Return(w) ==
  /\ Goto(w, "idle")
  /\ rec' = [rec EXCEPT ![w] = Absent]
  /\ listed' = [listed EXCEPT ![w] = {}]
  /\ view' = [view EXCEPT ![w] = {}]
  /\ created' = [created EXCEPT ![w] = FALSE]

Start(w, r) ==
  /\ pc[w] = "idle"
  /\ rec' = [rec EXCEPT ![w] = r]
  /\ Goto(w, "list")
  /\ UNCHANGED <<files, listed, view, created, receipts>>

(* _inventory: both load_chain calls of append start with it. *)
List(w) ==
  /\ pc[w] \in {"list", "relist"}
  /\ listed' = [listed EXCEPT ![w] = Listing(rec[w].identity)]
  /\ Goto(w, IF pc[w] = "list" THEN "load" ELSE "reload")
  /\ UNCHANGED <<files, rec, view, created, receipts>>

Found(w) ==
  /\ Loads(rec[w].identity, listed[w])
  /\ rec[w] \in ChainOf(rec[w].identity, listed[w])

(* Mutant of Fresh: the event ids of the chain are not looked at. *)
FreshAnyId(w) ==
  /\ Loads(rec[w].identity, listed[w])
  /\ Extends(ChainOf(rec[w].identity, listed[w]), rec[w])

Fresh(w) ==
  /\ Loads(rec[w].identity, listed[w])
  /\ \A s \in ChainOf(rec[w].identity, listed[w]) : s.event_id # rec[w].event_id
  /\ Extends(ChainOf(rec[w].identity, listed[w]), rec[w])

(* The first load_chain and the checks on it: the record is known, or it   *)
(* may follow the head, or append raises.                                  *)
LoadKnown(w) ==
  /\ pc[w] = "load"
  /\ Found(w)
  /\ receipts' = receipts \union {<<rec[w], "already_appended">>}
  /\ Return(w)
  /\ UNCHANGED files

LoadFresh(w) ==
  /\ pc[w] = "load"
  /\ Fresh(w)
  /\ view' = [view EXCEPT ![w] = ChainOf(rec[w].identity, listed[w])]
  /\ Goto(w, IF rec[w].kind = "INITIALIZE" THEN "check" ELSE "create")
  /\ UNCHANGED <<files, rec, listed, created, receipts>>

LoadRefused(w) ==
  /\ pc[w] = "load"
  /\ ~Found(w) /\ ~Fresh(w)
  /\ Return(w)
  /\ UNCHANGED <<files, receipts>>

(* _require_unused_scope: with an origin it returns (the create below then *)
(* decides), without one no identity of the scope may hold a file.         *)
ScopeUnused ==
  \A i \in Identity : files[RootOf(i)] = Absent /\ Listing(i) = {}

CheckScope(w) ==
  /\ pc[w] = "check"
  /\ files[Origin] \in Record \/ (files[Origin] = Absent /\ ScopeUnused)
  /\ Goto(w, "create")
  /\ UNCHANGED <<files, rec, listed, view, created, receipts>>

ScopeRefused(w) ==
  /\ pc[w] = "check"
  /\ files[Origin] = Torn \/ (files[Origin] = Absent /\ ~ScopeUnused)
  /\ Return(w)
  /\ UNCHANGED <<files, receipts>>

(* Mutants of Claim: the object is put whatever the address holds, or a    *)
(* file that cannot be read is taken for an unused address.                *)
ClaimOverwriting(w) ==
  /\ pc[w] = "create"
  /\ files' = [files EXCEPT ![AddressOf(rec[w])] = Torn]
  /\ Goto(w, "write")
  /\ UNCHANGED <<rec, listed, view, created, receipts>>

ClaimRepairing(w) ==
  /\ pc[w] = "create"
  /\ files[AddressOf(rec[w])] \in {Absent, Torn}
  /\ files' = [files EXCEPT ![AddressOf(rec[w])] = Torn]
  /\ Goto(w, "write")
  /\ UNCHANGED <<rec, listed, view, created, receipts>>

(* create_text claims the address exclusively, then writes: in between the *)
(* file is there for everybody and readable for nobody.                    *)
Claim(w) ==
  /\ pc[w] = "create"
  /\ files[AddressOf(rec[w])] = Absent
  /\ files' = [files EXCEPT ![AddressOf(rec[w])] = Torn]
  /\ Goto(w, "write")
  /\ UNCHANGED <<rec, listed, view, created, receipts>>

(* Mutant of Write: the type of the provider's answer is not looked at. *)
WriteAnyAnswer(w) ==
  /\ pc[w] = "write"
  /\ files' = [files EXCEPT ![AddressOf(rec[w])] = rec[w]]
  /\ \E answer \in BOOLEAN \union {Absent} : created' = [created EXCEPT ![w] = answer]
  /\ Goto(w, "relist")
  /\ UNCHANGED <<rec, listed, view, receipts>>

(* The provider may report a file it did create as already there; append   *)
(* then reads the address and finds its own record.                        *)
Write(w) ==
  /\ pc[w] = "write"
  /\ files' = [files EXCEPT ![AddressOf(rec[w])] = rec[w]]
  /\ \E honest \in BOOLEAN : created' = [created EXCEPT ![w] = honest]
  /\ Goto(w, "relist")
  /\ UNCHANGED <<rec, listed, view, receipts>>

(* The address was taken: only the very same record is accepted there. *)
TakenBySame(w) ==
  /\ pc[w] = "create"
  /\ files[AddressOf(rec[w])] = rec[w]
  /\ Goto(w, "relist")
  /\ UNCHANGED <<files, rec, listed, view, created, receipts>>

TakenByOther(w) ==
  /\ pc[w] = "create"
  /\ files[AddressOf(rec[w])] \notin {Absent, rec[w]}
  /\ Return(w)
  /\ UNCHANGED <<files, receipts>>

(* The second load_chain: the receipt needs the record on a chain that     *)
(* loads as a whole.                                                       *)
Confirm(w) ==
  /\ pc[w] = "reload"
  /\ Found(w)
  /\ receipts' = receipts \union
       {<<rec[w], IF created[w] THEN "created" ELSE "already_appended">>}
  /\ Return(w)
  /\ UNCHANGED files

Unconfirmed(w) ==
  /\ pc[w] = "reload"
  /\ ~Found(w)
  /\ Return(w)
  /\ UNCHANGED <<files, receipts>>

(* An exception of the object store or the end of the process, at any step *)
(* of the call: what is on disk stays, and no receipt is handed out.       *)
Interrupt(w) ==
  /\ pc[w] # "idle"
  /\ Return(w)
  /\ UNCHANGED <<files, receipts>>

Call(w) ==
  \/ \E r \in Record : Start(w, r)
  \/ List(w)
  \/ LoadKnown(w) \/ LoadFresh(w) \/ LoadRefused(w)
  \/ CheckScope(w) \/ ScopeRefused(w)
  \/ Claim(w) \/ Write(w) \/ TakenBySame(w) \/ TakenByOther(w)
  \/ Confirm(w) \/ Unconfirmed(w)
  \/ Interrupt(w)

Next == \E w \in Writer : Call(w)

Spec == Init /\ [][Next]_vars

-----------------------------------------------------------------------------
Steps == {"list", "load", "check", "create", "write", "relist", "reload"}

TypeOK ==
  /\ files \in [Address -> Record \union {Absent, Torn}]
  /\ pc \in [Writer -> {"idle"} \union Steps]
  /\ rec \in [Writer -> Record \union {Absent}]
  /\ \A w \in Writer : pc[w] # "idle" => rec[w] \in Record
  /\ listed \in [Writer -> SUBSET Sha]
  /\ view \in [Writer -> SUBSET Record]
  /\ created \in [Writer -> BOOLEAN]
  /\ receipts \subseteq Record \X Status

Stored  == {files[a] : a \in Address} \cap Record
Loadable(i) == Loads(i, Listing(i))
CurrentChain(i) == ChainOf(i, Listing(i))
Acknowledged == {r \in Record : \E st \in Status : <<r, st>> \in receipts}

(* A receipt of append is not forgotten: whenever the chain of an identity *)
(* loads, every record acknowledged for it, to whichever writer, is there. *)
AcknowledgedStays ==
  \A r \in Acknowledged :
    Loadable(r.identity) => r \in CurrentChain(r.identity)

(* Two writers that built on the same predecessor are never both told that *)
(* they succeeded, nor two that started the same identity or the scope.    *)
NoFork ==
  \A r, s \in Acknowledged :
    \/ AddressOf(r) = AddressOf(s)
    \/ r.identity = s.identity /\ r.kind \in RootKinds /\ s.kind \in RootKinds
    => r = s

(* What a call loaded before it writes stays a part of the chain: no later *)
(* load that succeeds contradicts the state the call was computed from.    *)
LoadsNeverDiverge ==
  \A w \in Writer : \A r \in view[w] :
    Loadable(r.identity) => r \in CurrentChain(r.identity)

(* MIGRATE_OUT ends a chain: no writer ever claims the address behind it.  *)
SealIsFinal ==
  \A r \in Stored : r.kind = "MIGRATE_OUT" =>
    files[Successor(r.identity, r.sha)] = Absent

(* "No file is overwritten, deleted or automatically repaired": a record   *)
(* never changes, and an interrupted file that no writer holds stays so.   *)
Interrupted(a) ==
  files[a] = Torn /\ \A w \in Writer : pc[w] = "write" => AddressOf(rec[w]) # a

CreateOnly ==
  [][\A a \in Address :
       /\ files[a] \in Record => files'[a] = files[a]
       /\ Interrupted(a) => Interrupted(a)']_vars
===============================================================================
