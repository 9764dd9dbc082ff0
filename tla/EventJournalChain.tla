--------------------------- MODULE EventJournalChain ---------------------------
(***************************************************************************)
(* The files of EventJournal implement the append-only chains of           *)
(* EventChain, whatever the writers interleave and wherever they stop.     *)
(*                                                                         *)
(* One thing the files cannot refuse: an identity can be started twice, by *)
(* an INITIALIZE and by a MIGRATE_IN, when the two race.  The two roots    *)
(* have two addresses, and neither call sees the other's file in time.     *)
(* The second of them never becomes a part of the chain: load_chain        *)
(* refuses the identity from then on.  The history variable late, which    *)
(* no call reads, remembers which of the two it was.                       *)
(***************************************************************************)
EXTENDS EventJournal

VARIABLE late   \* the roots stored when their identity had a root already

hvars == <<vars, late>>

SecondRoot(r) ==
  /\ r.kind \in RootKinds
  /\ \E s \in Stored : s.identity = r.identity /\ s.kind \in RootKinds

HInit == Init /\ late = {}
HNext == Next /\ late' = late \union {r \in Stored' \ Stored : SecondRoot(r)}
HSpec == HInit /\ [][HNext]_hvars

Chain == INSTANCE EventChain WITH committed <- Stored \ late

(* A record is committed when its file is written, at the head of a chain  *)
(* whose event ids it does not repeat; a late root is no commit, and       *)
(* receipts only follow a commit.                                          *)
ImplementsChain == Chain!ChainSpec
-----------------------------------------------------------------------------
(* The inductive invariant, for the set D of late roots.  It says why the  *)
(* check that a call makes on a chain it loaded some time ago still holds  *)
(* when it writes: the address it holds is the one behind the last record, *)
(* and nobody gets past it.                                                *)

Line(D, i) == {r \in Stored \ D : r.identity = i}

Addressed ==
  \A a \in Address : files[a] \in Record => AddressOf(files[a]) = a

Exclusive ==
  \A w \in Writer : pc[w] = "write" =>
    /\ files[AddressOf(rec[w])] = Torn
    /\ \A v \in Writer \ {w} :
         pc[v] = "write" => AddressOf(rec[v]) # AddressOf(rec[w])

(* A late root stands next to a root that is not late. *)
LateRoots(D) ==
  \A r \in D :
    /\ r \in Stored /\ r.kind \in RootKinds
    /\ \E s \in Line(D, r.identity) : s.kind \in RootKinds

SequenceUnique(D) ==
  \A r, s \in Stored \ D :
    r.identity = s.identity /\ r.sequence = s.sequence => r = s

NoGap(D) ==
  \A r, s \in Stored \ D :
    r.identity = s.identity /\ s.sequence < r.sequence =>
      files[Successor(s.identity, s.sha)] \in Record

Rooted(D) ==
  \A r \in Stored \ D : \E s \in Line(D, r.identity) : s.kind \in RootKinds

Backed(D) ==
  \A i \in Identity : \A a \in Sha :
    files[Successor(i, a)] # Absent =>
      \E p \in Line(D, i) : p.sha = a /\ p.kind # "MIGRATE_OUT"

(* A listing is closed: with an address it has those of all earlier records. *)
ListedClosed(D) ==
  \A w \in Writer : pc[w] = "load" => \A a \in listed[w] :
    /\ files[Successor(rec[w].identity, a)] # Absent
    /\ \E p \in Line(D, rec[w].identity) :
         /\ p.sha = a
         /\ \A s \in Line(D, rec[w].identity) :
              s.kind \notin RootKinds /\ s.sequence <= p.sequence
                => s.previous \in listed[w]

(* What was loaded is all there was up to its head. *)
ViewStored(D) == \A w \in Writer : view[w] \subseteq Stored \ D

ViewCurrent(D) ==
  \A w \in Writer : pc[w] \in {"check", "create", "write"} =>
    /\ view[w] \subseteq Line(D, rec[w].identity)
    /\ \A s \in view[w] : s.event_id # rec[w].event_id
    /\ Extends(view[w], rec[w])
    /\ \A s \in Line(D, rec[w].identity) : \A t \in view[w] :
         s.sequence <= t.sequence => s \in view[w]

AcknowledgedStored(D) == Acknowledged \subseteq Stored \ D

FilesInv(D) ==
  Addressed /\ LateRoots(D) /\ SequenceUnique(D) /\ NoGap(D) /\ Rooted(D) /\ Backed(D)

LineInv(D) ==
  /\ TypeOK
  /\ FilesInv(D)
  /\ Exclusive /\ ListedClosed(D) /\ ViewStored(D) /\ ViewCurrent(D)
  /\ AcknowledgedStored(D)

IInv == \E D \in SUBSET Record : LineInv(D)
HInv == LineInv(late)
===============================================================================
