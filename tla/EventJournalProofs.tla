--------------------------- MODULE EventJournalProofs ---------------------------
(***************************************************************************)
(* Theorems about EventJournal for every set of writers, identities and    *)
(* records.                                                                *)
(***************************************************************************)
EXTENDS EventJournalChain, TLAPS

-----------------------------------------------------------------------------
(* Addresses and chains. *)

(* The address of a record is one of the scope's, and tells its kind. *)
LEMMA AddressFacts ==
  ASSUME NEW r \in Record
  PROVE  /\ AddressOf(r) \in Address
         /\ r.kind = "INITIALIZE" => AddressOf(r) = Origin
         /\ r.kind = "MIGRATE_IN" => AddressOf(r) = RootOf(r.identity)
         /\ r.kind \notin RootKinds =>
              /\ r.previous \in Sha
              /\ AddressOf(r) = Successor(r.identity, r.previous)
<1>1. r \in RecordFields
  BY RecordAssumption
<1>2. r.kind \notin RootKinds => r.previous \in Sha
  BY <1>1, RecordAssumption DEF RecordFields
<1>3. r.kind \in RootKinds \/ r.kind \notin RootKinds
  OBVIOUS
<1> QED
  BY <1>1, <1>2, <1>3
  DEF AddressOf, RecordFields, Kinds, RootKinds, Address, Origin, RootOf, Successor

(* Two records with one address are successors of one record, or both     *)
(* roots of one kind; migration roots share the identity too.             *)
LEMMA SameAddress ==
  ASSUME NEW r \in Record, NEW s \in Record, AddressOf(r) = AddressOf(s)
  PROVE  /\ r.kind \in RootKinds <=> s.kind \in RootKinds
         /\ r.kind \notin RootKinds =>
              r.identity = s.identity /\ r.previous = s.previous
         /\ r.kind \in RootKinds => r.kind = s.kind
         /\ r.kind = "MIGRATE_IN" => r.identity = s.identity
<1>1. r \in RecordFields /\ s \in RecordFields
  BY RecordAssumption
<1>2. "origin" \notin Sha /\ "root" \notin Sha /\ Scope \notin Identity
  BY StoreAssumption
<1> QED
  BY <1>1, <1>2, AddressFacts
  DEF RecordFields, Kinds, RootKinds, Origin, RootOf, Successor

LEMMA RootIsFirst ==
  ASSUME NEW r \in Record
  PROVE  /\ r.sequence \in Nat /\ r.identity \in Identity /\ r.sha \in Sha
         /\ r.kind \in RootKinds <=> r.sequence = 0
BY RecordAssumption DEF RecordFields

(* A stored record is where its address says. *)
LEMMA StoredAt ==
  ASSUME TypeOK, Addressed, NEW s \in Stored
  PROVE  s \in Record /\ AddressOf(s) \in Address /\ files[AddressOf(s)] = s
<1>1. PICK a \in Address : files[a] = s
  BY DEF Stored
<1>2. s \in Record
  BY DEF Stored
<1> QED BY <1>1, <1>2 DEF Addressed

(* A chain that loads is made of stored records of its identity. *)
LEMMA LoadedIsStored ==
  ASSUME TypeOK, Addressed, NEW D \in SUBSET Record, LateRoots(D),
         NEW i \in Identity, NEW L \in SUBSET Sha, Loads(i, L)
  PROVE  ChainOf(i, L) \subseteq Line(D, i)
<1> SUFFICES ASSUME NEW r \in ChainOf(i, L) PROVE r \in Stored /\ r.identity = i /\ r \notin D
  BY DEF Line
<1>1. r # Absent /\ r # Torn
  BY DEF ChainOf, Loads
<1>2. r = RootFile(i) => r \in Stored /\ r.identity = i
  <2> SUFFICES ASSUME r = RootFile(i) PROVE r \in Stored /\ r.identity = i
    OBVIOUS
  <2>1. RootOf(i) \in Address /\ Origin \in Address
    BY DEF RootOf, Origin, Address
  <2>2. CASE files[RootOf(i)] # Absent
    <3>1. r = files[RootOf(i)] /\ r \in Record
      BY <1>1, <2>1, <2>2 DEF RootFile, TypeOK
    <3>2. AddressOf(r) = RootOf(i)
      BY <2>1, <3>1 DEF Addressed
    <3>3. r.identity = i
      BY <3>1, <3>2, AddressFacts, RootIsFirst, StoreAssumption, RecordAssumption
      DEF RootOf, Origin, Successor, RecordFields, Kinds, RootKinds
    <3> QED BY <2>1, <3>1, <3>3 DEF Stored
  <2>3. CASE files[RootOf(i)] = Absent
    <3>1. OriginIs(i) /\ r = files[Origin]
      BY <1>1, <2>3 DEF RootFile
    <3> QED BY <2>1, <3>1 DEF Stored, OriginIs
  <2> QED BY <2>2, <2>3
<1>3. (\E a \in L : r = files[Successor(i, a)]) => r \in Stored /\ r.identity = i
  <2> SUFFICES ASSUME NEW a \in L, r = files[Successor(i, a)]
               PROVE  r \in Stored /\ r.identity = i
    OBVIOUS
  <2>2. a \in Sha /\ Successor(i, a) \in Address
    BY DEF Successor, Address
  <2>3. r \in Record
    BY <1>1, <2>2 DEF TypeOK
  <2>4. AddressOf(r) = Successor(i, a)
    BY <2>2, <2>3 DEF Addressed
  <2>5. r.identity = i
    BY <2>2, <2>3, <2>4, AddressFacts, StoreAssumption, RecordAssumption
    DEF RootOf, Origin, Successor, RecordFields, Kinds, RootKinds
  <2> QED BY <2>2, <2>3, <2>5 DEF Stored
<1>4. r \in Stored /\ r.identity = i
  BY <1>2, <1>3 DEF ChainOf
<1>5. r \notin D
  <2> SUFFICES ASSUME r \in D PROVE FALSE
    OBVIOUS
  <2>1. r.kind \in RootKinds
    BY DEF LateRoots
  <2>2. PICK s \in Stored \ D : s.identity = i /\ s.kind \in RootKinds
    BY <1>4 DEF LateRoots, Line
  <2>3. /\ r \in Record /\ files[AddressOf(r)] = r
        /\ s \in Record /\ files[AddressOf(s)] = s
    BY <1>4, <2>2, StoredAt
  <2>4. /\ r.kind = "INITIALIZE" => files[Origin] = r
        /\ s.kind = "INITIALIZE" => files[Origin] = s
        /\ r.kind = "MIGRATE_IN" => files[RootOf(i)] = r
        /\ s.kind = "MIGRATE_IN" => files[RootOf(i)] = s
    BY <1>4, <2>2, <2>3, AddressFacts
  <2>5. r # s
    BY <2>2
  <2>6. OriginIs(i) /\ files[RootOf(i)] # Absent
    BY <1>4, <2>1, <2>2, <2>3, <2>4, <2>5, StoreAssumption DEF OriginIs, RootKinds
  <2> QED BY <2>6 DEF Loads
<1> QED BY <1>4, <1>5

-----------------------------------------------------------------------------
(* Every variable keeps its type: in particular a call that is under way   *)
(* always has the record it appends.                                       *)
LEMMA TypeStep ==
  ASSUME TypeOK, Addressed, [Next]_vars PROVE TypeOK'
<1> USE DEF TypeOK, Steps
<1>1. ASSUME NEW w \in Writer, NEW r \in Record, Start(w, r) PROVE TypeOK'
  BY <1>1 DEF Start, Goto
<1>2. ASSUME NEW w \in Writer, List(w) PROVE TypeOK'
  BY <1>2 DEF List, Goto, Listing
<1>3. ASSUME NEW w \in Writer, LoadKnown(w) PROVE TypeOK'
  BY <1>3 DEF LoadKnown, Return, Goto, Status
<1>4. ASSUME NEW w \in Writer, LoadFresh(w) PROVE TypeOK'
  <2>1. rec[w].identity \in Identity /\ listed[w] \in SUBSET Sha
    BY <1>4, RootIsFirst DEF LoadFresh
  <2>2. ChainOf(rec[w].identity, listed[w]) \subseteq Record
    <3>1. LateRoots({})
      BY DEF LateRoots
    <3> QED BY <1>4, <2>1, <3>1, LoadedIsStored DEF LoadFresh, Fresh, Line, Stored
  <2> QED BY <1>4, <2>2 DEF LoadFresh, Goto
<1>5. ASSUME NEW w \in Writer,
             LoadRefused(w) \/ ScopeRefused(w) \/ TakenByOther(w)
               \/ Unconfirmed(w) \/ Interrupt(w)
      PROVE  TypeOK'
  BY <1>5 DEF LoadRefused, ScopeRefused, TakenByOther, Unconfirmed, Interrupt, Return, Goto
<1>6. ASSUME NEW w \in Writer, CheckScope(w) \/ TakenBySame(w) PROVE TypeOK'
  BY <1>6 DEF CheckScope, TakenBySame, Goto
<1>7. ASSUME NEW w \in Writer, Claim(w) PROVE TypeOK'
  BY <1>7 DEF Claim, Goto
<1>8. ASSUME NEW w \in Writer, Write(w) PROVE TypeOK'
  BY <1>8 DEF Write, Goto
<1>9. ASSUME NEW w \in Writer, Confirm(w) PROVE TypeOK'
  BY <1>9 DEF Confirm, Return, Goto, Status
<1>10. CASE UNCHANGED vars
  BY <1>10 DEF vars, locals
<1> QED
  BY <1>1, <1>2, <1>3, <1>4, <1>5, <1>6, <1>7, <1>8, <1>9, <1>10 DEF Next, Call
-----------------------------------------------------------------------------
(* The store under the invariant. *)

(* The claim of a writer is the end of the chain it loaded: nothing has    *)
(* been stored for the identity that the writer has not seen, unless it    *)
(* is about to start an identity that was started in the other way.        *)
LEMMA ClaimIsAtHead ==
  ASSUME NEW D \in SUBSET Record, LineInv(D),
         NEW w \in Writer, pc[w] = "write", ~SecondRoot(rec[w])
  PROVE  Line(D, rec[w].identity) = view[w]
<1> DEFINE r == rec[w]
           i == rec[w].identity
<1> USE DEF LineInv, FilesInv
<1>1. r \in Record /\ files[AddressOf(r)] = Torn
  BY DEF TypeOK, Steps, Exclusive
<1>2. /\ view[w] \subseteq Line(D, i)
      /\ Extends(view[w], r)
      /\ \A s \in Line(D, i), t \in view[w] : s.sequence <= t.sequence => s \in view[w]
  BY DEF ViewCurrent
<1>3. Torn \notin Record
  BY StoreAssumption
<1>4. CASE view[w] = {}
  <2> SUFFICES ASSUME NEW s \in Line(D, i) PROVE FALSE
    BY <1>4
  <2>1. r.kind \in RootKinds
    BY <1>2, <1>4 DEF Extends
  <2>2. \E t \in Stored : t.identity = i /\ t.kind \in RootKinds
    BY DEF Rooted, Line
  <2> QED BY <2>1, <2>2 DEF SecondRoot
<1>5. CASE view[w] # {}
  <2>1. PICK h \in view[w] : IsHead(view[w], h) /\ Linked(h, r)
    BY <1>2, <1>5 DEF Extends
  <2>2. h \in Line(D, i) /\ h \in Stored \ D /\ h \in Record /\ h.identity = i
    BY <1>2, <2>1 DEF Line, Stored
  <2>3. r.previous = h.sha /\ r.previous \in Sha
    BY <2>1, <2>2, RootIsFirst DEF Linked
  <2>4. r.kind \notin RootKinds
    BY <1>1, <2>3, RecordAssumption
  <2>5. AddressOf(r) = Successor(i, h.sha)
    BY <1>1, <2>3, <2>4, AddressFacts
  <2> SUFFICES ASSUME NEW s \in Line(D, i) PROVE s \in view[w]
    BY <1>2
  <2>6. s \in Stored \ D /\ s.identity = i /\ s \in Record
    BY DEF Line, Stored
  <2>7. ~(h.sequence < s.sequence)
    BY <1>1, <1>3, <2>2, <2>5, <2>6 DEF NoGap
  <2>8. s.sequence <= h.sequence
    BY <2>2, <2>6, <2>7, RootIsFirst
  <2> QED BY <1>2, <2>1, <2>8
<1> QED BY <1>4, <1>5

(* The parts of the invariant that speak of the files alone. *)
LEMMA SameFiles ==
  ASSUME TypeOK, NEW D \in SUBSET Record, FilesInv(D), files' = files
  PROVE  /\ Stored' = Stored
         /\ \A i : Line(D, i)' = Line(D, i)
         /\ FilesInv(D)'
<1>1. Stored' = Stored
  BY DEF Stored
<1>2. \A i : Line(D, i)' = Line(D, i)
  BY <1>1 DEF Line
<1>3. Addressed'
  BY DEF FilesInv, Addressed
<1>4. LateRoots(D)' /\ SequenceUnique(D)' /\ Rooted(D)'
  BY <1>1, <1>2 DEF FilesInv, LateRoots, SequenceUnique, Rooted
<1>5. NoGap(D)'
  BY <1>1 DEF FilesInv, NoGap
<1>6. Backed(D)'
  BY <1>2 DEF FilesInv, Backed
<1> QED BY <1>1, <1>2, <1>3, <1>4, <1>5, <1>6 DEF FilesInv

(* A call that ends drops its locals. *)
LEMMA ReturnStep ==
  ASSUME NEW D \in SUBSET Record, LineInv(D),
         TypeOK', NEW w \in Writer, Return(w), files' = files,
         Acknowledged' \subseteq Stored \ D
  PROVE  LineInv(D)'
<1> USE DEF LineInv, FilesInv
<1>1. /\ Stored' = Stored
      /\ \A i : Line(D, i)' = Line(D, i)
      /\ FilesInv(D)'
  BY SameFiles
<1>2. \A v \in Writer \ {w} :
        /\ pc'[v] = pc[v] /\ rec'[v] = rec[v]
        /\ listed'[v] = listed[v] /\ view'[v] = view[v]
  BY DEF Return, Goto, TypeOK
<1>3. pc'[w] = "idle" /\ view'[w] = {}
  BY DEF Return, Goto, TypeOK
<1>4. Exclusive'
  BY <1>2, <1>3 DEF Exclusive
<1>5. ListedClosed(D)'
  BY <1>1, <1>2, <1>3 DEF ListedClosed
<1>6. ViewStored(D)'
  BY <1>1, <1>2, <1>3 DEF ViewStored
<1>7. ViewCurrent(D)'
  BY <1>1, <1>2, <1>3 DEF ViewCurrent
<1>8. AcknowledgedStored(D)'
  BY <1>1 DEF AcknowledgedStored
<1> QED BY <1>1, <1>4, <1>5, <1>6, <1>7, <1>8

(* A step that leaves the files and the receipts alone keeps what is known *)
(* of every call but the one that steps.                                   *)
LEMMA LocalStep ==
  ASSUME NEW D \in SUBSET Record, LineInv(D),
         TypeOK', NEW w \in Writer, UNCHANGED <<files, receipts>>,
         \A v \in Writer \ {w} :
           pc'[v] = pc[v] /\ rec'[v] = rec[v] /\ listed'[v] = listed[v] /\ view'[v] = view[v],
         pc'[w] = "load" => \A a \in listed'[w] :
           /\ files[Successor(rec'[w].identity, a)] # Absent
           /\ \E p \in Line(D, rec'[w].identity) :
                /\ p.sha = a
                /\ \A s \in Line(D, rec'[w].identity) :
                     s.kind \notin RootKinds /\ s.sequence <= p.sequence
                       => s.previous \in listed'[w],
         view'[w] \subseteq Stored \ D,
         pc'[w] # "write",
         pc'[w] \in {"check", "create"} =>
           /\ view'[w] \subseteq Line(D, rec'[w].identity)
           /\ \A s \in view'[w] : s.event_id # rec'[w].event_id
           /\ Extends(view'[w], rec'[w])
           /\ \A s \in Line(D, rec'[w].identity), t \in view'[w] :
                s.sequence <= t.sequence => s \in view'[w]
  PROVE  LineInv(D)'
<1> USE DEF LineInv, FilesInv
<1>1. /\ Stored' = Stored
      /\ \A i : Line(D, i)' = Line(D, i)
      /\ FilesInv(D)'
  BY SameFiles
<1>2. Exclusive'
  BY DEF Exclusive
<1>3. ListedClosed(D)'
  BY <1>1 DEF ListedClosed
<1>4. ViewStored(D)'
  BY <1>1 DEF ViewStored
<1>5. ViewCurrent(D)'
  BY <1>1 DEF ViewCurrent
<1>6. AcknowledgedStored(D)'
  BY <1>1 DEF AcknowledgedStored, Acknowledged
<1> QED BY <1>1, <1>2, <1>3, <1>4, <1>5, <1>6

(* What a listing finds goes back to the root without a gap. *)
LEMMA ListStep ==
  ASSUME NEW D \in SUBSET Record, LineInv(D),
         TypeOK', NEW w \in Writer, List(w)
  PROVE  LineInv(D)'
<1> DEFINE i == rec[w].identity
<1> USE DEF LineInv, FilesInv
<1>1. rec[w] \in Record /\ i \in Identity
  BY RootIsFirst DEF List, TypeOK
<1>2. ASSUME NEW a \in Listing(i)
      PROVE  /\ files[Successor(i, a)] # Absent
             /\ \E p \in Line(D, i) :
                  /\ p.sha = a
                  /\ \A s \in Line(D, i) : s.kind \notin RootKinds => s.previous \in Listing(i)
  <2>1. a \in Sha /\ files[Successor(i, a)] # Absent
    BY DEF Listing
  <2>2. \E p \in Line(D, i) : p.sha = a
    BY <1>1, <2>1 DEF Backed
  <2>3. ASSUME NEW s \in Line(D, i), s.kind \notin RootKinds PROVE s.previous \in Listing(i)
    <3>1. s \in Stored /\ s.identity = i /\ s \in Record
      BY DEF Line, Stored
    <3>2. files[Successor(i, s.previous)] = s /\ s.previous \in Sha
      BY <2>3, <3>1, StoredAt, AddressFacts
    <3> QED BY <3>1, <3>2, StoreAssumption DEF Listing
  <2> QED BY <2>1, <2>2, <2>3
<1>3. /\ rec' = rec /\ view' = view /\ UNCHANGED <<files, receipts>>
      /\ pc'[w] \in {"load", "reload"} /\ listed'[w] = Listing(i)
      /\ \A v \in Writer \ {w} : pc'[v] = pc[v] /\ listed'[v] = listed[v]
  BY DEF List, Goto, TypeOK
<1>4. view'[w] \subseteq Stored \ D
  BY <1>3 DEF ViewStored
<1> QED BY <1>2, <1>3, <1>4, LocalStep

(* A load that succeeds sees everything up to its last record. *)
LEMMA LoadIsCurrent ==
  ASSUME NEW D \in SUBSET Record, LineInv(D),
         NEW w \in Writer, pc[w] = "load", Loads(rec[w].identity, listed[w]),
         NEW s \in Line(D, rec[w].identity),
         NEW t \in ChainOf(rec[w].identity, listed[w]), s.sequence <= t.sequence
  PROVE  s \in ChainOf(rec[w].identity, listed[w])
<1> DEFINE i == rec[w].identity
           L == listed[w]
<1> USE DEF LineInv, FilesInv
<1>1. i \in Identity /\ L \in SUBSET Sha
  BY RootIsFirst DEF TypeOK
<1>2. ChainOf(i, L) \subseteq Line(D, i)
  BY <1>1, LoadedIsStored
<1>3. /\ s \in Stored \ D /\ s \in Record /\ s.identity = i /\ s # Absent
      /\ t \in Stored \ D /\ t \in Record /\ t.identity = i
  BY <1>2, StoreAssumption DEF Line, Stored
<1>4. /\ files[AddressOf(s)] = s /\ files[AddressOf(t)] = t
      /\ s.sequence \in Nat /\ t.sequence \in Nat
  BY <1>3, StoredAt, RootIsFirst
<1>5. CASE s.kind \in RootKinds
  <2>1. CASE s.kind = "MIGRATE_IN"
    <3>1. files[RootOf(i)] = s
      BY <1>3, <1>4, <2>1, AddressFacts
    <3> QED BY <1>3, <3>1 DEF ChainOf, RootFile
  <2>2. CASE s.kind = "INITIALIZE"
    <3>1. files[Origin] = s
      BY <1>3, <1>4, <2>2, AddressFacts
    <3>2. OriginIs(i)
      BY <1>3, <3>1 DEF OriginIs
    <3>3. RootFile(i) = s
      BY <3>1, <3>2 DEF RootFile, Loads
    <3> QED BY <1>3, <3>3 DEF ChainOf
  <2> QED BY <1>5, <2>1, <2>2 DEF RootKinds
<1>6. CASE s.kind \notin RootKinds
  <2>1. t.kind \notin RootKinds
    BY <1>3, <1>4, <1>6, RootIsFirst
  <2>2. PICK q \in ChainOf(i, L) : Linked(q, t)
    BY <2>1 DEF Loads, ValidChain
  <2>3. q \in Line(D, i) /\ q \in Record /\ q.sequence \in Nat /\ q.sha = t.previous
        /\ t.sequence = q.sequence + 1
    BY <1>2, <2>2, RootIsFirst DEF Linked, Line, Stored
  <2>4. t.previous \in L
    <3>1. t # RootFile(i)
      <4>1. AddressOf(t) = Successor(i, t.previous) /\ t.previous \in Sha
        BY <1>3, <2>1, AddressFacts
      <4>2. AddressOf(t) # Origin /\ AddressOf(t) # RootOf(i)
        BY <4>1, StoreAssumption DEF Successor, Origin, RootOf
      <4>3. Origin \in Address /\ RootOf(i) \in Address
        BY <1>1 DEF Origin, RootOf, Address
      <4>4. t # files[Origin] /\ t # files[RootOf(i)]
        BY <1>3, <4>2, <4>3 DEF Addressed
      <4> QED BY <1>3, <4>4, StoreAssumption DEF RootFile
    <3>2. PICK a \in L : t = files[Successor(i, a)]
      BY <3>1 DEF ChainOf
    <3>3. a \in Sha /\ Successor(i, a) \in Address
      BY <1>1 DEF Successor, Address
    <3>4. AddressOf(t) = Successor(i, a)
      BY <1>3, <3>2, <3>3 DEF Addressed
    <3>5. AddressOf(t) = Successor(i, t.previous)
      BY <1>3, <2>1, AddressFacts
    <3> QED BY <3>4, <3>5 DEF Successor
  <2>5. PICK p \in Line(D, i) :
          /\ p.sha = t.previous
          /\ \A x \in Line(D, i) : x.kind \notin RootKinds /\ x.sequence <= p.sequence
                               => x.previous \in L
    BY <2>4 DEF ListedClosed
  <2>6. p = q
    BY <2>3, <2>5, RecordAssumption DEF Line, Stored
  <2>7. CASE s.sequence = t.sequence
    BY <1>3, <2>7 DEF SequenceUnique
  <2>8. CASE s.sequence # t.sequence
    <3>1. s.sequence <= p.sequence
      BY <1>4, <2>3, <2>6, <2>8
    <3>2. s.previous \in L
      BY <1>6, <2>5, <3>1
    <3>3. files[Successor(i, s.previous)] = s
      BY <1>3, <1>4, <1>6, AddressFacts
    <3> QED BY <1>3, <3>2, <3>3 DEF ChainOf
  <2> QED BY <2>7, <2>8
<1> QED BY <1>5, <1>6

LEMMA LoadFreshStep ==
  ASSUME NEW D \in SUBSET Record, LineInv(D),
         TypeOK', NEW w \in Writer, LoadFresh(w)
  PROVE  LineInv(D)'
<1> DEFINE i == rec[w].identity
           C == ChainOf(i, listed[w])
<1> USE DEF LineInv, FilesInv
<1>1. i \in Identity /\ listed[w] \in SUBSET Sha /\ pc[w] = "load" /\ Loads(i, listed[w])
  BY RootIsFirst DEF LoadFresh, Fresh, TypeOK
<1>2. C \subseteq Line(D, i)
  BY <1>1, LoadedIsStored
<1>3. /\ rec' = rec /\ listed' = listed /\ UNCHANGED <<files, receipts>>
      /\ pc'[w] \in {"check", "create"} /\ view'[w] = C
      /\ \A v \in Writer \ {w} : pc'[v] = pc[v] /\ view'[v] = view[v]
  BY DEF LoadFresh, Goto, TypeOK
<1>4. (\A s \in C : s.event_id # rec[w].event_id) /\ Extends(C, rec[w])
  BY DEF LoadFresh, Fresh
<1>5. \A s \in Line(D, i), t \in C : s.sequence <= t.sequence => s \in C
  BY <1>1, LoadIsCurrent
<1>6. C \subseteq Stored \ D
  BY <1>2 DEF Line
<1> QED BY <1>2, <1>3, <1>4, <1>5, <1>6, LocalStep

LEMMA CheckStep ==
  ASSUME NEW D \in SUBSET Record, LineInv(D),
         TypeOK', NEW w \in Writer, CheckScope(w) \/ TakenBySame(w)
  PROVE  LineInv(D)'
<1> USE DEF LineInv, FilesInv
<1>1. /\ rec' = rec /\ listed' = listed /\ view' = view /\ UNCHANGED <<files, receipts>>
      /\ pc[w] \in {"check", "create"} /\ pc'[w] \in {"create", "relist"}
      /\ \A v \in Writer \ {w} : pc'[v] = pc[v]
  BY DEF CheckScope, TakenBySame, Goto, TypeOK
<1>2. view'[w] \subseteq Stored \ D
  BY <1>1 DEF ViewStored
<1>3. /\ view'[w] \subseteq Line(D, rec'[w].identity)
      /\ \A s \in view'[w] : s.event_id # rec'[w].event_id
      /\ Extends(view'[w], rec'[w])
      /\ \A s \in Line(D, rec'[w].identity), t \in view'[w] :
           s.sequence <= t.sequence => s \in view'[w]
  BY <1>1 DEF ViewCurrent
<1> QED BY <1>1, <1>2, <1>3, LocalStep

LEMMA StartStep ==
  ASSUME NEW D \in SUBSET Record, LineInv(D),
         TypeOK', NEW w \in Writer, NEW r \in Record, Start(w, r)
  PROVE  LineInv(D)'
<1> USE DEF LineInv, FilesInv
<1>1. /\ listed' = listed /\ view' = view /\ UNCHANGED <<files, receipts>>
      /\ pc'[w] = "list"
      /\ \A v \in Writer \ {w} : pc'[v] = pc[v] /\ rec'[v] = rec[v]
  BY DEF Start, Goto, TypeOK
<1>2. view'[w] \subseteq Stored \ D
  BY <1>1 DEF ViewStored
<1> QED BY <1>1, <1>2, LocalStep

(* The address a writer is about to create lies directly behind the last  *)
(* record of the chain it loaded, and that record does not seal the chain. *)
LEMMA BehindHead ==
  ASSUME NEW D \in SUBSET Record, LineInv(D),
         NEW w \in Writer, pc[w] \in {"check", "create", "write"},
         view[w] # {}
  PROVE  \E h \in view[w] :
           /\ h \in Line(D, rec[w].identity) /\ h \in Stored /\ h \in Record
           /\ h.identity = rec[w].identity
           /\ IsHead(view[w], h) /\ Linked(h, rec[w])
           /\ rec[w].kind \notin RootKinds
           /\ rec[w].previous = h.sha
           /\ AddressOf(rec[w]) = Successor(rec[w].identity, h.sha)
<1> USE DEF LineInv, FilesInv
<1>1. rec[w] \in Record
  BY DEF TypeOK
<1>2. PICK h \in view[w] : IsHead(view[w], h) /\ Linked(h, rec[w])
  BY DEF ViewCurrent, Extends
<1>3. h \in Line(D, rec[w].identity) /\ h \in Stored /\ h \in Record /\ h.identity = rec[w].identity
  BY <1>2 DEF ViewCurrent, Line, Stored
<1>4. rec[w].previous = h.sha /\ h.sha \in Sha
  BY <1>2, <1>3, RootIsFirst DEF Linked
<1>5. rec[w].kind \notin RootKinds
  BY <1>1, <1>4, RecordAssumption
<1> QED BY <1>1, <1>2, <1>3, <1>4, <1>5, AddressFacts

(* Claiming an address stores nothing yet, and keeps everybody else out. *)
LEMMA ClaimStep ==
  ASSUME NEW D \in SUBSET Record, LineInv(D),
         TypeOK', NEW w \in Writer, Claim(w)
  PROVE  LineInv(D)'
<1> DEFINE r == rec[w]
           A == AddressOf(rec[w])
<1> USE DEF LineInv, FilesInv
<1>1. r \in Record /\ A \in Address /\ r.identity \in Identity
  BY AddressFacts, RootIsFirst DEF Claim, TypeOK
<1>2. Torn \notin Record /\ Absent \notin Record /\ Torn # Absent
  BY StoreAssumption
<1>3. /\ pc[w] = "create" /\ pc'[w] = "write"
      /\ files[A] = Absent /\ files'[A] = Torn
      /\ \A a \in Address \ {A} : files'[a] = files[a]
      /\ UNCHANGED <<rec, listed, view, receipts>>
      /\ \A v \in Writer \ {w} : pc'[v] = pc[v]
  BY <1>1 DEF Claim, Goto, TypeOK
<1>4. /\ \A a \in Address : files[a] \in Record => files'[a] = files[a]
      /\ \A a \in Address : files[a] # Absent => files'[a] # Absent
      /\ \A a \in Address : files'[a] \in Record => files[a] \in Record
  BY <1>2, <1>3
<1>5. Stored' = Stored
  BY <1>2, <1>3, <1>4 DEF Stored
<1>6. \A i : Line(D, i)' = Line(D, i)
  BY <1>5 DEF Line
<1>7. Addressed'
  BY <1>4 DEF Addressed
<1>8. Exclusive'
  <2>1. ASSUME NEW v \in Writer \ {w}, pc[v] = "write"
        PROVE  AddressOf(rec[v]) # A /\ files'[AddressOf(rec[v])] = Torn
    <3>1. rec[v] \in Record /\ AddressOf(rec[v]) \in Address
      BY <2>1, AddressFacts DEF TypeOK
    <3>2. files[AddressOf(rec[v])] = Torn
      BY <2>1 DEF Exclusive
    <3> QED BY <1>2, <1>3, <3>1, <3>2
  <2> QED BY <1>3, <2>1 DEF Exclusive
<1>9. LateRoots(D)' /\ SequenceUnique(D)' /\ Rooted(D)'
  BY <1>5, <1>6 DEF LateRoots, SequenceUnique, Rooted
<1>10. NoGap(D)'
  <2> SUFFICES ASSUME NEW x \in Stored \ D, NEW y \in Stored \ D,
                      x.identity = y.identity, y.sequence < x.sequence
               PROVE  files'[Successor(y.identity, y.sha)] \in Record
    BY <1>5 DEF NoGap
  <2>1. files[Successor(y.identity, y.sha)] \in Record
    BY DEF NoGap
  <2>2. Successor(y.identity, y.sha) \in Address
    BY RootIsFirst DEF Stored, Successor, Address
  <2> QED BY <1>4, <2>1, <2>2
<1>11. Backed(D)'
  <2> SUFFICES ASSUME NEW i \in Identity, NEW a \in Sha, files'[Successor(i, a)] # Absent
               PROVE  \E p \in Line(D, i) : p.sha = a /\ p.kind # "MIGRATE_OUT"
    BY <1>6 DEF Backed
  <2>1. Successor(i, a) \in Address
    BY DEF Successor, Address
  <2>2. CASE Successor(i, a) # A
    BY <1>3, <2>1, <2>2 DEF Backed
  <2>3. CASE Successor(i, a) = A
    <3>1. r.kind \notin RootKinds
      BY <1>1, <2>3, AddressFacts, StoreAssumption
      DEF Successor, Origin, RootOf, RootKinds
    <3>2. view[w] # {}
      BY <1>3, <3>1 DEF ViewCurrent, Extends
    <3>3. PICK h \in view[w] :
            /\ h \in Line(D, r.identity) /\ Linked(h, r)
            /\ A = Successor(r.identity, h.sha)
      BY <1>3, <3>2, BehindHead
    <3>4. i = r.identity /\ a = h.sha
      BY <2>3, <3>3 DEF Successor
    <3> QED BY <3>3, <3>4 DEF Linked
  <2> QED BY <2>2, <2>3
<1>12. ListedClosed(D)'
  <2> SUFFICES ASSUME NEW v \in Writer, pc[v] = "load", NEW a \in listed[v]
               PROVE  files'[Successor(rec[v].identity, a)] # Absent
    BY <1>3, <1>6 DEF ListedClosed
  <2>1. files[Successor(rec[v].identity, a)] # Absent
    BY DEF ListedClosed
  <2>2. rec[v].identity \in Identity /\ a \in Sha
    BY RootIsFirst DEF TypeOK
  <2>3. Successor(rec[v].identity, a) \in Address
    BY <2>2 DEF Successor, Address
  <2> QED BY <1>4, <2>1, <2>3
<1>13. ViewStored(D)'
  BY <1>3, <1>5 DEF ViewStored
<1>14. ViewCurrent(D)'
  BY <1>3, <1>6 DEF ViewCurrent
<1>15. AcknowledgedStored(D)'
  BY <1>3, <1>5 DEF AcknowledgedStored, Acknowledged
<1> QED BY <1>5, <1>7, <1>8, <1>9, <1>10, <1>11, <1>12, <1>13, <1>14, <1>15

(* What a write does to the store: it adds one record, and the files that  *)
(* were complete stay.                                                     *)
LEMMA WriteAdds ==
  ASSUME NEW D \in SUBSET Record, LineInv(D),
         NEW w \in Writer, Write(w)
  PROVE  /\ rec[w] \in Record /\ AddressOf(rec[w]) \in Address
         /\ files[AddressOf(rec[w])] = Torn /\ files'[AddressOf(rec[w])] = rec[w]
         /\ \A a \in Address : files[a] \in Record => files'[a] = files[a]
         /\ \A a \in Address : files'[a] # Absent <=> files[a] # Absent
         /\ \A a \in Address \ {AddressOf(rec[w])} : files'[a] = files[a]
         /\ rec[w] \notin Stored /\ Stored' = Stored \union {rec[w]}
<1> DEFINE r == rec[w]
           A == AddressOf(rec[w])
<1> USE DEF LineInv, FilesInv
<1>1. r \in Record /\ A \in Address /\ r.identity \in Identity
  BY AddressFacts, RootIsFirst DEF Write, TypeOK
<1>2. Torn \notin Record /\ Absent \notin Record /\ Torn # Absent
  BY StoreAssumption
<1>3. pc[w] = "write" /\ files[A] = Torn
  BY DEF Write, Exclusive
<1>4. files'[A] = r /\ \A a \in Address \ {A} : files'[a] = files[a]
  BY <1>1 DEF Write, TypeOK
<1>5. r \notin Stored
  BY <1>2, <1>3, StoredAt
<1>6. Stored' = Stored \union {r}
  BY <1>1, <1>2, <1>3, <1>4 DEF Stored
<1> QED BY <1>1, <1>2, <1>3, <1>4, <1>5, <1>6

(* Unless it starts its identity for the second time, the record goes      *)
(* behind all others of its identity.                                      *)
LEMMA WriteBehind ==
  ASSUME NEW D \in SUBSET Record, LineInv(D),
         NEW w \in Writer, Write(w), ~SecondRoot(rec[w]), NEW s \in Line(D, rec[w].identity)
  PROVE  s.sequence < rec[w].sequence
<1> USE DEF LineInv, FilesInv
<1>1. pc[w] = "write"
  BY DEF Write
<1>2. s \in view[w]
  BY <1>1, ClaimIsAtHead
<1>3. PICK h \in view[w] : IsHead(view[w], h) /\ Linked(h, rec[w]) /\ h \in Record
  BY <1>1, <1>2, BehindHead
<1>4. s.sequence <= h.sequence /\ rec[w].sequence = h.sequence + 1
  BY <1>2, <1>3 DEF IsHead, Linked
<1>5. s.sequence \in Nat /\ h.sequence \in Nat
  BY <1>3, RootIsFirst DEF Line, Stored
<1> QED BY <1>4, <1>5

LEMMA WriteStep ==
  ASSUME NEW D \in SUBSET Record, LineInv(D),
         TypeOK', NEW w \in Writer, Write(w), ~SecondRoot(rec[w])
  PROVE  LineInv(D)'
<1> DEFINE r == rec[w]
           A == AddressOf(rec[w])
<1> USE DEF LineInv, FilesInv
<1>1. /\ r \in Record /\ A \in Address
      /\ files[A] = Torn /\ files'[A] = r
      /\ \A a \in Address : files[a] \in Record => files'[a] = files[a]
      /\ \A a \in Address : files'[a] # Absent <=> files[a] # Absent
      /\ \A a \in Address \ {A} : files'[a] = files[a]
      /\ r \notin Stored /\ Stored' = Stored \union {r}
      /\ \A s \in Line(D, r.identity) : s.sequence < r.sequence
      /\ r \notin D
  BY WriteAdds, WriteBehind DEF LateRoots
<1>2. /\ pc[w] = "write" /\ pc'[w] = "relist"
      /\ \A v \in Writer \ {w} : pc'[v] = pc[v]
      /\ UNCHANGED <<rec, listed, view, receipts>>
  BY DEF Write, Goto, TypeOK
<1>3. \A i : Line(D, i)' = IF i = r.identity THEN Line(D, i) \union {r} ELSE Line(D, i)
  BY <1>1 DEF Line
<1>4. \A s \in Stored' : s \in Record /\ s.sequence \in Nat
  BY <1>1, RootIsFirst DEF Stored
<1>5. Addressed'
  BY <1>1 DEF Addressed
<1>6. Exclusive'
  <2>1. ASSUME NEW v \in Writer \ {w}, pc[v] = "write" PROVE files'[AddressOf(rec[v])] = Torn
    <3>1. AddressOf(rec[v]) \in Address
      BY <2>1, AddressFacts DEF TypeOK
    <3>2. files[AddressOf(rec[v])] = Torn /\ AddressOf(rec[v]) # A
      BY <1>2, <2>1 DEF Exclusive
    <3> QED BY <1>1, <3>1, <3>2
  <2> QED BY <1>2, <2>1 DEF Exclusive
<1>7. \A s \in Stored \ D : s.identity = r.identity => s.sequence < r.sequence
  BY <1>1 DEF Line
<1>16. LateRoots(D)'
  <2>1. \A x \in D : x \in Stored /\ x.kind \in RootKinds
                   /\ \E y \in Line(D, x.identity) : y.kind \in RootKinds
    BY DEF LateRoots
  <2>2. \A x \in D : \A y \in Line(D, x.identity) : y \in Line(D, x.identity)'
    BY <1>1 DEF Line
  <2> QED BY <1>1, <2>1, <2>2 DEF LateRoots
<1>8. SequenceUnique(D)'
  <2> SUFFICES ASSUME NEW x \in Stored' \ D, NEW y \in Stored' \ D,
                      x.identity = y.identity, x.sequence = y.sequence
               PROVE  x = y
    BY DEF SequenceUnique
  <2>1. CASE x \in Stored /\ y \in Stored
    BY <2>1 DEF SequenceUnique
  <2>2. CASE x = r \/ y = r
    BY <1>1, <1>4, <1>7, <2>2
  <2> QED BY <1>1, <2>1, <2>2
<1>9. NoGap(D)'
  <2> SUFFICES ASSUME NEW x \in Stored' \ D, NEW y \in Stored' \ D,
                      x.identity = y.identity, y.sequence < x.sequence
               PROVE  files'[Successor(y.identity, y.sha)] \in Record
    BY DEF NoGap
  <2>1. Successor(y.identity, y.sha) \in Address
    BY <1>4, RootIsFirst DEF Successor, Address
  <2>2. CASE x \in Stored /\ y \in Stored
    BY <1>1, <2>1, <2>2 DEF NoGap
  <2>3. CASE y = r
    BY <1>1, <1>4, <1>7, <2>3
  <2>4. CASE x = r /\ y \in Stored \ D
    <3>1. y \in Line(D, r.identity) /\ Line(D, r.identity) = view[w]
      BY <1>2, <2>4, ClaimIsAtHead DEF Line
    <3>2. PICK h \in view[w] :
            /\ h \in Stored \ D /\ h.identity = r.identity /\ IsHead(view[w], h)
            /\ A = Successor(r.identity, h.sha)
      BY <1>2, <3>1, BehindHead DEF Line
    <3>3. y.sequence <= h.sequence
      BY <3>1, <3>2 DEF IsHead
    <3>4. CASE y.sequence = h.sequence
      <4>1. y = h
        BY <2>4, <3>2, <3>4 DEF SequenceUnique
      <4> QED BY <1>1, <3>2, <4>1
    <3>5. CASE y.sequence # h.sequence
      <4>1. y.sequence < h.sequence
        BY <1>1, <1>4, <2>4, <3>2, <3>3, <3>5
      <4>2. files[Successor(y.identity, y.sha)] \in Record
        BY <2>4, <3>2, <4>1 DEF NoGap
      <4> QED BY <1>1, <2>1, <4>2
    <3> QED BY <3>4, <3>5
  <2> QED BY <1>1, <2>2, <2>3, <2>4
<1>10. Rooted(D)'
  <2>1. CASE view[w] = {}
    <3>1. r.kind \in RootKinds
      BY <1>2, <2>1 DEF ViewCurrent, Extends
    <3> QED BY <1>1, <1>3, <3>1 DEF Rooted, Line
  <2>2. CASE view[w] # {}
    <3>1. \E h \in Stored \ D : h.identity = r.identity
      BY <1>2, <2>2, BehindHead DEF Line
    <3> QED BY <1>1, <3>1 DEF Rooted, Line
  <2> QED BY <2>1, <2>2
<1>11. Backed(D)'
  <2> SUFFICES ASSUME NEW i \in Identity, NEW a \in Sha, files'[Successor(i, a)] # Absent
               PROVE  \E p \in Line(D, i) : p.sha = a /\ p.kind # "MIGRATE_OUT"
    BY <1>3 DEF Backed
  <2>1. Successor(i, a) \in Address
    BY DEF Successor, Address
  <2> QED BY <1>1, <2>1 DEF Backed
<1>12. ListedClosed(D)'
  <2> SUFFICES ASSUME NEW v \in Writer, pc[v] = "load", NEW a \in listed[v]
               PROVE  /\ files'[Successor(rec[v].identity, a)] # Absent
                      /\ \E p \in Line(D, rec[v].identity)' :
                           /\ p.sha = a
                           /\ \A s \in Line(D, rec[v].identity)' :
                                s.kind \notin RootKinds /\ s.sequence <= p.sequence
                                  => s.previous \in listed[v]
    BY <1>2 DEF ListedClosed
  <2>1. rec[v].identity \in Identity /\ a \in Sha
    BY RootIsFirst DEF TypeOK
  <2>2. Successor(rec[v].identity, a) \in Address
    BY <2>1 DEF Successor, Address
  <2>3. files[Successor(rec[v].identity, a)] # Absent
    BY DEF ListedClosed
  <2>4. PICK p \in Line(D, rec[v].identity) :
          /\ p.sha = a
          /\ \A s \in Line(D, rec[v].identity) :
               s.kind \notin RootKinds /\ s.sequence <= p.sequence => s.previous \in listed[v]
    BY DEF ListedClosed
  <2>5. ASSUME NEW s \in Line(D, rec[v].identity)', s.kind \notin RootKinds,
               s.sequence <= p.sequence
        PROVE  s.previous \in listed[v]
    <3>1. CASE s \in Line(D, rec[v].identity)
      BY <2>4, <2>5, <3>1
    <3>2. CASE s \notin Line(D, rec[v].identity)
      <4>1. s = r /\ rec[v].identity = r.identity
        BY <1>1, <1>2, <3>2 DEF Line
      <4>2. p.sequence < s.sequence /\ p \in Stored'
        BY <1>1, <4>1 DEF Line
      <4>3. p.sequence \in Nat /\ s.sequence \in Nat
        BY <1>1, <1>4, <4>1, <4>2
      <4> QED BY <2>5, <4>2, <4>3
    <3> QED BY <3>1, <3>2
  <2>6. p \in Line(D, rec[v].identity)'
    BY <1>1, <1>2 DEF Line
  <2> QED BY <1>1, <2>2, <2>3, <2>4, <2>5, <2>6
<1>13. ViewStored(D)'
  BY <1>1, <1>2 DEF ViewStored
<1>14. ViewCurrent(D)'
  <2> SUFFICES ASSUME NEW v \in Writer \ {w}, pc[v] \in {"check", "create", "write"}
               PROVE  /\ view[v] \subseteq Line(D, rec[v].identity)'
                      /\ \A s \in view[v] : s.event_id # rec[v].event_id
                      /\ Extends(view[v], rec[v])
                      /\ \A s \in Line(D, rec[v].identity)', t \in view[v] :
                           s.sequence <= t.sequence => s \in view[v]
    BY <1>2 DEF ViewCurrent
  <2>1. /\ view[v] \subseteq Line(D, rec[v].identity)
        /\ \A s \in view[v] : s.event_id # rec[v].event_id
        /\ Extends(view[v], rec[v])
        /\ \A s \in Line(D, rec[v].identity), t \in view[v] :
             s.sequence <= t.sequence => s \in view[v]
    BY DEF ViewCurrent
  <2>2. ASSUME NEW s \in Line(D, rec[v].identity)', NEW t \in view[v], s.sequence <= t.sequence
        PROVE  s \in view[v]
    <3>1. CASE s \in Line(D, rec[v].identity)
      BY <2>1, <2>2, <3>1
    <3>2. CASE s \notin Line(D, rec[v].identity)
      <4>1. s = r /\ rec[v].identity = r.identity
        BY <1>1, <1>2, <3>2 DEF Line
      <4>2. t.sequence < s.sequence /\ t \in Stored'
        BY <1>1, <2>1, <4>1 DEF Line
      <4>3. t.sequence \in Nat /\ s.sequence \in Nat
        BY <1>1, <1>4, <4>1, <4>2
      <4> QED BY <2>2, <4>2, <4>3
    <3> QED BY <3>1, <3>2
  <2>3. view[v] \subseteq Line(D, rec[v].identity)'
    BY <1>1, <1>2, <2>1 DEF Line
  <2> QED BY <2>1, <2>2, <2>3
<1>15. AcknowledgedStored(D)'
  BY <1>1, <1>2 DEF AcknowledgedStored, Acknowledged
<1> QED BY <1>5, <1>6, <1>8, <1>9, <1>10, <1>11, <1>12, <1>13, <1>14, <1>15, <1>16

(* A second root changes the line of nobody. *)
LEMMA SecondRootStep ==
  ASSUME NEW D \in SUBSET Record, LineInv(D), TypeOK',
         NEW w \in Writer, Write(w), SecondRoot(rec[w]),
         NEW M \in SUBSET Record, M = D \union {rec[w]}
  PROVE  LineInv(M)'
<1> DEFINE r == rec[w]
           A == AddressOf(rec[w])
<1> USE DEF LineInv, FilesInv
<1>1. /\ r \in Record /\ A \in Address
      /\ files[A] = Torn /\ files'[A] = r
      /\ \A a \in Address : files[a] \in Record => files'[a] = files[a]
      /\ \A a \in Address : files'[a] # Absent <=> files[a] # Absent
      /\ \A a \in Address \ {A} : files'[a] = files[a]
      /\ r \notin Stored /\ Stored' = Stored \union {r}
      /\ r \notin D
  BY WriteAdds DEF LateRoots
<1>2. /\ pc[w] = "write" /\ pc'[w] = "relist"
      /\ \A v \in Writer \ {w} : pc'[v] = pc[v]
      /\ UNCHANGED <<rec, listed, view, receipts>>
  BY DEF Write, Goto, TypeOK
<1>3. Stored' \ M = Stored \ D /\ \A i : Line(M, i)' = Line(D, i)
  BY <1>1 DEF Line
<1>4. Addressed'
  BY <1>1 DEF Addressed
<1>5. Exclusive'
  <2>1. ASSUME NEW v \in Writer \ {w}, pc[v] = "write" PROVE files'[AddressOf(rec[v])] = Torn
    <3>1. AddressOf(rec[v]) \in Address
      BY <2>1, AddressFacts DEF TypeOK
    <3>2. files[AddressOf(rec[v])] = Torn /\ AddressOf(rec[v]) # A
      BY <1>2, <2>1 DEF Exclusive
    <3> QED BY <1>1, <3>1, <3>2
  <2> QED BY <1>2, <2>1 DEF Exclusive
<1>6. LateRoots(M)'
  <2>1. PICK s \in Stored : s.identity = r.identity /\ s.kind \in RootKinds
    BY DEF SecondRoot
  <2>2. \E t \in Line(D, r.identity) : t.kind \in RootKinds
    BY <2>1 DEF LateRoots, Line
  <2>3. \A x \in M : x \in Stored' /\ x.kind \in RootKinds
                   /\ \E t \in Line(D, x.identity) : t.kind \in RootKinds
    BY <1>1, <2>2 DEF LateRoots, SecondRoot
  <2> QED BY <1>3, <2>3 DEF LateRoots
<1>7. SequenceUnique(M)' /\ Rooted(M)'
  BY <1>3 DEF SequenceUnique, Rooted, Line
<1>8. NoGap(M)'
  <2> SUFFICES ASSUME NEW x \in Stored \ D, NEW y \in Stored \ D,
                      x.identity = y.identity, y.sequence < x.sequence
               PROVE  files'[Successor(y.identity, y.sha)] \in Record
    BY <1>3 DEF NoGap
  <2>1. files[Successor(y.identity, y.sha)] \in Record
    BY DEF NoGap
  <2>2. Successor(y.identity, y.sha) \in Address
    BY RootIsFirst DEF Stored, Successor, Address
  <2> QED BY <1>1, <2>1, <2>2
<1>9. Backed(M)'
  <2>1. \A i \in Identity, a \in Sha : Successor(i, a) \in Address
    BY DEF Successor, Address
  <2> QED BY <1>1, <1>3, <2>1 DEF Backed
<1>10. ListedClosed(M)'
  <2> SUFFICES ASSUME NEW v \in Writer, pc[v] = "load", NEW a \in listed[v]
               PROVE  files'[Successor(rec[v].identity, a)] # Absent
    BY <1>2, <1>3 DEF ListedClosed, Line
  <2>1. files[Successor(rec[v].identity, a)] # Absent
    BY DEF ListedClosed
  <2>2. rec[v].identity \in Identity /\ a \in Sha
    BY RootIsFirst DEF TypeOK
  <2>3. Successor(rec[v].identity, a) \in Address
    BY <2>2 DEF Successor, Address
  <2> QED BY <1>1, <2>1, <2>3
<1>11. ViewStored(M)'
  BY <1>2, <1>3 DEF ViewStored
<1>12. ViewCurrent(M)'
  BY <1>2, <1>3 DEF ViewCurrent, Line
<1>13. AcknowledgedStored(M)'
  BY <1>2, <1>3 DEF AcknowledgedStored, Acknowledged
<1> QED
  BY <1>4, <1>5, <1>6, <1>7, <1>8, <1>9, <1>10, <1>11, <1>12, <1>13

LEMMA ReceiptStep ==
  ASSUME NEW D \in SUBSET Record, LineInv(D),
         TypeOK', NEW w \in Writer, LoadKnown(w) \/ Confirm(w)
  PROVE  LineInv(D)'
<1> USE DEF LineInv, FilesInv
<1>1. rec[w] \in Record /\ rec[w].identity \in Identity /\ listed[w] \in SUBSET Sha
  BY RootIsFirst DEF LoadKnown, Confirm, TypeOK
<1>2. rec[w] \in Stored \ D
  BY <1>1, LoadedIsStored DEF LoadKnown, Confirm, Found, Line
<1>3. PICK st \in Status : receipts' = receipts \union {<<rec[w], st>>}
  BY DEF LoadKnown, Confirm, Status
<1>4. Acknowledged' \subseteq Stored \ D
  BY <1>2, <1>3 DEF Acknowledged, AcknowledgedStored
<1> QED BY <1>4, ReturnStep DEF LoadKnown, Confirm

LEMMA RefusalStep ==
  ASSUME NEW D \in SUBSET Record, LineInv(D),
         TypeOK', NEW w \in Writer,
         LoadRefused(w) \/ ScopeRefused(w) \/ TakenByOther(w)
           \/ Unconfirmed(w) \/ Interrupt(w)
  PROVE  LineInv(D)'
<1>1. Return(w) /\ UNCHANGED <<files, receipts>>
  BY DEF LoadRefused, ScopeRefused, TakenByOther, Unconfirmed, Interrupt
<1>2. Acknowledged' \subseteq Stored \ D
  BY <1>1 DEF LineInv, AcknowledgedStored, Acknowledged
<1> QED BY <1>1, <1>2, ReturnStep

LEMMA StutterStep ==
  ASSUME NEW D \in SUBSET Record, LineInv(D), UNCHANGED vars
  PROVE  LineInv(D)'
<1> USE DEF LineInv, FilesInv, vars, locals
<1>1. TypeOK' /\ FilesInv(D)'
      /\ Stored' = Stored /\ \A i : Line(D, i)' = Line(D, i)
  BY SameFiles DEF TypeOK
<1>2. Exclusive' /\ ListedClosed(D)' /\ ViewStored(D)' /\ ViewCurrent(D)' /\ AcknowledgedStored(D)'
  BY <1>1 DEF Exclusive, ListedClosed, ViewStored, ViewCurrent, AcknowledgedStored, Acknowledged
<1> QED BY <1>1, <1>2

(* Only a write adds a record to the store. *)
LEMMA StoredStays ==
  ASSUME TypeOK, [Next]_vars, \A w \in Writer : ~Write(w)
  PROVE  Stored' = Stored
<1>1. CASE \E w \in Writer : Claim(w)
  <2>1. PICK w \in Writer : Claim(w)
    BY <1>1
  <2>2. AddressOf(rec[w]) \in Address
    BY <2>1, AddressFacts DEF TypeOK, Claim
  <2> QED BY <2>1, <2>2, StoreAssumption DEF TypeOK, Claim, Stored
<1>2. CASE \A w \in Writer : ~Claim(w)
  <2>1. files' = files
    BY <1>2
    DEF Next, Call, vars, Start, List, LoadKnown, LoadFresh, LoadRefused, CheckScope,
        ScopeRefused, TakenBySame, TakenByOther, Confirm, Unconfirmed, Interrupt
  <2> QED BY <2>1 DEF Stored
<1> QED BY <1>1, <1>2

LEMMA LineStep ==
  ASSUME NEW D \in SUBSET Record, LineInv(D), [Next]_vars,
         NEW M, M = D \union {r \in Stored' \ Stored : SecondRoot(r)}
  PROVE  M \in SUBSET Record /\ LineInv(M)'
<1>1. TypeOK'
  BY TypeStep DEF LineInv, FilesInv
<1>2. CASE \E w \in Writer : Write(w)
  <2>1. PICK w \in Writer : Write(w)
    BY <1>2
  <2>2. rec[w] \in Record /\ rec[w] \notin Stored /\ Stored' = Stored \union {rec[w]}
    BY <2>1, WriteAdds
  <2>3. CASE SecondRoot(rec[w])
    <3>1. M = D \union {rec[w]}
      BY <2>2, <2>3
    <3> QED BY <1>1, <2>1, <2>2, <2>3, <3>1, SecondRootStep
  <2>4. CASE ~SecondRoot(rec[w])
    <3>1. M = D
      BY <2>2, <2>4
    <3> QED BY <1>1, <2>1, <2>4, <3>1, WriteStep
  <2> QED BY <2>3, <2>4
<1>3. CASE \A w \in Writer : ~Write(w)
  <2>1. M = D
    BY <1>3, StoredStays DEF LineInv
  <2>2. LineInv(D)'
    <3>1. CASE \E w \in Writer, r \in Record : Start(w, r)
      BY <1>1, <3>1, StartStep
    <3>2. CASE \E w \in Writer : List(w)
      BY <1>1, <3>2, ListStep
    <3>3. CASE \E w \in Writer : LoadKnown(w) \/ Confirm(w)
      BY <1>1, <3>3, ReceiptStep
    <3>4. CASE \E w \in Writer : LoadFresh(w)
      BY <1>1, <3>4, LoadFreshStep
    <3>5. CASE \E w \in Writer : \/ LoadRefused(w) \/ ScopeRefused(w) \/ TakenByOther(w)
                                   \/ Unconfirmed(w) \/ Interrupt(w)
      BY <1>1, <3>5, RefusalStep
    <3>6. CASE \E w \in Writer : CheckScope(w) \/ TakenBySame(w)
      BY <1>1, <3>6, CheckStep
    <3>7. CASE \E w \in Writer : Claim(w)
      BY <1>1, <3>7, ClaimStep
    <3>8. CASE UNCHANGED vars
      BY <3>8, StutterStep
    <3> QED
      BY <1>3, <3>1, <3>2, <3>3, <3>4, <3>5, <3>6, <3>7, <3>8 DEF Next, Call
  <2> QED BY <2>1, <2>2
<1> QED BY <1>2, <1>3

LEMMA InvariantStep ==
  ASSUME IInv, [Next]_vars PROVE IInv'
<1>1. PICK D \in SUBSET Record : LineInv(D)
  BY DEF IInv
<1>2. \E M : M = D \union {r \in Stored' \ Stored : SecondRoot(r)}
  OBVIOUS
<1>3. PICK M : M = D \union {r \in Stored' \ Stored : SecondRoot(r)}
  BY <1>2
<1>4. M \in SUBSET Record /\ LineInv(M)'
  BY <1>1, <1>3, LineStep
<1> QED BY <1>4 DEF IInv

LEMMA LineInit ==
  ASSUME Init PROVE LineInv({})
<1>1. Stored = {} /\ Acknowledged = {} /\ \A i : Line({}, i) = {}
  BY StoreAssumption DEF Init, Stored, Acknowledged, Line
<1>2. \A i \in Identity, a \in Sha : files[Successor(i, a)] = Absent
  BY DEF Init, Address, Successor
<1>3. TypeOK
  BY DEF Init, TypeOK
<1>4. FilesInv({})
  BY <1>1, <1>2, StoreAssumption
  DEF Init, FilesInv, Addressed, LateRoots, SequenceUnique, NoGap, Rooted, Backed
<1>5. Exclusive /\ ListedClosed({}) /\ ViewStored({}) /\ ViewCurrent({})
      /\ AcknowledgedStored({})
  BY <1>1 DEF Init, Exclusive, ListedClosed, ViewStored, ViewCurrent, AcknowledgedStored
<1> QED BY <1>3, <1>4, <1>5 DEF LineInv

LEMMA InvariantInit == Init => IInv
BY LineInit DEF IInv

-----------------------------------------------------------------------------
(* The calls of append keep the inductive invariant, whatever they         *)
(* interleave and wherever they are interrupted.                           *)
THEOREM Invariance == Spec => []IInv
BY InvariantInit, InvariantStep, PTL DEF Spec

(* Files, locals and receipts keep their types: in particular a load only *)
(* ever hands records of the scope to the caller.                          *)
THEOREM TypeCorrect == Spec => []TypeOK
<1>1. IInv => TypeOK
  BY DEF IInv, LineInv
<1> QED BY <1>1, Invariance, PTL

(* No call of append creates a file behind a MIGRATE_OUT record. *)
THEOREM SealsAreFinal == Spec => []SealIsFinal
<1>1. ASSUME IInv PROVE SealIsFinal
  <2> SUFFICES ASSUME NEW r \in Stored, r.kind = "MIGRATE_OUT",
                      files[Successor(r.identity, r.sha)] # Absent
               PROVE  FALSE
    BY DEF SealIsFinal
  <2>1. r \in Record /\ r.identity \in Identity /\ r.sha \in Sha
    BY RootIsFirst DEF Stored
  <2>2. PICK D \in SUBSET Record : LineInv(D)
    BY <1>1 DEF IInv
  <2>3. PICK p \in Line(D, r.identity) : p.sha = r.sha /\ p.kind # "MIGRATE_OUT"
    BY <2>1, <2>2 DEF LineInv, FilesInv, Backed
  <2>4. p \in Record
    BY DEF Line, Stored
  <2> QED BY <2>1, <2>3, <2>4, RecordAssumption
<1> QED BY <1>1, Invariance, PTL

(* Two writers are never both told that they extended one predecessor, nor *)
(* that they started one identity, or the scope.                           *)
THEOREM NoForks == Spec => []NoFork
<1>1. ASSUME IInv PROVE NoFork
  <2> SUFFICES ASSUME NEW r \in Acknowledged, NEW s \in Acknowledged,
                      \/ AddressOf(r) = AddressOf(s)
                      \/ r.identity = s.identity /\ r.kind \in RootKinds /\ s.kind \in RootKinds
               PROVE  r = s
    BY DEF NoFork
  <2> PICK D \in SUBSET Record : LineInv(D)
    BY <1>1 DEF IInv
  <2> USE DEF LineInv, FilesInv
  <2>1. r \in Stored \ D /\ s \in Stored \ D
    BY DEF AcknowledgedStored
  <2>2. r \in Record /\ s \in Record /\ files[AddressOf(r)] = r /\ files[AddressOf(s)] = s
    BY <2>1, StoredAt
  <2>3. CASE r.identity = s.identity /\ r.kind \in RootKinds /\ s.kind \in RootKinds
    BY <2>1, <2>2, <2>3, RootIsFirst DEF SequenceUnique
  <2> QED BY <2>2, <2>3
<1> QED BY <1>1, Invariance, PTL

(* A stored record is on the chain of its identity whenever that loads. *)
LEMMA StoredIsLoaded ==
  ASSUME TypeOK, Addressed, NEW s \in Stored, Loadable(s.identity)
  PROVE  s \in CurrentChain(s.identity)
<1> DEFINE i == s.identity
<1>1. s \in Record /\ files[AddressOf(s)] = s /\ s # Absent
  BY StoredAt, StoreAssumption
<1>2. CASE s.kind = "MIGRATE_IN"
  <2>1. files[RootOf(i)] = s
    BY <1>1, <1>2, AddressFacts
  <2> QED BY <1>1, <2>1 DEF CurrentChain, ChainOf, RootFile
<1>3. CASE s.kind = "INITIALIZE"
  <2>1. files[Origin] = s
    BY <1>1, <1>3, AddressFacts
  <2>2. OriginIs(i)
    BY <1>1, <2>1 DEF OriginIs
  <2>3. RootFile(i) = s
    BY <2>1, <2>2 DEF RootFile, Loadable, Loads
  <2> QED BY <1>1, <2>3 DEF CurrentChain, ChainOf
<1>4. CASE s.kind \notin RootKinds
  <2>1. s.previous \in Sha /\ files[Successor(i, s.previous)] = s
    BY <1>1, <1>4, AddressFacts
  <2> QED BY <1>1, <2>1 DEF CurrentChain, ChainOf, Listing
<1> QED BY <1>2, <1>3, <1>4 DEF RootKinds

(* A receipt is never forgotten. *)
THEOREM AcknowledgedIsDurable == Spec => []AcknowledgedStays
<1>1. IInv => AcknowledgedStays
  BY StoredIsLoaded DEF AcknowledgedStays, IInv, LineInv, FilesInv, AcknowledgedStored
<1> QED BY <1>1, Invariance, PTL

(* A load that succeeds contradicts no earlier one that a call builds on. *)
THEOREM LoadsAgree == Spec => []LoadsNeverDiverge
<1>1. IInv => LoadsNeverDiverge
  BY StoredIsLoaded DEF LoadsNeverDiverge, IInv, LineInv, FilesInv, ViewStored
<1> QED BY <1>1, Invariance, PTL

(* No file is overwritten, deleted or repaired. *)
THEOREM FilesAreCreateOnly == Spec => CreateOnly
<1> DEFINE A == \A a \in Address :
                  /\ files[a] \in Record => files'[a] = files[a]
                  /\ Interrupted(a) => Interrupted(a)'
<1>1. ASSUME IInv, [Next]_vars PROVE A \/ UNCHANGED vars
  <2> PICK D \in SUBSET Record : LineInv(D)
    BY <1>1 DEF IInv
  <2>5. TypeOK
    BY DEF LineInv
  <2>1. ASSUME NEW w \in Writer, Claim(w) PROVE A
    <3>1. rec[w] \in Record /\ AddressOf(rec[w]) \in Address
      BY <2>1, <2>5, AddressFacts DEF TypeOK, Claim
    <3>2. /\ files[AddressOf(rec[w])] = Absent
          /\ \A a \in Address \ {AddressOf(rec[w])} : files'[a] = files[a]
          /\ rec' = rec /\ \A v \in Writer \ {w} : pc'[v] = pc[v]
      BY <2>1, <2>5, <3>1 DEF TypeOK, Claim, Goto
    <3>3. Absent \notin Record /\ Absent # Torn
      BY StoreAssumption
    <3> QED BY <3>2, <3>3 DEF Interrupted
  <2>2. ASSUME NEW w \in Writer, Write(w) PROVE A
    <3>1. \A a \in Address : files[a] \in Record => files'[a] = files[a]
      BY <2>2, WriteAdds
    <3>2. /\ \A a \in Address \ {AddressOf(rec[w])} : files'[a] = files[a]
          /\ rec' = rec /\ pc[w] = "write" /\ pc'[w] = "relist"
          /\ \A v \in Writer \ {w} : pc'[v] = pc[v]
      BY <2>2, <2>5, WriteAdds DEF TypeOK, Write, Goto
    <3> QED BY <3>1, <3>2 DEF Interrupted
  <2>3. ASSUME NEW w \in Writer, files' = files,
               \A v \in Writer \ {w} : pc'[v] = pc[v] /\ rec'[v] = rec[v],
               pc'[w] # "write"
        PROVE  A
    BY <2>3 DEF Interrupted
  <2>4. ASSUME NEW w \in Writer, Call(w), ~Claim(w), ~Write(w)
        PROVE  /\ files' = files
               /\ \A v \in Writer \ {w} : pc'[v] = pc[v] /\ rec'[v] = rec[v]
               /\ pc'[w] # "write"
    BY <2>4, <2>5
    DEF TypeOK, Call, Start, List, LoadKnown, LoadFresh, LoadRefused, CheckScope,
        ScopeRefused, TakenBySame, TakenByOther, Confirm, Unconfirmed, Interrupt,
        Return, Goto
  <2> QED BY <1>1, <2>1, <2>2, <2>3, <2>4 DEF Next
<1> QED BY <1>1, Invariance, PTL DEF CreateOnly, Spec

-----------------------------------------------------------------------------
(* Refinement. *)

(* The history variable collects the late roots of the inductive invariant. *)
LEMMA HistoryStep ==
  ASSUME HInv, [HNext]_hvars PROVE HInv'
<1>1. PICK D : D = late
  OBVIOUS
<1>2. PICK M : M = late'
  OBVIOUS
<1>3. LineInv(D)
  BY <1>1
  DEF HInv, LineInv, FilesInv, LateRoots, SequenceUnique, NoGap, Rooted, Backed,
      ListedClosed, ViewStored, ViewCurrent, AcknowledgedStored, Line
<1>4. D \in SUBSET Record
  BY <1>3 DEF LineInv, FilesInv, LateRoots, Stored
<1>5. [Next]_vars /\ M = D \union {r \in Stored' \ Stored : SecondRoot(r)}
  <2>1. CASE HNext
    BY <1>1, <1>2, <2>1 DEF HNext
  <2>2. CASE UNCHANGED hvars
    <3>1. files' = files
      BY <2>2 DEF hvars, vars
    <3>2. Stored' = Stored
      BY <3>1 DEF Stored
    <3> QED BY <1>1, <1>2, <2>2, <3>2 DEF hvars
  <2> QED BY <2>1, <2>2
<1>6. LineInv(M)'
  BY <1>3, <1>4, <1>5, LineStep
<1> QED
  BY <1>2, <1>6
  DEF HInv, LineInv, FilesInv, LateRoots, SequenceUnique, NoGap, Rooted, Backed,
      ListedClosed, ViewStored, ViewCurrent, AcknowledgedStored, Line

LEMMA LateIsStored ==
  ASSUME HInv PROVE late \in SUBSET Record
BY DEF HInv, LineInv, FilesInv, LateRoots, Stored

(* A write appends at the head of the abstract chain, unless it starts an  *)
(* identity for the second time.                                           *)
LEMMA WriteCommits ==
  ASSUME NEW D \in SUBSET Record, LineInv(D), D = late,
         NEW w \in Writer, Write(w), ~SecondRoot(rec[w]),
         late' = late \union {r \in Stored' \ Stored : SecondRoot(r)}
  PROVE  Chain!Commit(rec[w])
<1> DEFINE r == rec[w]
           i == rec[w].identity
<1> USE DEF LineInv, FilesInv
<1>1. /\ r \in Record /\ files[AddressOf(r)] = Torn
      /\ r \notin Stored /\ r \notin D
      /\ Stored' = Stored \union {r} /\ receipts' = receipts
      /\ pc[w] = "write"
  BY WriteAdds DEF Write, LateRoots
<1>2. (Stored \ late)' = (Stored \ late) \union {r}
  BY <1>1
<1>3. Chain!Of(i) = Line(D, i) /\ Line(D, i) = view[w]
  BY <1>1, ClaimIsAtHead DEF Chain!Of, Line
<1>4. \A s \in view[w] : s.event_id # r.event_id
  BY <1>1 DEF ViewCurrent
<1>5. ASSUME r.kind = "INITIALIZE", NEW s \in Stored PROVE s.kind # "INITIALIZE"
  <2>1. s \in Record /\ files[AddressOf(s)] = s
    BY StoredAt
  <2>2. files[Origin] = Torn
    BY <1>1, <1>5, AddressFacts
  <2> QED BY <2>1, <2>2, AddressFacts, StoreAssumption
<1>6. CASE view[w] = {}
  <2>1. r.kind \in RootKinds
    BY <1>1, <1>6 DEF ViewCurrent, Extends
  <2> QED
    BY <1>1, <1>2, <1>3, <1>5, <1>6, <2>1
    DEF Chain!Commit, Chain!Appendable, Chain!IsRoot, Chain!RootKinds, RootKinds
<1>7. CASE view[w] # {}
  <2>1. PICK h \in view[w] :
          /\ Linked(h, r) /\ r.kind \notin RootKinds
          /\ h \in Record /\ AddressOf(r) = Successor(i, h.sha)
    BY <1>1, <1>7, BehindHead
  <2>2. ASSUME NEW s \in Line(D, i), s.previous = h.sha PROVE FALSE
    <3>1. s \in Stored /\ s \in Record /\ s.identity = i /\ files[AddressOf(s)] = s
      BY StoredAt DEF Line, Stored
    <3>2. s.kind \notin RootKinds
      BY <2>1, <2>2, <3>1, RootIsFirst, RecordAssumption
    <3>3. AddressOf(s) = AddressOf(r)
      BY <2>1, <2>2, <3>1, <3>2, AddressFacts
    <3> QED BY <1>1, <3>1, <3>3, StoreAssumption
  <2>3. Chain!Linked(h, r)
    BY <2>1 DEF Linked, Chain!Linked
  <2> QED
    BY <1>1, <1>2, <1>3, <1>4, <1>5, <2>1, <2>2, <2>3
    DEF Chain!Commit, Chain!Appendable, Chain!IsRoot, Chain!RootKinds, RootKinds
<1> QED BY <1>6, <1>7

(* A receipt acknowledges a record that is on the abstract chain. *)
LEMMA ReceiptAcknowledges ==
  ASSUME NEW D \in SUBSET Record, LineInv(D), D = late, (Stored \ late)' = Stored \ late,
         NEW w \in Writer, LoadKnown(w) \/ Confirm(w)
  PROVE  \E r \in Record, status \in Chain!Status : Chain!Acknowledge(r, status)
<1> USE DEF LineInv, FilesInv
<1>1. rec[w] \in Record /\ rec[w].identity \in Identity /\ listed[w] \in SUBSET Sha
  BY RootIsFirst DEF LoadKnown, Confirm, TypeOK
<1>2. rec[w] \in Stored \ late
  BY <1>1, LoadedIsStored DEF LoadKnown, Confirm, Found, Line
<1>3. PICK st \in Chain!Status : receipts' = receipts \union {<<rec[w], st>>}
  BY DEF LoadKnown, Confirm, Chain!Status
<1> QED BY <1>1, <1>2, <1>3 DEF Chain!Acknowledge

LEMMA ChainStep ==
  ASSUME HInv, [HNext]_hvars PROVE [Chain!ChainNext]_(Chain!chainVars)
<1>1. PICK D : D = late
  OBVIOUS
<1>2. LineInv(D) /\ D \in SUBSET Record
  BY <1>1, LateIsStored
  DEF HInv, LineInv, FilesInv, LateRoots, SequenceUnique, NoGap, Rooted, Backed,
      ListedClosed, ViewStored, ViewCurrent, AcknowledgedStored, Line
<1>3. CASE UNCHANGED hvars
  BY <1>3 DEF hvars, vars, Chain!chainVars, Stored
<1>4. CASE HNext
  <2>1. Next /\ late' = late \union {r \in Stored' \ Stored : SecondRoot(r)}
    BY <1>4 DEF HNext
  <2>2. CASE \E w \in Writer : Write(w)
    <3>1. PICK w \in Writer : Write(w)
      BY <2>2
    <3>2. /\ rec[w] \in Record /\ rec[w] \notin Stored
          /\ Stored' = Stored \union {rec[w]} /\ receipts' = receipts
      BY <1>2, <3>1, WriteAdds DEF Write
    <3>3. CASE SecondRoot(rec[w])
      <4>1. (Stored \ late)' = Stored \ late
        BY <2>1, <3>2, <3>3
      <4> QED BY <3>2, <4>1 DEF Chain!chainVars
    <3>4. CASE ~SecondRoot(rec[w])
      <4>1. Chain!Commit(rec[w])
        BY <1>1, <1>2, <2>1, <3>1, <3>4, WriteCommits
      <4> QED BY <3>2, <4>1 DEF Chain!ChainNext
    <3> QED BY <3>3, <3>4
  <2>3. CASE \A w \in Writer : ~Write(w)
    <3>1. Stored' = Stored
      BY <1>2, <2>1, <2>3, StoredStays DEF LineInv
    <3>2. (Stored \ late)' = Stored \ late
      BY <2>1, <3>1
    <3>3. CASE \E w \in Writer : LoadKnown(w) \/ Confirm(w)
      BY <1>1, <1>2, <3>2, <3>3, ReceiptAcknowledges DEF Chain!ChainNext
    <3>4. CASE receipts' = receipts
      BY <3>2, <3>4 DEF Chain!chainVars
    <3>5. (\E w \in Writer : LoadKnown(w) \/ Confirm(w)) \/ receipts' = receipts
      BY <2>1, <2>3
      DEF Next, Call, Start, List, LoadFresh, LoadRefused, CheckScope, ScopeRefused,
          Claim, TakenBySame, TakenByOther, Unconfirmed, Interrupt
    <3> QED BY <3>3, <3>4, <3>5
  <2> QED BY <2>2, <2>3
<1> QED BY <1>3, <1>4

(* The journal's files implement the append-only chains of EventChain: a   *)
(* record is committed where its file is written, always behind the head   *)
(* of a chain that does not know its event id, and receipts follow commits. *)
(* A root that races another root of its identity is committed for nobody. *)
THEOREM Refinement == HSpec => ImplementsChain
<1>1. HInit => HInv
  BY LineInit DEF HInit, HInv
<1>2. HSpec => []HInv
  BY <1>1, HistoryStep, PTL DEF HSpec
<1>3. HInit => Chain!ChainInit
  BY StoreAssumption DEF HInit, Init, Chain!ChainInit, Stored
<1> QED BY <1>2, <1>3, ChainStep, PTL DEF ImplementsChain, Chain!ChainSpec, HSpec
===============================================================================
