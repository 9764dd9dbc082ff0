----------------------------- MODULE SnapshotProofs -----------------------------
(***************************************************************************)
(* Theorems about StateSnapshot for every set of identities, records and   *)
(* writers, however long the chains and however many migrations.           *)
(***************************************************************************)
EXTENDS StateSnapshot, WellFoundedInduction, TLAPS

-----------------------------------------------------------------------------
(* The invariant.                                                          *)

(* What the source journal guarantees of its chains: one record per        *)
(* position, none skipped, and a migration only from a seal that is there. *)
Chains(S) ==
  /\ S \subseteq Record
  /\ \A r, s \in S : r.identity = s.identity /\ r.sequence = s.sequence => r = s
  /\ \A r, s \in S : r.identity = s.identity /\ s.sequence < r.sequence =>
       \E u \in S : u.identity = s.identity /\ u.previous = s.sha
  /\ \A r \in S : r.kind \notin RootKinds => \E p \in S : Linked(p, r)
  /\ \A r \in Imports(S) : Terminal[r] \in S

(* The history of h is complete: every chain it goes through has its root, *)
(* and all but the last are sealed.  This is why it never changes again.   *)
Settled(S, h) ==
  /\ h \in S
  /\ \A i \in Lineage(S, h.identity) :
       /\ \E r \in S : r.identity = i /\ r.kind \in RootKinds
       /\ i # h.identity => \E r \in Seals(S) : r.identity = i

Kept(S, h, H) == Settled(S, h) /\ H = HistoryUpTo(S, h)

IdentitiesOf(H) == {r.identity : r \in H}

(* A save that is under way has whole chains of the history of its head. *)
Gathered(S, h, H) ==
  /\ Settled(S, h)
  /\ h.identity \in IdentitiesOf(H)
  /\ H = {r \in HistoryUpTo(S, h) : r.identity \in IdentitiesOf(H)}

Fields == {"step", "head", "history", "done"}

SaveOK ==
  /\ DOMAIN save = Fields
  /\ save.step # "idle" =>
       IF save.step = "read" THEN Gathered(source, save.head, save.history)
       ELSE Kept(source, save.head, save.history)

ArchiveOK ==
  /\ DOMAIN archive = Record
  /\ saved \subseteq Snapshots
  /\ \A h \in Snapshots : Kept(source, h, archive[h])

RestoreOK ==
  /\ DOMAIN restore = Fields
  /\ pc[Restorer] # "idle" => restore.step = "append"
  /\ restore.step # "idle" =>
       /\ restore.head = checkpoint
       /\ restore.head \in Snapshots
       /\ restore.history = archive[restore.head]

SInv == TypeOK /\ Chains(source) /\ SaveOK /\ ArchiveOK /\ RestoreOK

-----------------------------------------------------------------------------
(* Lineages.                                                               *)

LEMMA RecordFacts ==
  ASSUME NEW r \in Record
  PROVE  /\ r.identity \in Identity /\ r.sequence \in Nat
         /\ r.kind \in RootKinds <=> r.sequence = 0
BY RecordAssumption DEF RecordFields

LEMMA TerminalFacts ==
  ASSUME NEW r \in Record, r.kind = "MIGRATE_IN"
  PROVE  /\ Terminal[r] \in Record /\ Terminal[r].kind = "MIGRATE_OUT"
         /\ Terminal[r].identity \in Identity
BY SnapshotAssumption, RecordFacts DEF Imports, Seals

(* The lineage of i is the least closed set of identities with i in it. *)
LEMMA LineageFacts ==
  ASSUME NEW S, S \subseteq Record, NEW i \in Identity
  PROVE  /\ Lineage(S, i) \subseteq Identity
         /\ i \in Lineage(S, i)
         /\ Closed(S, Lineage(S, i))
         /\ \A L \in SUBSET Identity : i \in L /\ Closed(S, L) => Lineage(S, i) \subseteq L
<1>1. Lineage(S, i) \subseteq Identity /\ i \in Lineage(S, i)
  BY DEF Lineage
<1>2. ASSUME NEW L \in SUBSET Identity, i \in L, Closed(S, L)
      PROVE  Lineage(S, i) \subseteq L
  BY <1>2 DEF Lineage
<1>3. Closed(S, Lineage(S, i))
  <2> SUFFICES ASSUME NEW r \in Imports(S), r.identity \in Lineage(S, i),
                      NEW L \in SUBSET Identity, i \in L, Closed(S, L)
               PROVE  Terminal[r].identity \in L
    BY TerminalFacts DEF Closed, Lineage, Imports
  <2>1. r.identity \in L
    BY <1>2
  <2> QED BY <2>1 DEF Closed
<1> QED BY <1>1, <1>2, <1>3

-----------------------------------------------------------------------------
(* Chains grow at their heads only.                                        *)

(* Nothing follows a seal. *)
LEMMA SealIsLast ==
  ASSUME NEW S, Chains(S), NEW m \in Seals(S)
  PROVE  \A s \in S : s.identity = m.identity => s.sequence <= m.sequence
<1> SUFFICES ASSUME NEW s \in S, s.identity = m.identity, m.sequence < s.sequence
             PROVE  FALSE
  BY RecordFacts DEF Chains, Seals
<1>1. PICK u \in S : u.identity = m.identity /\ u.previous = m.sha
  BY DEF Chains, Seals
<1>2. u \in Record /\ m \in Record /\ m.kind = "MIGRATE_OUT" /\ m.sha # NoSha
  BY RecordAssumption DEF Chains, Seals, RecordFields
<1>3. u.kind \notin RootKinds
  BY <1>1, <1>2, RecordAssumption
<1>4. PICK p \in S : Linked(p, u)
  BY <1>3 DEF Chains
<1>5. p = m
  <2>1. p \in Record /\ p.sha = m.sha
    BY <1>1, <1>4 DEF Linked, Chains
  <2> QED BY <1>2, <2>1, RecordAssumption
<1> QED BY <1>2, <1>4, <1>5 DEF Linked

(* A record that may be committed starts its chain, or comes after all     *)
(* that are there, of which none is a seal.                                *)
LEMMA CommitIsLast ==
  ASSUME NEW r \in Record, Chains(source), Source!Appendable(r)
  PROVE  /\ r.kind \in RootKinds => \A s \in source : s.identity # r.identity
         /\ r.kind \notin RootKinds =>
              \E p \in source : Linked(p, r) /\ \A s \in source :
                s.identity = r.identity => s.sequence <= p.sequence
         /\ \A s \in source : s.identity = r.identity =>
              s.sequence < r.sequence /\ s.kind # "MIGRATE_OUT"
<1>1. CASE r.kind \in RootKinds
  BY <1>1 DEF Source!Appendable, Source!IsRoot, Source!RootKinds, RootKinds, Source!Of
<1>2. CASE r.kind \notin RootKinds
  <2>1. PICK p \in source : /\ p.identity = r.identity /\ Linked(p, r)
                            /\ \A s \in source : s.identity = r.identity => s.previous # p.sha
    BY <1>2 DEF Source!Appendable, Source!IsRoot, Source!RootKinds, RootKinds, Source!Of,
                Source!Linked, Linked
  <2>2. p.sequence \in Nat /\ r.sequence = p.sequence + 1 /\ p.kind # "MIGRATE_OUT"
    BY <2>1, RecordFacts DEF Linked, Chains
  <2>3. ASSUME NEW s \in source, s.identity = r.identity
        PROVE  s.sequence \in Nat /\ s.sequence <= p.sequence /\ s.kind # "MIGRATE_OUT"
    <3>1. s.sequence \in Nat
      BY RecordFacts DEF Chains
    <3>2. ~(p.sequence < s.sequence)
      BY <2>1, <2>3 DEF Chains
    <3>3. s.kind # "MIGRATE_OUT"
      <4> SUFFICES ASSUME s.kind = "MIGRATE_OUT" PROVE FALSE
        OBVIOUS
      <4>1. p.sequence <= s.sequence
        BY <2>1, <2>3, SealIsLast DEF Seals
      <4>2. p = s
        BY <2>1, <2>2, <2>3, <3>1, <3>2, <4>1 DEF Chains
      <4> QED BY <2>2, <4>2
    <3> QED BY <2>2, <3>1, <3>2, <3>3
  <2> QED BY <1>2, <2>1, <2>2, <2>3
<1> QED BY <1>1, <1>2

LEMMA CommitKeepsChains ==
  ASSUME NEW r \in Record, Chains(source), Source!Appendable(r),
         r.kind = "MIGRATE_IN" => Terminal[r] \in source
  PROVE  Chains(source \union {r})
<1> DEFINE S == source \union {r}
<1>1. S \subseteq Record
  BY DEF Chains
<1>2. ASSUME NEW s \in S, NEW t \in S, s.identity = t.identity, s.sequence = t.sequence
      PROVE  s = t
  BY <1>2, CommitIsLast, RecordFacts DEF Chains
<1>3. ASSUME NEW s \in S, NEW t \in S, t.identity = s.identity, s.sequence < t.sequence
      PROVE  \E u \in S : u.identity = s.identity /\ u.previous = s.sha
  <2>1. s \in source
    <3> SUFFICES ASSUME s = r PROVE FALSE
      OBVIOUS
    <3>1. r.sequence \in Nat /\ t \in source
      BY <1>3, RecordFacts
    <3> QED BY <1>3, <3>1, CommitIsLast, RecordFacts DEF Chains
  <2>2. CASE t \in source
    BY <1>3, <2>1, <2>2 DEF Chains
  <2>3. CASE t = r
    <3>1. PICK p \in source : /\ Linked(p, r)
                              /\ \A v \in source : v.identity = r.identity => v.sequence <= p.sequence
      BY <1>3, <2>1, <2>3, CommitIsLast
    <3>2. s.sequence <= p.sequence /\ s.sequence \in Nat /\ p.sequence \in Nat
          /\ p.identity = r.identity /\ r.previous = p.sha
      BY <1>3, <2>1, <2>3, <3>1, RecordFacts DEF Chains, Linked
    <3>3. CASE s.sequence = p.sequence
      <4>1. s = p
        BY <1>3, <2>1, <2>3, <3>2, <3>3 DEF Chains
      <4> QED BY <3>2, <4>1
    <3>4. CASE s.sequence < p.sequence
      BY <1>3, <2>1, <2>3, <3>2, <3>4 DEF Chains
    <3> QED BY <3>2, <3>3, <3>4
  <2> QED BY <2>2, <2>3
<1>4. ASSUME NEW s \in S, s.kind \notin RootKinds PROVE \E p \in S : Linked(p, s)
  BY <1>4, CommitIsLast DEF Chains
<1>5. ASSUME NEW s \in Imports(S) PROVE Terminal[s] \in S
  BY <1>5 DEF Chains, Imports
<1> QED BY <1>1, <1>2, <1>3, <1>4, <1>5 DEF Chains

-----------------------------------------------------------------------------
(* A history that is complete stays what it is.                            *)

LEMMA IdentityInLineage ==
  ASSUME NEW S, S \subseteq Record, NEW h \in S
  PROVE  h \in HistoryUpTo(S, h)
<1>1. h.identity \in Lineage(S, h.identity)
  BY LineageFacts, RecordFacts
<1> QED BY <1>1, RecordFacts DEF HistoryUpTo, History

LEMMA HistoryIsRecords ==
  ASSUME NEW S, S \subseteq Record, NEW h
  PROVE  HistoryUpTo(S, h) \in SUBSET Record
BY DEF HistoryUpTo, History

(* The chains of a verified read are complete and sealed. *)
LEMMA VerifiedIsSettled ==
  ASSUME NEW S, S \subseteq Record, NEW h \in Record, Verified(S, h)
  PROVE  Settled(S, h) /\ Chained(S, h.identity) = {r \in HistoryUpTo(S, h) : r.identity = h.identity}
<1>1. h \in S /\ \A r \in S : r.identity = h.identity => r.sequence <= h.sequence
  BY DEF Verified, IsHead, Chained
<1>2. h.identity \in Identity /\ h.identity \in Lineage(S, h.identity)
  BY RecordFacts, LineageFacts
<1> DEFINE Sealed(i) == \E r \in Seals(S) : r.identity = i
           L == {i \in Lineage(S, h.identity) : i = h.identity \/ Sealed(i)}
<1>3. Closed(S, L)
  <2> SUFFICES ASSUME NEW r \in Imports(S), r.identity \in L
               PROVE  Terminal[r].identity \in L
    BY DEF Closed
  <2>1. Terminal[r].identity \in Lineage(S, h.identity)
    BY <1>2, LineageFacts DEF Closed
  <2>2. IsHead(Chained(S, Terminal[r].identity), Terminal[r])
    BY DEF Verified, Imports, Chained
  <2>3. Terminal[r] \in Seals(S)
    BY <2>2, TerminalFacts DEF IsHead, Chained, Imports, Seals
  <2> QED BY <2>1, <2>3
<1>4. Lineage(S, h.identity) \subseteq L
  <2>1. L \subseteq Identity /\ h.identity \in L
    BY <1>2, LineageFacts
  <2> HIDE DEF L
  <2> QED BY <1>2, <1>3, <2>1, LineageFacts
<1>5. Settled(S, h)
  BY <1>1, <1>4 DEF Settled, Verified, Chained
<1> QED BY <1>1, <1>2, <1>5 DEF HistoryUpTo, History, Chained

(* Nothing is committed to a settled history but what follows its head. *)
LEMMA SettledGrows ==
  ASSUME NEW r \in Record, Chains(source), Source!Appendable(r),
         NEW h \in Record, Settled(source, h)
  PROVE  /\ Lineage(source \union {r}, h.identity) = Lineage(source, h.identity)
         /\ HistoryUpTo(source \union {r}, h) = HistoryUpTo(source, h)
         /\ Settled(source \union {r}, h)
<1> DEFINE S == source \union {r}
           i == h.identity
<1>1. i \in Identity /\ h \in source /\ source \subseteq Record /\ S \subseteq Record
  BY RecordFacts DEF Settled, Chains
<1>2. r.kind = "MIGRATE_IN" => r.identity \notin Lineage(source, i)
  BY CommitIsLast DEF Settled, RootKinds
<1>3. Lineage(S, i) \subseteq Lineage(source, i)
  <2>1. Closed(S, Lineage(source, i))
    BY <1>1, <1>2, LineageFacts DEF Closed, Imports
  <2> QED BY <1>1, <2>1, LineageFacts
<1>4. Lineage(source, i) \subseteq Lineage(S, i)
  <2>1. Closed(source, Lineage(S, i))
    BY <1>1, LineageFacts DEF Closed, Imports
  <2> QED BY <1>1, <2>1, LineageFacts
<1>5. Lineage(S, i) = Lineage(source, i)
  BY <1>3, <1>4
<1>6. r.identity \in Lineage(source, i) => r.identity = i /\ h.sequence < r.sequence
  BY <1>1, CommitIsLast DEF Settled, Seals
<1>7. HistoryUpTo(S, h) = HistoryUpTo(source, h)
  BY <1>1, <1>5, <1>6, RecordFacts DEF HistoryUpTo, History
<1>8. Settled(S, h)
  BY <1>1, <1>5 DEF Settled, Seals
<1> QED BY <1>5, <1>7, <1>8

(* When nothing is missing, the chains that were read are the history. *)
LEMMA GatheredIsWhole ==
  ASSUME Chains(source), NEW h \in Record, NEW H, Gathered(source, h, H),
         {Terminal[r].identity : r \in Imports(H)} \subseteq IdentitiesOf(H)
  PROVE  Kept(source, h, H)
<1>1. /\ source \subseteq Record /\ h \in source /\ h.identity \in Identity
      /\ H = {r \in HistoryUpTo(source, h) : r.identity \in IdentitiesOf(H)}
      /\ H \subseteq source
  BY RecordFacts DEF Chains, Gathered, Settled, HistoryUpTo, History
<1>2. IdentitiesOf(H) \subseteq Lineage(source, h.identity)
  BY <1>1 DEF IdentitiesOf, HistoryUpTo, History
<1>3. Closed(source, IdentitiesOf(H))
  <2> SUFFICES ASSUME NEW r \in Imports(source), r.identity \in IdentitiesOf(H)
               PROVE  Terminal[r].identity \in IdentitiesOf(H)
    BY DEF Closed
  <2>1. r.sequence = 0 /\ h.sequence \in Nat
    BY <1>1, RecordFacts DEF Imports, RootKinds
  <2>2. r \in HistoryUpTo(source, h)
    BY <1>2, <2>1 DEF HistoryUpTo, History, Imports
  <2>3. r \in Imports(H)
    BY <1>1, <2>2 DEF Imports
  <2> QED BY <2>3
<1>4. Lineage(source, h.identity) \subseteq IdentitiesOf(H)
  <2>1. IdentitiesOf(H) \in SUBSET Identity
    BY <1>1, <1>2, LineageFacts
  <2> QED BY <1>1, <1>3, <2>1, LineageFacts DEF Gathered
<1>5. HistoryUpTo(source, h) \subseteq H
  BY <1>1, <1>4 DEF HistoryUpTo, History
<1> QED BY <1>1, <1>5 DEF Kept, Gathered

-----------------------------------------------------------------------------
(* A digest determines all that led to it: a chain that is valid up to a   *)
(* record of the source has every record the source has before it.         *)

LEMMA ValidUpToHead ==
  ASSUME Chains(source), NEW T, T \subseteq Record, NEW h \in source, h \in T,
         ValidChain(Chained(T, h.identity))
  PROVE  \A r \in source : r.identity = h.identity /\ r.sequence <= h.sequence => r \in T
<1> DEFINE Lost(r) == r.identity = h.identity /\ r.sequence <= h.sequence /\ r \notin T
           Distance == {n \in Nat : \E r \in source : Lost(r) /\ r.sequence + n = h.sequence}
<1>1. h.sequence \in Nat /\ \A r \in source : r \in Record /\ r.sequence \in Nat
  BY RecordFacts DEF Chains
<1> SUFFICES ASSUME NEW l \in source, Lost(l) PROVE FALSE
  OBVIOUS
<1>2. h.sequence - l.sequence \in Distance
  <2>1. h.sequence - l.sequence \in Nat /\ l.sequence + (h.sequence - l.sequence) = h.sequence
    BY <1>1
  <2> QED BY <2>1
<1>3. PICK n \in Distance : \A k \in Distance : ~(<<k, n>> \in OpToRel(<, Nat))
  <2>1. Distance \subseteq Nat /\ Distance # {}
    BY <1>2
  <2> HIDE DEF Distance
  <2> QED BY <2>1, NatLessThanWellFounded, WFMin
<1>4. \A k \in Distance : ~(k < n)
  BY <1>3 DEF OpToRel
<1>5. PICK r \in source : Lost(r) /\ r.sequence + n = h.sequence
  OBVIOUS
<1>6. r.sequence < h.sequence
  BY <1>1, <1>5 DEF Chains
<1>7. PICK u \in source : u.identity = h.identity /\ u.previous = r.sha
  BY <1>5, <1>6 DEF Chains
<1>8. u \in Record /\ r \in Record /\ u.kind \notin RootKinds
  BY <1>1, <1>7, RecordAssumption DEF RecordFields
<1>9. u.sequence = r.sequence + 1
  <2>1. PICK p \in source : Linked(p, u)
    BY <1>8 DEF Chains
  <2>2. p = r
    BY <1>1, <1>7, <2>1, RecordAssumption DEF Linked
  <2> QED BY <2>1, <2>2 DEF Linked
<1>10. u \in T
  <2> SUFFICES ASSUME u \notin T PROVE FALSE
    OBVIOUS
  <2>1. u.sequence <= h.sequence /\ n - 1 \in Nat /\ u.sequence + (n - 1) = h.sequence
    BY <1>1, <1>5, <1>6, <1>9
  <2>2. n - 1 \in Distance
    BY <1>7, <2>1
  <2> QED BY <1>4, <2>1, <2>2
<1>11. PICK p \in T : Linked(p, u)
  BY <1>7, <1>8, <1>10 DEF ValidChain, Chained
<1>12. p = r
  BY <1>7, <1>8, <1>11, RecordAssumption DEF Linked
<1> QED BY <1>5, <1>11, <1>12

LEMMA VerifiedHasHistory ==
  ASSUME Chains(source), NEW T, T \subseteq Record,
         NEW h \in Record, Settled(source, h), Verified(T, h)
  PROVE  HistoryUpTo(source, h) \subseteq T
<1> DEFINE Whole(i) == \A r \in source :
                r.identity = i /\ (i = h.identity => r.sequence <= h.sequence) => r \in T
           K == {i \in Lineage(T, h.identity) : Whole(i)}
<1>1. h \in source /\ h \in T /\ h.identity \in Identity /\ source \subseteq Record
  BY RecordFacts DEF Settled, Chains, Verified, IsHead, Chained
<1>2. /\ Lineage(T, h.identity) \subseteq Identity /\ h.identity \in Lineage(T, h.identity)
      /\ Closed(T, Lineage(T, h.identity))
  BY <1>1, LineageFacts
<1>3. \A i \in Lineage(T, h.identity) : ValidChain(Chained(T, i))
  BY DEF Verified
<1>4. h.identity \in K
  BY <1>1, <1>2, <1>3, ValidUpToHead
<1>5. Closed(source, K)
  <2> SUFFICES ASSUME NEW r \in Imports(source), r.identity \in K, Terminal[r].identity # h.identity
               PROVE  Terminal[r].identity \in K
    BY <1>4 DEF Closed
  <2> DEFINE m == Terminal[r]
  <2>1. r \in Imports(T)
    <3>1. r.sequence = 0 /\ h.sequence \in Nat
      BY <1>1, RecordFacts DEF Imports, RootKinds
    <3> QED BY <3>1 DEF Imports
  <2>2. m \in Seals(source)
    BY <1>1, TerminalFacts DEF Chains, Imports, Seals
  <2>3. m \in T /\ m.identity \in Lineage(T, h.identity)
    BY <1>2, <2>1 DEF Verified, Chained, Imports, IsHead, Closed
  <2>4. \A s \in source : s.identity = m.identity => s \in T
    BY <1>3, <2>2, <2>3, ValidUpToHead, SealIsLast DEF Seals
  <2> QED BY <2>3, <2>4
<1>6. Lineage(source, h.identity) \subseteq K
  <2>1. K \in SUBSET Identity
    BY <1>2
  <2> HIDE DEF K
  <2> QED BY <1>1, <1>4, <1>5, <2>1, LineageFacts
<1> QED BY <1>6 DEF HistoryUpTo, History

-----------------------------------------------------------------------------
(* The target: the calls of EventJournal keep its types, and what loads is *)
(* made of records.                                                        *)

LEMMA LoadedRecords ==
  ASSUME TypeOK, NEW i \in Identity, NEW L \in SUBSET Sha, Loads(i, L)
  PROVE  ChainOf(i, L) \subseteq Record
<1>1. RootOf(i) \in Address /\ \A a \in L : Successor(i, a) \in Address
  BY DEF RootOf, Successor, Address
<1>2. RootFile(i) \in Record \union {Absent, Torn}
  BY <1>1 DEF RootFile, OriginIs, TypeOK
<1>3. \A a \in L : files[Successor(i, a)] \in Record \union {Absent, Torn}
  BY <1>1 DEF TypeOK
<1> QED BY <1>2, <1>3 DEF ChainOf, Loads

LEMMA InTargetRecords ==
  ASSUME TypeOK PROVE InTarget \subseteq Record
BY LoadedRecords DEF InTarget, Loadable, CurrentChain, Listing

LEMMA JournalTypes ==
  ASSUME TypeOK, [Next]_vars PROVE TypeOK'
<1> USE DEF TypeOK, Steps
<1>1. ASSUME NEW w \in Writer, NEW r \in Record, Start(w, r) PROVE TypeOK'
  BY <1>1 DEF Start, Goto
<1>2. ASSUME NEW w \in Writer, List(w) PROVE TypeOK'
  BY <1>2 DEF List, Goto, Listing
<1>3. ASSUME NEW w \in Writer, LoadKnown(w) \/ Confirm(w) PROVE TypeOK'
  <2>1. CASE LoadKnown(w)
    BY <2>1 DEF LoadKnown, Return, Goto, Status
  <2>2. CASE Confirm(w)
    BY <2>2 DEF Confirm, Return, Goto, Status
  <2> QED BY <1>3, <2>1, <2>2
<1>4. ASSUME NEW w \in Writer, LoadFresh(w) PROVE TypeOK'
  <2>1. ChainOf(rec[w].identity, listed[w]) \subseteq Record
    BY <1>4, LoadedRecords, RecordFacts DEF LoadFresh, Fresh
  <2> QED BY <1>4, <2>1 DEF LoadFresh, Goto
<1>5. ASSUME NEW w \in Writer,
             LoadRefused(w) \/ ScopeRefused(w) \/ TakenByOther(w)
               \/ Unconfirmed(w) \/ Interrupt(w)
      PROVE  TypeOK'
  BY <1>5 DEF LoadRefused, ScopeRefused, TakenByOther, Unconfirmed, Interrupt, Return, Goto
<1>6. ASSUME NEW w \in Writer, CheckScope(w) \/ TakenBySame(w) PROVE TypeOK'
  BY <1>6 DEF CheckScope, TakenBySame, Goto
<1>7. ASSUME NEW w \in Writer, Claim(w) PROVE TypeOK'
  BY <1>7 DEF Claim, Goto
<1>8. ASSUME NEW w \in Writer, Write(w) PROVE TypeOK'
  BY <1>8 DEF Write, Goto
<1>9. CASE UNCHANGED vars
  BY <1>9 DEF vars, locals
<1> QED
  BY <1>1, <1>2, <1>3, <1>4, <1>5, <1>6, <1>7, <1>8, <1>9 DEF Next, Call

(* What a step of the system does to the journal of the target: a call of  *)
(* some writer, or nothing.                                                *)
LEMMA TargetStep ==
  ASSUME SInv, [SnapshotNext]_snapshotVars PROVE [Next]_vars
<1> USE SnapshotAssumption
<1>1. CASE UNCHANGED snapshotVars
  BY <1>1 DEF snapshotVars
<1>2. ASSUME NEW r \in Record, SourceCommits(r) \/ Bind(r) \/ RestoreStart(r)
      PROVE  UNCHANGED vars
  BY <1>2 DEF SourceCommits, Bind, RestoreStart
<1>3. ASSUME NEW i \in Identity, SaveAncestor(i) PROVE UNCHANGED vars
  BY <1>3 DEF SaveAncestor
<1>4. CASE SaveRead \/ SaveReread \/ SaveChanged \/ SaveClaim \/ SaveWrite \/ SaveTaken
             \/ SaveConfirm \/ SaveFails
  BY <1>4 DEF SaveRead, SaveReread, SaveChanged, SaveClaim, SaveWrite, SaveTaken,
              SaveConfirm, SaveFails, SaveStep
<1>5. CASE RestoreAppend
  <2>1. PICK r \in Todo : Start(Restorer, r) /\ restore.step = "append"
    BY <1>5 DEF RestoreAppend
  <2>2. restore.history = HistoryUpTo(source, restore.head) /\ source \subseteq Record
    BY <2>1 DEF SInv, RestoreOK, ArchiveOK, Kept, Chains
  <2>3. r \in Record
    BY <2>1, <2>2 DEF Todo, HistoryUpTo, History
  <2> QED BY <2>1, <2>3 DEF Next, Call
<1>6. CASE RestoreProceeds
  BY <1>6 DEF RestoreProceeds, Next, Call
<1>7. CASE RestoreReceipt \/ RestoreRaises
  BY <1>7 DEF RestoreReceipt, RestoreRaises, Next, Call
<1>8. CASE RestoreReconcile \/ RestoreVerify
  BY <1>8 DEF RestoreReconcile, RestoreVerify
<1>9. CASE RestoreFails
  BY <1>9 DEF RestoreFails, Next, Call
<1>10. ASSUME NEW w \in Live, LiveCall(w) PROVE Next
  BY <1>10 DEF LiveCall, Next, Live
<1> QED
  BY <1>1, <1>2, <1>3, <1>4, <1>5, <1>6, <1>7, <1>8, <1>9, <1>10 DEF SnapshotNext

-----------------------------------------------------------------------------
(* The steps, one by one.                                                  *)

LEMMA SourceStep ==
  ASSUME SInv, NEW r \in Record, SourceCommits(r)
  PROVE  Chains(source)' /\ SaveOK' /\ ArchiveOK' /\ RestoreOK'
<1> DEFINE S == source \union {r}
<1>1. /\ Chains(source) /\ Source!Appendable(r) /\ source' = S
      /\ r.kind = "MIGRATE_IN" => Terminal[r] \in source
      /\ UNCHANGED <<vars, checkpoint, archive, save, saved, restore>>
  BY DEF SInv, SourceCommits, Source!Commit
<1>2. Chains(source)'
  <2>1. Chains(S)
    BY <1>1, CommitKeepsChains
  <2> QED BY <1>1, <2>1 DEF Chains, Imports, Linked
<1>3. ASSUME NEW h \in Record, NEW H, Kept(source, h, H)
      PROVE  Kept(S, h, H)
  BY <1>1, <1>3, SettledGrows DEF Kept
<1>4. ASSUME NEW h \in Record, NEW H, Gathered(source, h, H)
      PROVE  Gathered(S, h, H)
  BY <1>1, <1>4, SettledGrows DEF Gathered
<1>5. SaveOK'
  <2>1. save.step # "idle" => save.head \in Record
    BY <1>1 DEF SInv, SaveOK, Gathered, Kept, Settled, Chains
  <2> QED BY <1>1, <1>3, <1>4, <2>1 DEF SInv, SaveOK
<1>6. ArchiveOK'
  BY <1>1, <1>3 DEF SInv, ArchiveOK, Snapshots
<1>7. RestoreOK'
  BY <1>1 DEF SInv, RestoreOK, Snapshots, vars, locals
<1> QED BY <1>2, <1>5, <1>6, <1>7

LEMMA SaveFirstSteps ==
  ASSUME SInv, SaveRead \/ SaveReread \/ SaveChanged \/ SaveFails
                 \/ \E i \in Identity : SaveAncestor(i)
  PROVE  SaveOK' /\ UNCHANGED <<vars, source, checkpoint, archive, saved, restore>>
<1> USE DEF SInv, SaveOK, Idle, Fields
<1>1. source \subseteq Record
  BY DEF Chains
<1>2. CASE SaveRead
  <2>1. /\ checkpoint \in Record
        /\ Verified(source, checkpoint)
    BY <1>1, <1>2 DEF SaveRead, Verified, IsHead, Chained
  <2>2. Settled(source, checkpoint)
    BY <1>1, <2>1, VerifiedIsSettled
  <2> DEFINE H == Chained(source, checkpoint.identity)
  <2>3. IdentitiesOf(H) = {checkpoint.identity}
    BY <2>2 DEF IdentitiesOf, Chained, Settled
  <2>4. Gathered(source, checkpoint, H)
    <3>1. H = {r \in HistoryUpTo(source, checkpoint) : r.identity = checkpoint.identity}
      BY <1>1, <2>1, VerifiedIsSettled
    <3> QED BY <2>2, <2>3, <3>1 DEF Gathered
  <2>5. DOMAIN save' = Fields /\ save'.step = "read" /\ save'.head = checkpoint /\ save'.history = H
    BY <1>2 DEF SaveRead
  <2> QED BY <1>2, <2>4, <2>5 DEF SaveRead
<1>3. ASSUME NEW i \in Identity, SaveAncestor(i)
      PROVE  SaveOK' /\ UNCHANGED <<vars, source, checkpoint, archive, saved, restore>>
  <2> DEFINE h == save.head
             H == save.history
             G == H \union Chained(source, i)
  <2>1. /\ save.step = "read" /\ i \in Missing /\ Chained(source, i) # {}
        /\ DOMAIN save' = Fields /\ save'.step = "read" /\ save'.head = h /\ save'.history = G
        /\ UNCHANGED <<vars, source, checkpoint, archive, saved, restore>>
    BY <1>3 DEF SaveAncestor
  <2>2. Gathered(source, h, H) /\ h \in Record
    BY <1>1, <2>1 DEF Gathered, Settled
  <2>3. i # h.identity /\ i \in Lineage(source, h.identity)
    <3>1. PICK r \in Imports(H) : i = Terminal[r].identity
      BY <2>1 DEF Missing
    <3>2. r \in Imports(source) /\ r.identity \in Lineage(source, h.identity)
      BY <2>2, <3>1 DEF Gathered, HistoryUpTo, History, Imports
    <3>3. i \in Lineage(source, h.identity)
      BY <1>1, <2>2, <3>1, <3>2, RecordFacts, LineageFacts DEF Closed
    <3> QED BY <2>1, <2>2, <3>3 DEF Missing, Gathered, IdentitiesOf
  <2>4. IdentitiesOf(G) = IdentitiesOf(H) \union {i}
    BY <2>1 DEF IdentitiesOf, Chained
  <2>5. G = {r \in HistoryUpTo(source, h) : r.identity \in IdentitiesOf(G)}
    BY <2>2, <2>3, <2>4 DEF Gathered, HistoryUpTo, History, Chained
  <2>6. Gathered(source, h, G)
    BY <2>2, <2>4, <2>5 DEF Gathered
  <2> QED BY <2>1, <2>6
<1>4. CASE SaveReread
  <2>1. /\ save.step = "read" /\ Missing = {}
        /\ DOMAIN save' = Fields /\ save'.step = "create"
        /\ save'.head = save.head /\ save'.history = save.history
        /\ UNCHANGED <<vars, source, checkpoint, archive, saved, restore>>
    BY <1>4 DEF SaveReread, SaveStep
  <2>2. Gathered(source, save.head, save.history) /\ save.head \in Record
    BY <1>1, <2>1 DEF Gathered, Settled
  <2>3. {Terminal[r].identity : r \in Imports(save.history)} \subseteq IdentitiesOf(save.history)
    BY <2>1 DEF Missing, IdentitiesOf
  <2>4. Kept(source, save.head, save.history)
    BY <2>2, <2>3, GatheredIsWhole
  <2> QED BY <2>1, <2>4
<1>5. CASE SaveChanged \/ SaveFails
  BY <1>5 DEF SaveChanged, SaveFails, SaveStep
<1> QED BY <1>2, <1>3, <1>4, <1>5

(* What reaches the archive is the history that was read. *)
LEMMA SaveLastSteps ==
  ASSUME SInv, SaveClaim \/ SaveWrite \/ SaveTaken \/ SaveConfirm
  PROVE  SaveOK' /\ ArchiveOK' /\ UNCHANGED <<vars, source, checkpoint, restore>> /\ restore.step = "idle"
<1> USE DEF SInv, SaveOK, Idle, Fields
<1> DEFINE h == save.head
           H == save.history
<1>1. save.step \notin {"idle", "read"}
  BY DEF SaveClaim, SaveWrite, SaveTaken, SaveConfirm, SaveStep
<1>2. Kept(source, h, H) /\ h \in Record /\ H # Absent /\ H # Torn
  <2>1. Kept(source, h, H) /\ h \in Record /\ source \subseteq Record
    BY <1>1 DEF Kept, Settled, Chains
  <2>2. H \in SUBSET Record
    BY <2>1, HistoryIsRecords DEF Kept
  <2> QED BY <2>1, <2>2, SnapshotAssumption
<1>3. UNCHANGED <<vars, source, checkpoint, restore>> /\ restore.step = "idle"
  BY DEF SaveClaim, SaveWrite, SaveTaken, SaveConfirm, SaveStep, Quiet
<1>4. SaveOK'
  <2>1. CASE SaveConfirm
    BY <2>1 DEF SaveConfirm, SaveStep
  <2>2. CASE SaveClaim \/ SaveWrite \/ SaveTaken
    <3>1. /\ DOMAIN save' = Fields /\ save'.step \in {"write", "readback"}
          /\ save'.head = h /\ save'.history = H
      BY <2>2 DEF SaveClaim, SaveWrite, SaveTaken, SaveStep
    <3> QED BY <1>2, <1>3, <3>1
  <2> QED BY <2>1, <2>2
<1>5. ArchiveOK'
  <2> USE DEF ArchiveOK, Snapshots
  <2>1. CASE SaveClaim
    <3>1. archive' = [archive EXCEPT ![h] = Torn] /\ archive[h] = Absent /\ saved' = saved
      BY <2>1 DEF SaveClaim
    <3>2. Snapshots' = Snapshots /\ \A g \in Snapshots : archive'[g] = archive[g]
      BY <1>2, <3>1, StoreAssumption
    <3> QED BY <1>3, <3>1, <3>2
  <2>2. CASE SaveWrite
    <3>1. archive' = [archive EXCEPT ![h] = H] /\ saved' = saved
      BY <2>2 DEF SaveWrite
    <3>2. \A g \in Record : archive'[g] = IF g = h THEN H ELSE archive[g]
      BY <3>1
    <3> QED BY <1>2, <1>3, <3>1, <3>2
  <2>3. CASE SaveTaken
    BY <1>3, <2>3 DEF SaveTaken
  <2>4. CASE SaveConfirm
    BY <1>2, <1>3, <2>4 DEF SaveConfirm
  <2> QED BY <2>1, <2>2, <2>3, <2>4
<1> QED BY <1>3, <1>4, <1>5

(* The recovery keeps to the copy it started from. *)
LEMMA RestoreSteps ==
  ASSUME SInv, RestoreAppend \/ RestoreProceeds \/ RestoreReceipt \/ RestoreRaises
                 \/ RestoreReconcile \/ RestoreVerify \/ RestoreFails
                 \/ (\E r \in Record : RestoreStart(r)) \/ (\E w \in Live : LiveCall(w))
  PROVE  RestoreOK' /\ UNCHANGED backup
<1> USE DEF SInv, RestoreOK, Idle, Fields, backup, Snapshots
<1>0. Restorer \in Writer /\ DOMAIN pc = Writer
  BY SnapshotAssumption DEF TypeOK
<1>1. CASE RestoreAppend
  BY <1>1 DEF RestoreAppend
<1>2. CASE RestoreProceeds
  <2>1. pc[Restorer] # "idle"
    BY <1>2 DEF RestoreProceeds, List, LoadFresh, CheckScope, Claim, TakenBySame, Write
  <2> QED BY <1>2, <2>1 DEF RestoreProceeds
<1>3. ASSUME NEW w \in Live, LiveCall(w) PROVE RestoreOK' /\ UNCHANGED backup
  <2>1. pc'[Restorer] = pc[Restorer]
    <3>1. w # Restorer /\ Call(w)
      BY <1>3 DEF Live, LiveCall
    <3> QED
      BY <1>0, <3>1
      DEF Call, Start, List, LoadKnown, LoadFresh, LoadRefused, CheckScope, ScopeRefused, Claim,
          Write, TakenBySame, TakenByOther, Confirm, Unconfirmed, Interrupt, Return, Goto
  <2> QED BY <1>3, <2>1 DEF LiveCall
<1>4. CASE RestoreReceipt
  <2>1. pc'[Restorer] = "idle"
    BY <1>0, <1>4 DEF RestoreReceipt, LoadKnown, Confirm, Return, Goto
  <2>2. /\ DOMAIN restore' = Fields /\ restore'.head = restore.head /\ restore'.step = restore.step
        /\ restore'.history = restore.history /\ UNCHANGED backup
    BY <1>4 DEF RestoreReceipt
  <2> QED BY <2>1, <2>2
<1>5. CASE RestoreRaises
  <2>1. pc[Restorer] # "idle" /\ pc'[Restorer] = "idle"
    BY <1>0, <1>5 DEF RestoreRaises, LoadRefused, ScopeRefused, TakenByOther, Unconfirmed,
                      Interrupt, Return, Goto
  <2>2. /\ DOMAIN restore' = Fields /\ restore'.head = restore.head
        /\ restore'.history = restore.history /\ UNCHANGED backup
    BY <1>5 DEF RestoreRaises
  <2> QED BY <2>1, <2>2
<1>6. CASE RestoreReconcile
  <2>1. /\ DOMAIN restore' = Fields /\ restore'.head = restore.head /\ restore'.step = "append"
        /\ restore'.history = restore.history /\ UNCHANGED backup
        /\ restore.step # "idle"
    BY <1>6 DEF RestoreReconcile
  <2> QED BY <2>1
<1>7. CASE RestoreVerify
  BY <1>7 DEF RestoreVerify, vars, locals
<1>8. CASE RestoreFails
  <2>1. pc'[Restorer] = "idle"
    BY <1>0, <1>8 DEF RestoreFails, Interrupt, Return, Goto, vars, locals
  <2> QED BY <1>8, <2>1 DEF RestoreFails
<1>9. ASSUME NEW r \in Record, RestoreStart(r) PROVE RestoreOK' /\ UNCHANGED backup
  BY <1>9 DEF RestoreStart, Vouched
<1> QED BY <1>1, <1>2, <1>3, <1>4, <1>5, <1>6, <1>7, <1>8, <1>9

-----------------------------------------------------------------------------
(* The theorems.                                                           *)

LEMMA Inductive ==
  ASSUME SInv, [SnapshotNext]_snapshotVars PROVE SInv'
<1>1. TypeOK'
  BY JournalTypes, TargetStep DEF SInv
<1>2. ASSUME UNCHANGED source PROVE Chains(source)'
  BY <1>2 DEF SInv, Chains, Imports, Linked
<1>3. ASSUME UNCHANGED <<source, archive, saved>> PROVE ArchiveOK'
  BY <1>3 DEF SInv, ArchiveOK, Snapshots
<1>4. ASSUME UNCHANGED <<source, save>> PROVE SaveOK'
  BY <1>4 DEF SInv, SaveOK
<1>5. ASSUME UNCHANGED <<pc, checkpoint, archive, restore>> PROVE RestoreOK'
  BY <1>5 DEF SInv, RestoreOK, Snapshots
<1>6. CASE UNCHANGED snapshotVars
  BY <1>1, <1>2, <1>3, <1>4, <1>5, <1>6 DEF SInv, snapshotVars, backup, vars, locals
<1>7. ASSUME NEW r \in Record, SourceCommits(r) PROVE SInv'
  BY <1>1, <1>7, SourceStep DEF SInv
<1>8. ASSUME NEW h \in Record, Bind(h) PROVE SInv'
  <2>1. UNCHANGED <<vars, source, archive, save, saved, restore>> /\ restore.step = "idle"
    BY <1>8 DEF Bind, Quiet
  <2>2. RestoreOK'
    BY <2>1 DEF SInv, RestoreOK, vars, locals
  <2> QED BY <1>1, <1>2, <1>3, <1>4, <2>1, <2>2 DEF SInv
<1>9. CASE SaveRead \/ SaveReread \/ SaveChanged \/ SaveFails \/ \E i \in Identity : SaveAncestor(i)
  BY <1>1, <1>2, <1>3, <1>5, <1>9, SaveFirstSteps DEF SInv, vars, locals
<1>10. CASE SaveClaim \/ SaveWrite \/ SaveTaken \/ SaveConfirm
  <2>1. /\ SaveOK' /\ ArchiveOK' /\ UNCHANGED <<vars, source, checkpoint, restore>>
        /\ restore.step = "idle"
    BY <1>10, SaveLastSteps
  <2>2. RestoreOK'
    BY <2>1 DEF SInv, RestoreOK, vars, locals
  <2> QED BY <1>1, <1>2, <2>1, <2>2 DEF SInv
<1>11. CASE \/ RestoreAppend \/ RestoreProceeds \/ RestoreReceipt \/ RestoreRaises
            \/ RestoreReconcile \/ RestoreVerify \/ RestoreFails
            \/ (\E r \in Record : RestoreStart(r)) \/ (\E w \in Live : LiveCall(w))
  <2>1. RestoreOK' /\ UNCHANGED backup
    BY <1>11, RestoreSteps
  <2> QED BY <1>1, <1>2, <1>3, <1>4, <2>1 DEF SInv, backup
<1> QED
  BY <1>6, <1>7, <1>8, <1>9, <1>10, <1>11 DEF SnapshotNext

LEMMA Initially == SnapshotInit => SInv
<1> SUFFICES ASSUME SnapshotInit PROVE SInv
  OBVIOUS
<1>1. TypeOK
  BY DEF SnapshotInit, Init, TypeOK, Steps
<1>2. Chains(source)
  BY DEF SnapshotInit, Chains, Imports
<1>3. SaveOK /\ RestoreOK
  BY SnapshotAssumption DEF SnapshotInit, Init, SaveOK, RestoreOK, Idle, Fields
<1>4. ArchiveOK
  BY DEF SnapshotInit, ArchiveOK, Snapshots
<1> QED BY <1>1, <1>2, <1>3, <1>4 DEF SInv

LEMMA Invariant == SnapshotSpec => []SInv
BY Initially, Inductive, PTL DEF SnapshotSpec

(* A saved snapshot is the whole history of its head, of the source and of *)
(* all it migrated from, and stays so however the source goes on.          *)
THEOREM SnapshotIsHistory == SnapshotSpec => []SavedIsHistory
<1>1. SInv => SavedIsHistory
  BY DEF SInv, ArchiveOK, SavedIsHistory, Kept
<1> QED BY <1>1, Invariant, PTL

(* Whatever a recovery left behind, whoever else wrote to the directory:   *)
(* if it verifies for a head, it has everything that led to that head.     *)
THEOREM VerifiedIsComplete == SnapshotSpec => []PartialNeverVerifies
<1>1. SInv => PartialNeverVerifies
  <2> SUFFICES ASSUME SInv, NEW h \in Snapshots, Verified(InTarget, h)
               PROVE  archive[h] \subseteq InTarget
    BY DEF PartialNeverVerifies
  <2>1. Kept(source, h, archive[h]) /\ Chains(source) /\ h \in Record
    BY DEF SInv, ArchiveOK, Snapshots
  <2>2. HistoryUpTo(source, h) \subseteq InTarget
    BY <2>1, InTargetRecords, VerifiedHasHistory DEF SInv, Kept
  <2> QED BY <2>1, <2>2 DEF Kept
<1> QED BY <1>1, Invariant, PTL

(* What is reported recovered is the history of the head the caller        *)
(* vouches for, no more and no less.                                       *)
THEOREM RecoveryIsExact == SnapshotSpec => RestoredExactly
<1>1. SInv /\ [SnapshotNext]_snapshotVars =>
        [\A h \in restored' \ restored :
           /\ h = checkpoint
           /\ Verified(InTarget, h)
           /\ History(InTarget, h) = HistoryUpTo(source, h)]_snapshotVars
  <2> SUFFICES ASSUME SInv, [SnapshotNext]_snapshotVars, NEW h \in restored' \ restored
               PROVE  /\ h = checkpoint
                      /\ Verified(InTarget, h)
                      /\ History(InTarget, h) = HistoryUpTo(source, h)
    OBVIOUS
  <2>1. RestoreVerify
    BY DEF SnapshotNext, SourceCommits, Bind, RestoreStart, SaveRead, SaveAncestor, SaveReread,
           SaveChanged, SaveClaim, SaveWrite, SaveTaken, SaveConfirm, SaveFails, SaveStep,
           RestoreAppend, RestoreProceeds, RestoreReceipt, RestoreRaises, RestoreReconcile,
           RestoreFails, LiveCall, snapshotVars
  <2>2. h = restore.head /\ restore.step = "append"
    BY <2>1 DEF RestoreVerify
  <2>3. h = checkpoint /\ restore.history = HistoryUpTo(source, h)
    BY <2>2 DEF SInv, RestoreOK, ArchiveOK, Kept
  <2> QED BY <2>1, <2>2, <2>3 DEF RestoreVerify
<1> QED BY <1>1, Invariant, PTL DEF SnapshotSpec, RestoredExactly

-----------------------------------------------------------------------------
(* The parts are what they are said to be: the composition takes nothing   *)
(* back of what each journal promises on its own.                          *)

LEMMA SourceGrowsOnly ==
  ASSUME [SnapshotNext]_snapshotVars
  PROVE  UNCHANGED source \/ \E r \in Record : Source!Commit(r)
<1>1. CASE \E r \in Record : SourceCommits(r)
  BY <1>1 DEF SourceCommits
<1>2. CASE UNCHANGED snapshotVars
  BY <1>2 DEF snapshotVars, backup
<1> QED
  BY <1>1, <1>2 DEF SnapshotNext, Bind, RestoreStart, SaveRead, SaveAncestor, SaveReread,
       SaveChanged, SaveClaim, SaveWrite, SaveTaken, SaveConfirm, SaveFails, SaveStep,
       RestoreAppend, RestoreProceeds, RestoreReceipt, RestoreRaises, RestoreReconcile,
       RestoreVerify, RestoreFails, LiveCall, backup

(* The directory that is recovered into is an EventJournal at every step:  *)
(* _restore goes through append and its reads alone, so that what is       *)
(* proved of EventJournal holds while a recovery and live callers share    *)
(* the directory, and after either died.                                   *)
THEOREM TargetIsAJournal == SnapshotSpec => Spec
<1>1. SnapshotInit => Init
  BY DEF SnapshotInit
<1>2. SInv /\ [SnapshotNext]_snapshotVars => [Next]_vars
  BY TargetStep
<1> QED BY <1>1, <1>2, Invariant, PTL DEF SnapshotSpec, Spec

(* Neither a save nor a recovery (_save, _restore) touches the source: it  *)
(* goes through the steps of an EventChain and no others.                  *)
THEOREM SourceIsAChain == SnapshotSpec => Source!ChainSpec
<1>1. SnapshotInit => Source!ChainInit
  BY DEF SnapshotInit, Source!ChainInit
<1>2. [SnapshotNext]_snapshotVars => [Source!ChainNext]_<<source, {}>>
  BY SourceGrowsOnly DEF Source!ChainNext
<1> QED BY <1>1, <1>2, PTL DEF SnapshotSpec, Source!ChainSpec, Source!chainVars
===============================================================================
